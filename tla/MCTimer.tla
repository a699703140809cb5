------------------------------ MODULE MCTimer ------------------------------
(* Three timers over three wheels of two slots each and steps of two ms;   *)
(* delays that reach every wheel, and upper wheels in their later slots    *)
(* too.                                                                    *)
EXTENDS Timer

MCLens == <<2, 2, 2>>
=============================================================================
