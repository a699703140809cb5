----------------------------- MODULE MCAsyncLog -----------------------------
(* AsyncLog with a queue of two slots, an owner that logs once and one     *)
(* more thread that logs twice: enough for a full queue, for a thread that *)
(* logs before, during and after release, and for two producers at once.   *)
EXTENDS AsyncLog

CONSTANTS other

MCMaxLog == [p \in Producers |-> IF p = other THEN 2 ELSE 1]
=============================================================================
