---------------------------- MODULE MCAsyncQueue ----------------------------
(* AsyncQueue with two slots, one log thread, and either two producers that *)
(* push three messages each, enough for a stale claim to lap the reader, or *)
(* one producer that goes round the ring twice and more.                    *)
EXTENDS AsyncQueue
=============================================================================
