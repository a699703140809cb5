---------------------------- MODULE MCTalkLoop ----------------------------
(* TalkLoop with two handles and short intervals.                 *)
EXTENDS TalkLoop
=============================================================================
