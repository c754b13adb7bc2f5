------------------------------- MODULE MCJudge -------------------------------
(* A small instance of Judge for TLC. *)
EXTENDS Judge
=============================================================================
