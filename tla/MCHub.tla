-------------------------------- MODULE MCHub --------------------------------
(* A small instance of RatingHub for TLC. *)
EXTENDS RatingHub
=============================================================================
