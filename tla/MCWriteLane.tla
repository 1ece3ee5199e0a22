---------------------------- MODULE MCWriteLane ----------------------------
(* Three writes, two of them to one vault, a chore, an event tail and the  *)
(* deletion of a collection.                                               *)
EXTENDS WriteLane, TLC

CONSTANTS w1, w2, w3, A, B

TwoVaults == (w1 :> A) @@ (w2 :> A) @@ (w3 :> B)
=============================================================================
