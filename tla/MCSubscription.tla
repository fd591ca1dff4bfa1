--------------------------- MODULE MCSubscription ---------------------------
(* Chunks of two roots: an empty set, one chunk, a full and a partial one,  *)
(* and a set that exceeds the snapshot limit.                              *)
EXTENDS Subscription

MCRootSets == {<<>>, <<1, 2>>, <<1, 2, 3>>, <<1, 2, 3, 4, 5>>}
=============================================================================
