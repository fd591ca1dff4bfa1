------------------------------- MODULE MCWire -------------------------------
(* Requests of every kind, with a purpose that reaches the ceiling and one *)
(* that passes it; replies of every kind, with roots of both sources, and  *)
(* a pair of roots so large that their chunk is over the ceiling.          *)
EXTENDS Wire

MCTexts == Vocabulary \cup {"ServerAuth", "a", "b", "n", "f1", "f2", "s", "d1", "",
                             "refused", "why", "bundle", "dir",
                             "large", "at the ceiling", "over the ceiling"}
MCWeight == [s \in MCTexts |-> CASE s = "at the ceiling" -> MaxMessage - 6
                                 [] s = "over the ceiling" -> MaxMessage - 5
                                 [] s = "large" -> 20
                                 [] OTHER -> 1]

MCRequests ==
    [query : {"roots"}, with_der : BOOLEAN,
     purpose : {<<>>, <<"ServerAuth">>, <<"at the ceiling">>, <<"over the ceiling">>}]
    \cup [query : {"subscribe"}, with_der : BOOLEAN]
    \cup [query : {"status", "reload"}]

ShippedRoot == [fingerprint |-> "f1", subject |-> "s", purposes |-> <<"ServerAuth">>,
                source |-> "shipped", name |-> <<>>, not_after |-> -1, der |-> "d1"]
AddedRoot == [fingerprint |-> "f2", subject |-> "s", purposes |-> <<"a", "b">>,
              source |-> "added", name |-> <<"n">>, not_after |-> 9, der |-> ""]
LargeRoot == [ShippedRoot EXCEPT !.der = "large"]

MCReplies ==
    {[ok |-> TRUE], [ok |-> FALSE, error |-> "refused"]}
    \cup [ok : {TRUE}, kind : {"roots"}, generation : {3}, more : BOOLEAN,
          roots : {<<>>, <<ShippedRoot>>, <<AddedRoot, ShippedRoot>>,
                   <<LargeRoot, LargeRoot>>}]
    \cup [ok : {TRUE}, kind : {"status"}, generation : {3}, health : {"degraded"},
          message : {<<>>, <<"why">>}, shipped : {5}, added : {1}, distrusted : {2},
          skipped : {4}, effective : {6}, compat_mode : {1},
          rendered : {<<>>, <<"bundle", "dir">>}]
=============================================================================
