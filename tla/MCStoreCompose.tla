--------------------------- MODULE MCStoreCompose ---------------------------
(* Three certificates: one that has not expired, one that expires at time  *)
(* 5, and one that is not a CA; their encodings end in two, no and one      *)
(* padding characters, and the last takes two lines.                       *)
EXTENDS StoreCompose

MCDer == <<<<5>>, <<255, 7, 129>>, <<48, 130, 1, 0, 64>>>>
\* Subjects: a common name in three types, of which the last is no text, with
\* values that differ in case, in spaces or in a byte outside ASCII; two
\* attributes whose order the folding changes, and two RDNs.
Oid == <<3>>
Attribute(tag, value) == [oid |-> Oid, tag |-> tag, value |-> value]
One(tag, value) == <<{Attribute(tag, value)}>>
Values == {<<65>>, <<97>>, <<32, 97>>, <<65, 32>>, <<97, 32, 32, 66>>, <<97, 32, 98>>, <<32>>,
           <<193>>, <<65, 97, 65, 97>>}
MCNames ==
    {One(tag, value) : tag \in {12, 19, 3}, value \in Values}
    \cup {<<{Attribute(19, <<66>>), Attribute(19, <<97>>)}>>,
          <<{Attribute(19, <<98>>), Attribute(19, <<65>>)}>>,
          <<{Attribute(19, <<65>>)}, {Attribute(19, <<66>>)}>>,
          <<{Attribute(12, <<66>>)}, {Attribute(12, <<97>>)}>>,
          <<{Attribute(12, <<65>>), Attribute(12, <<97>>)}>>}
MCDigest(bytes) == FoldLeft(LAMBDA n, b : (2 * n + b) % 7, 0, bytes)

MCNotAfter == [f \in Fingerprints |-> IF f = 2 THEN 5 ELSE 9]
MCPurposeLists == {{}, {"SERVERAUTH"}, {"Other"}}
MCClocks == {-1, 4, 5}
MCDistrusts == {[fp |-> 1, spelling |-> "plain"], [fp |-> 1, spelling |-> "colons"],
                [fp |-> 2, spelling |-> "plain"]}
=============================================================================
