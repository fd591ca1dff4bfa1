----------------------------- MODULE SubjectName -----------------------------
(***************************************************************************)
(* The canonical encoding of a subject (trust-core/src/cert.rs,            *)
(* subject_hash): what a hashed directory's file names are digests of.  A  *)
(* name is a sequence of RDNs, an RDN a set of attributes, an attribute an *)
(* OID, the tag of its value and the value's bytes.  The bytes are numbers *)
(* and the DER around them is kept, for the canonical form must not take   *)
(* two names for one.                                                      *)
(***************************************************************************)
EXTENDS Integers, FiniteSets, SequencesExt

CONSTANT Short  \* 128, the least length that is written in the long form

ASSUME SubjectNameAssumption == Short \in Nat /\ Short > 4

\* Tags.
OidTag == 6
Utf8 == 12
Sequence == 48
Set == 49
CanonStrings == {12, 19, 20, 22, 26, 28, 30}

\* Characters that fold tells apart from others.
Space == 32
Upper == 65..90

-----------------------------------------------------------------------------
(***************************************************************************)
(* The minimal DER reader and writer.                                      *)
(***************************************************************************)
Base == 2 * Short
Digits[n \in Nat] == IF n < Base THEN <<n>> ELSE Append(Digits[n \div Base], n % Base)

Tlv(tag, content) ==
    LET n == Len(content)
    IN  <<tag>>
        \o (IF n < Short THEN <<n>> ELSE <<Short + Len(Digits[n])>> \o Digits[n])
        \o content

Bad == [ok |-> FALSE]

\* read_tlv: the tag, the content and what follows.
ReadTlv(input) ==
    LET count == IF input[2] < Short THEN 0 ELSE input[2] % Short
        len == IF input[2] < Short THEN input[2]
               ELSE FoldLeft(LAMBDA n, b : n * Base + b, 0, SubSeq(input, 3, 2 + count))
        header == 2 + count
    IN  CASE Len(input) < 2 -> Bad
          [] Len(input) >= 2 /\ (input[2] = Short \/ count > 4 \/ Len(input) < header) -> Bad
          [] OTHER ->
                IF Len(input) < header + len THEN Bad
                ELSE [ok |-> TRUE, tag |-> input[1],
                      content |-> SubSeq(input, header + 1, header + len),
                      rest |-> SubSeq(input, header + len + 1, Len(input))]

\* The elements one after another in some content; <<Bad>> ends them where one
\* cannot be read.
Elements[content \in Seq(Nat)] ==
    LET first == ReadTlv(content)
    IN  CASE content = <<>> -> <<>>
          [] content # <<>> /\ ~first.ok -> <<Bad>>
          [] OTHER -> <<first>> \o Elements[first.rest]
Readable(elements) == \A i \in DOMAIN elements : elements[i].ok

-----------------------------------------------------------------------------
(***************************************************************************)
(* The canonical form.                                                     *)
(***************************************************************************)
Lower(b) == IF b \in Upper THEN b + 32 ELSE b

\* fold: spaces at the ends are dropped, a run of them is one, ASCII letters
\* are lowercased.
Fold(value) ==
    LET black == {i \in DOMAIN value : value[i] # Space}
        trimmed == IF black = {} THEN <<>>
                   ELSE SubSeq(value, Min(black), Max(black))
        step(f, b) ==
            IF b = Space
            THEN [out |-> IF f.inSpace THEN f.out ELSE Append(f.out, Space), inSpace |-> TRUE]
            ELSE [out |-> Append(f.out, Lower(b)), inSpace |-> FALSE]
    IN  FoldLeft(step, [out |-> <<>>, inSpace |-> FALSE], trimmed).out

\* canonical_ava, of an element of an RDN.
CanonicalAva(element) ==
    LET parts == Elements[element.content]
    IN  IF element.tag = Sequence /\ Len(parts) >= 2 /\ parts[1].ok /\ parts[2].ok
        THEN IF parts[1].tag # OidTag THEN Bad
             ELSE [ok |-> TRUE,
                   der |-> Tlv(Sequence, Tlv(OidTag, parts[1].content)
                             \o IF parts[2].tag \in CanonStrings
                                THEN Tlv(Utf8, Fold(parts[2].content))
                                ELSE Tlv(parts[2].tag, parts[2].content))]
        ELSE Bad

\* The order of encodings: bytewise, a prefix first.
Precedes(a, b) ==
    \E i \in 0..Len(a) :
        /\ i <= Len(b) /\ SubSeq(a, 1, i) = SubSeq(b, 1, i)
        /\ \/ i = Len(a) /\ i < Len(b)
           \/ i < Len(a) /\ i < Len(b) /\ a[i + 1] < b[i + 1]
Encoded(avas) == [i \in DOMAIN avas |-> avas[i].der]

\* Mutant of CanonicalSet: the attributes stay in the order they were in.
CanonicalSetAsWritten(avas) == Tlv(Set, FlattenSeq(Encoded(avas)))

\* One RDN as a SET OF, its members sorted by their encodings.
CanonicalSet(avas) == Tlv(Set, FlattenSeq(SortSeq(Encoded(avas), Precedes)))

\* canonical_name: the sets one after another, without the outer SEQUENCE.
CanonicalName(der) ==
    LET outer == ReadTlv(der)
        rdns == Elements[outer.content]
        avas(rdn) == LET parts == Elements[rdn.content]
                     IN  [i \in DOMAIN parts |->
                             IF parts[i].ok THEN CanonicalAva(parts[i]) ELSE Bad]
    IN  IF outer.ok /\ outer.tag = Sequence /\ outer.rest = <<>> /\ Readable(rdns)
        THEN IF \A i \in DOMAIN rdns : rdns[i].tag = Set /\ Readable(avas(rdns[i]))
             THEN [ok |-> TRUE,
                   der |-> FlattenSeq([i \in DOMAIN rdns |-> CanonicalSet(avas(rdns[i]))])]
             ELSE Bad
        ELSE Bad

-----------------------------------------------------------------------------
(***************************************************************************)
(* Names as the certificate library writes them, and when two are the same *)
(* name.                                                                   *)
(***************************************************************************)
\* A name in DER: its RDNs in order, the attributes of each sorted.
NameDer(name) ==
    LET ava(a) == Tlv(Sequence, Tlv(OidTag, a.oid) \o Tlv(a.tag, a.value))
        rdn(r) == Tlv(Set, FlattenSeq(SetToSortSeq({ava(a) : a \in r}, Precedes)))
    IN  Tlv(Sequence, FlattenSeq([i \in DOMAIN name |-> rdn(name[i])]))

\* What of a text counts: no case, no space at an end, one between words.
Significant(value) ==
    {i \in DOMAIN value :
        \/ value[i] # Space
        \/ /\ i > 1 /\ value[i - 1] # Space
           /\ \E j \in DOMAIN value : j > i /\ value[j] # Space}
Meaning(a) ==
    IF a.tag \in CanonStrings
    THEN LET kept == SetToSortSeq(Significant(a.value), <)
         IN  <<a.oid, Utf8, [i \in DOMAIN kept |-> Lower(a.value[kept[i]])]>>
    ELSE <<a.oid, a.tag, a.value>>

\* Two names are the same when their RDNs mean the same, one by one.
SameName(m, n) ==
    /\ Len(m) = Len(n)
    /\ \A i \in DOMAIN m :
          /\ {Meaning(a) : a \in m[i]} = {Meaning(a) : a \in n[i]}
          /\ \A a \in m[i] :
                Cardinality({b \in m[i] : Meaning(b) = Meaning(a)})
                = Cardinality({b \in n[i] : Meaning(b) = Meaning(a)})
=============================================================================
