-------------------------------- MODULE Wire --------------------------------
(***************************************************************************)
(* The control protocol's messages (trust-core/src/lib.rs): a request or a *)
(* reply is a map of named fields in MessagePack, framed by its length.    *)
(* A message is written by this code or by a peer of another version, read *)
(* by the other side, and must come out as it was meant or be refused.     *)
(*                                                                         *)
(* The encoding is a sequence of tokens, <<type, value>>; the library that *)
(* writes and reads one token is external.  A message is a record whose    *)
(* fields are the wire's field names; an optional string is a sequence of  *)
(* at most one.                                                            *)
(***************************************************************************)
EXTENDS Integers, FiniteSets, SequencesExt

CONSTANTS
    Requests, Replies,  \* messages to send
    MaxMessage,         \* MAX_MESSAGE_BYTES
    U32,                \* 2^32
    Texts,              \* strings and certificates there are
    Weight,             \* the bytes each takes
    MaxEdits            \* bound: differences of a peer's encoding

VARIABLES
    message,    \* what the sender means
    count,      \* the map header it writes
    fields,     \* the fields it writes: sequence of <<name, tokens>>
    edits,      \* how its encoding differs from this code's
    phase,      \* writing, sent, unsent, received
    payload,    \* the tokens of the frame
    outcome     \* what the receiver makes of them

vars == <<message, count, fields, edits, phase, payload, outcome>>

-----------------------------------------------------------------------------
(***************************************************************************)
(* Fields.  Each name has one type in both directions, a value that stands *)
(* for its absence, and a message of a kind has its fields in an order.    *)
(***************************************************************************)
Counters == {"shipped", "added", "distrusted", "skipped", "effective"}

RequestFields == {"query", "with_der", "purpose"}
ReplyFields == {"ok", "error", "kind", "generation", "more", "roots", "health",
                "message", "compat_mode", "rendered"} \cup Counters
RootFields == {"fingerprint", "subject", "purposes", "source", "name",
               "not_after", "der"}

TypeOf(name) ==
    CASE name \in {"query", "error", "kind", "health", "fingerprint", "subject",
                   "source"} -> "str"
      [] name \in {"with_der", "ok", "more"} -> "bool"
      [] name \in {"generation", "compat_mode"} \cup Counters -> "uint"
      [] name \in {"purpose", "message", "name"} -> "optional"
      [] name \in {"purposes", "rendered"} -> "list"
      [] name = "not_after" -> "int"
      [] name = "der" -> "bin"
      [] name = "roots" -> "roots"

\* The types of the messages.
Optional == {list \in Seq(Texts) : Len(list) <= 1}
Request == [query : {"roots"}, with_der : BOOLEAN, purpose : Optional]
           \cup [query : {"subscribe"}, with_der : BOOLEAN]
           \cup [query : {"status", "reload"}]
Root == [fingerprint : Texts, subject : Texts, purposes : Seq(Texts),
         source : {"shipped", "added"}, name : Optional, not_after : Int, der : Texts]
Reply == [ok : {TRUE}] \cup [ok : {FALSE}, error : Texts]
         \cup [ok : {TRUE}, kind : {"roots"}, generation : Nat, more : BOOLEAN,
               roots : Seq(Root)]
         \cup [ok : {TRUE}, kind : {"status"}, generation : Nat,
               health : {"ok", "degraded"}, message : Optional, shipped : Nat,
               added : Nat, distrusted : Nat, skipped : Nat, effective : Nat,
               compat_mode : 0..(U32 - 1), rendered : Seq(Texts)]

\* The strings the protocol itself is made of, a later version's included.
Vocabulary ==
    RequestFields \cup ReplyFields \cup RootFields
    \cup {"subscribe", "status", "reload", "degraded", "future", "inner", "x"}

ASSUME WireAssumption ==
    /\ Requests \subseteq Request /\ Replies \subseteq Reply
    /\ MaxMessage \in Nat /\ U32 \in Nat \ {0} /\ MaxEdits \in Nat
    /\ Vocabulary \subseteq Texts /\ Weight \in [Texts -> Nat \ {0}]

\* What a decoder assumes of a field that is not there.
Default(name) ==
    CASE TypeOf(name) \in {"optional", "list", "roots"} -> <<>>
      [] TypeOf(name) \in {"uint", "int"} -> 0
      [] name = "health" -> "ok"
      [] name = "source" -> "shipped"
      [] name = "error" -> "unspecified error"
      [] name \in {"with_der", "more"} -> FALSE
      [] name \in {"fingerprint", "subject", "der"} -> ""

\* The words an enumerated field may hold; an unknown health or source is
\* read as the default.
Known(name, word) ==
    CASE name = "health" -> word \in {"ok", "degraded"}
      [] name = "source" -> word \in {"shipped", "added"}
      [] OTHER -> TRUE

\* The fields of a message, in the order written, and the map header.
Layout(m) ==
    IF "query" \in DOMAIN m
    THEN CASE m.query = "roots" -> <<3, <<"query", "with_der", "purpose">>>>
           [] m.query = "subscribe" -> <<2, <<"query", "with_der">>>>
           [] OTHER -> <<1, <<"query">>>>
    ELSE CASE ~m.ok -> <<2, <<"ok", "error">>>>
           [] m.ok /\ "kind" \notin DOMAIN m -> <<1, <<"ok">>>>
           [] m.ok /\ "kind" \in DOMAIN m ->
                IF m.kind = "roots"
                THEN <<5, <<"ok", "kind", "generation", "more", "roots">>>>
                ELSE <<12, <<"ok", "kind", "generation", "health", "message",
                             "shipped", "added", "distrusted", "skipped",
                             "effective", "compat_mode", "rendered">>>>
RootLayout == <<7, <<"fingerprint", "subject", "purposes", "source", "name",
                     "not_after", "der">>>>

-----------------------------------------------------------------------------
(***************************************************************************)
(* Writing.                                                                *)
(***************************************************************************)
Nil == <<"nil">>
Strings(list) == [i \in DOMAIN list |-> <<"str", list[i]>>]

\* A map: its header, then each name with its value.
WriteMap(n, fs) ==
    <<<<"map", n>>>> \o FlattenSeq([i \in DOMAIN fs |-> <<<<"str", fs[i][1]>>>> \o fs[i][2]])

Scalar(name, value) ==
    CASE TypeOf(name) \in {"str", "bool", "bin"} -> <<<<TypeOf(name), value>>>>
      [] TypeOf(name) \in {"uint", "int"} -> <<<<"int", value>>>>
      [] TypeOf(name) = "optional" -> IF value = <<>> THEN <<Nil>> ELSE Strings(value)
      [] TypeOf(name) = "list" -> <<<<"array", Len(value)>>>> \o Strings(value)

RootFieldsOf(root) ==
    [i \in 1..7 |-> <<RootLayout[2][i], Scalar(RootLayout[2][i], root[RootLayout[2][i]])>>]

WriteRoots(maps) == <<<<"array", Len(maps)>>>> \o FlattenSeq(maps)
WriteRoot(root) == WriteMap(RootLayout[1], RootFieldsOf(root))

Write(name, value) ==
    IF name = "roots" THEN WriteRoots([i \in DOMAIN value |-> WriteRoot(value[i])])
                      ELSE Scalar(name, value)

\* Request::encode and Reply::encode.
FieldsOf(m) ==
    LET names == Layout(m)[2] IN [i \in DOMAIN names |-> <<names[i], Write(names[i], m[names[i]])>>]

\* The bytes of a payload.  (A recursive function, so that it can be proved
\* about, as the readers' loops are.)
Bytes(t) == IF t[1] \in {"str", "bin"} THEN Weight[t[2]] ELSE 1
Size(tokens) ==
    LET sum[i \in 0..Len(tokens)] == IF i = 0 THEN 0 ELSE sum[i - 1] + Bytes(tokens[i])
    IN  sum[Len(tokens)]

-----------------------------------------------------------------------------
(***************************************************************************)
(* Reading.  A reader takes tokens from the front and gives a value and    *)
(* the rest, or fails.                                                     *)
(***************************************************************************)
Refused == [ok |-> FALSE]
Got(value, rest) == [ok |-> TRUE, value |-> value, rest |-> rest]

ReadToken(r, type) ==
    IF r # <<>> /\ Head(r)[1] = type THEN Got(Head(r)[2], Tail(r)) ELSE Refused

\* Mutant of Skip: a value is one token.
SkipToken(r) == IF r = <<>> THEN Refused ELSE Got("skipped", Tail(r))

\* Reader::skip: the tokens of one value, up to the first after which no value
\* is left to come.
Inside(t) == CASE t[1] = "map" -> 2 * t[2]
               [] t[1] = "array" -> t[2]
               [] OTHER -> 0
Skip(r) ==
    LET left[i \in 0..Len(r)] == IF i = 0 THEN 1 ELSE left[i - 1] - 1 + Inside(r[i])
        ends == {i \in 0..Len(r) : left[i] = 0}
        end == CHOOSE i \in ends : \A j \in ends : i <= j
    IN  IF ends = {} THEN Refused ELSE Got("skipped", SubSeq(r, end + 1, Len(r)))

\* n strings.
ReadStrings(r, n) ==
    IF n <= Len(r) /\ \A i \in 1..n : r[i][1] = "str"
    THEN Got([i \in 1..n |-> r[i][2]], SubSeq(r, n + 1, Len(r))) ELSE Refused

\* read_str_list: a count past what is left in the message is refused first.
ReadList(r) ==
    LET n == ReadToken(r, "array")
    IN  IF n.ok /\ n.value <= Size(n.rest) THEN ReadStrings(n.rest, n.value)
        ELSE Refused

ReadOptional(r) ==
    IF r # <<>> /\ Head(r) = Nil THEN Got(<<>>, Tail(r))
    ELSE LET s == ReadToken(r, "str") IN IF s.ok THEN Got(<<s.value>>, s.rest) ELSE Refused

\* A number; an unsigned one is not negative, and compat_mode is cut to u32.
ReadNumber(name, r) ==
    LET n == ReadToken(r, "int")
    IN  CASE ~n.ok \/ (n.ok /\ n.value < 0 /\ TypeOf(name) = "uint") -> Refused
          [] OTHER -> IF name = "compat_mode" THEN Got(n.value % U32, n.rest) ELSE n

\* Every value but an array of roots.
ReadScalar(name, r) ==
    CASE TypeOf(name) \in {"bool", "bin"} -> ReadToken(r, TypeOf(name))
      [] TypeOf(name) = "str" ->
            LET s == ReadToken(r, "str")
            IN  IF s.ok /\ ~Known(name, s.value) THEN Got(Default(name), s.rest) ELSE s
      [] TypeOf(name) \in {"uint", "int"} -> ReadNumber(name, r)
      [] TypeOf(name) = "optional" -> ReadOptional(r)
      [] TypeOf(name) = "list" -> ReadList(r)

With(got, name, value) == [k \in DOMAIN got \cup {name} |->
                              IF k = name THEN value ELSE got[k]]
Field(got, name) == IF name \in DOMAIN got THEN got[name] ELSE Default(name)
Nothing == [k \in {} |-> ""]

\* Mutant of Repeated: a repeated field overwrites the first.
NeverRepeated(got, name) == FALSE

\* for_each_field: a name met before is refused, known or not.
Repeated(got, name) == name \in DOMAIN got

\* for_each_field: the fields of a map, each value read by the caller's match.
NextField(p, key, value) ==
    IF p.ok /\ key.ok /\ ~Repeated(p.value, key.value) /\ value.ok
    THEN Got(With(p.value, key.value, value.value), value.rest) ELSE Refused
EachField(r, Value(_, _)) ==
    LET n == ReadToken(r, "map")
        pass[i \in 0..n.value] ==
            IF i = 0 THEN Got(Nothing, n.rest)
            ELSE LET p == pass[i - 1]
                     key == ReadToken(p.rest, "str")
                 IN  NextField(p, key, Value(key.value, key.rest))
    IN  IF n.ok THEN pass[n.value] ELSE Refused

\* decode_root.
RootValue(name, r) == IF name \in RootFields THEN ReadScalar(name, r) ELSE Skip(r)
ReadRoot(r) ==
    LET got == EachField(r, RootValue)
    IN  IF got.ok THEN Got([k \in RootFields |-> Field(got.value, k)], got.rest)
        ELSE Refused

\* Reply::decode's array of roots.
NextRoot(p) ==
    LET root == ReadRoot(p.rest)
    IN  IF p.ok /\ root.ok THEN Got(Append(p.value, root.value), root.rest) ELSE Refused
ReadRootArray(r) ==
    LET n == ReadToken(r, "array")
        pass[i \in 0..n.value] ==
            IF i = 0 THEN Got(<<>>, n.rest) ELSE LET p == pass[i - 1] IN NextRoot(p)
    IN  IF n.ok THEN pass[n.value] ELSE Refused

\* The value of a field of a request or a reply.
RequestValue(name, r) == IF name \in RequestFields THEN ReadScalar(name, r) ELSE Skip(r)
ReplyValue(name, r) ==
    CASE name \notin ReplyFields -> Skip(r)
      [] name = "roots" -> ReadRootArray(r)
      [] OTHER -> ReadScalar(name, r)

\* A message of a kind, from the fields there were.
Built(m, got) ==
    LET names == ToSet(Layout(m)[2])
    IN  Got([k \in names |-> IF k \in DOMAIN m THEN m[k] ELSE Field(got, k)], <<>>)

\* Mutant of RequestOf: a request that names no query asks for the status.
RequestOrStatus(got) ==
    LET query == IF "query" \in DOMAIN got THEN got.query ELSE "status"
    IN  IF query \in {"roots", "subscribe", "status", "reload"}
        THEN Built([query |-> query], got) ELSE Refused

\* Request::decode, after the fields.
RequestOf(got) ==
    IF "query" \in DOMAIN got /\ Field(got, "query") \in {"roots", "subscribe", "status", "reload"}
    THEN Built([query |-> got.query], got) ELSE Refused

\* Reply::decode, after the fields: an unknown kind of success is plain Ok.
ReplyOf(got) ==
    CASE "ok" \notin DOMAIN got -> Refused
      [] "ok" \in DOMAIN got ->
            IF ~got.ok THEN Built([ok |-> FALSE], got)
            ELSE IF "kind" \in DOMAIN got /\ Field(got, "kind") \in {"roots", "status"}
                 THEN Built([ok |-> TRUE, kind |-> got.kind], got)
                 ELSE Built([ok |-> TRUE], got)

\* Request::decode and Reply::decode: what follows the map is not looked at.
DecodeRequest(tokens) ==
    LET got == EachField(tokens, RequestValue)
    IN  IF got.ok THEN RequestOf(got.value) ELSE Refused
DecodeReply(tokens) ==
    LET got == EachField(tokens, ReplyValue)
    IN  IF got.ok THEN ReplyOf(got.value) ELSE Refused

-----------------------------------------------------------------------------
(***************************************************************************)
(* One message from a sender to a receiver.  The sender may be of another  *)
(* version: each edit is one way its encoding differs from this code's.    *)
(***************************************************************************)
IsRequest == "query" \in DOMAIN message
Decoded(tokens) == IF IsRequest THEN DecodeRequest(tokens) ELSE DecodeReply(tokens)

\* Each field is edited once; the roots are when one of them is.
Edited(name) ==
    \E e \in edits : \/ e.in = "message" /\ e.name = name
                     \/ e.in = "root" /\ name = "roots"
NoName == ""
Note(in, kind, name) == edits' = edits \cup {[in |-> in, kind |-> kind, name |-> name]}

\* The fields fs with one edit of the field at i; a new field is last.
Words == {"query", "kind", "health", "source"}
Structure == <<<<"map", 1>>, <<"str", "inner">>, <<"array", 2>>, Nil, <<"str", "x">>>>
EditedFields(fs, kind, i) ==
    CASE kind = "added" -> Append(fs, <<"future", Structure>>)
      [] kind = "repeated" -> Append(fs, fs[i])
      [] kind = "dropped" -> RemoveAt(fs, i)
      [] kind = "retyped" -> ReplaceAt(fs, i, <<fs[i][1], <<<<"map", 0>>>>>>)
      [] kind = "reworded" -> ReplaceAt(fs, i, <<fs[i][1], <<<<"str", "future">>>>>>)
EditKinds == {"added", "repeated", "dropped", "retyped", "reworded"}
EditedName(fs, kind, i) == IF kind = "added" THEN "future" ELSE fs[i][1]
EditedCount(kind) == CASE kind \in {"added", "repeated"} -> 1
                       [] kind = "dropped" -> -1
                       [] OTHER -> 0
Applies(fs, kind, i) == kind = "reworded" => fs[i][1] \in Words

Init ==
    /\ message \in Requests \cup Replies
    /\ count = Layout(message)[1] /\ fields = FieldsOf(message)
    /\ edits = {} /\ phase = "writing" /\ payload = <<>> /\ outcome = Refused

Writing == phase = "writing" /\ Cardinality(edits) < MaxEdits

\* The fields in another order.
Reorder ==
    /\ Writing /\ ~\E e \in edits : e.kind = "reordered"
    /\ \E i, j \in DOMAIN fields :
          /\ i < j
          /\ fields' = [fields EXCEPT ![i] = fields[j], ![j] = fields[i]]
    /\ Note("message", "reordered", NoName)
    /\ UNCHANGED <<message, count, phase, payload, outcome>>

\* An edit of a field of the message.
EditField ==
    /\ Writing
    /\ \E kind \in EditKinds, i \in DOMAIN fields :
          /\ Applies(fields, kind, i) /\ ~Edited(EditedName(fields, kind, i))
          /\ fields' = EditedFields(fields, kind, i)
          /\ count' = count + EditedCount(kind)
          /\ Note("message", kind, EditedName(fields, kind, i))
    /\ UNCHANGED <<message, phase, payload, outcome>>

\* An edit of a field of the first root.
EditRoot ==
    /\ Writing
    /\ "roots" \in DOMAIN message
    /\ \E f \in DOMAIN fields, kind \in EditKinds, i \in 1..7 :
          LET root == RootFieldsOf(message.roots[1])
              first == WriteMap(RootLayout[1] + EditedCount(kind), EditedFields(root, kind, i))
          IN  /\ fields[f][1] = "roots" /\ ~Edited("roots") /\ message.roots # <<>>
              /\ Applies(root, kind, i)
              /\ fields' = ReplaceAt(fields, f, <<"roots", WriteRoots(
                              [r \in DOMAIN message.roots |->
                                  IF r = 1 THEN first ELSE WriteRoot(message.roots[r])])>>)
              /\ Note("root", kind, EditedName(root, kind, i))
    /\ UNCHANGED <<message, count, phase, payload, outcome>>

\* A client's Channel::send and trust_core::send refuse a payload over the
\* ceiling; trustd's write_frame does not.
Send ==
    /\ phase = "writing"
    /\ payload' = WriteMap(count, fields)
    /\ phase' = IF IsRequest /\ Size(payload') > MaxMessage THEN "unsent" ELSE "sent"
    /\ UNCHANGED <<message, count, fields, edits, outcome>>

\* A frame whose payload ends early, or goes on after the message.
Cut ==
    /\ phase = "sent" /\ Cardinality(edits) < MaxEdits
    /\ \/ \E n \in 0..Len(payload) - 1 :
             payload' = SubSeq(payload, 1, n) /\ Note("frame", "cut", NoName)
       \/ payload' = Append(payload, Nil) /\ Note("frame", "continued", NoName)
    /\ ~\E e \in edits : e.in = "frame"
    /\ UNCHANGED <<message, count, fields, phase, outcome>>

\* recv, Channel::receive and Client::read: the length of a frame that is
\* taken.  The daemon compares what it has buffered, header and all, first.
Accepts(size) == (IsRequest => 4 + size <= 4 + MaxMessage) /\ size <= MaxMessage

Receive ==
    /\ phase = "sent"
    /\ phase' = "received"
    /\ outcome' = IF Accepts(Size(payload)) THEN Decoded(payload) ELSE Refused
    /\ UNCHANGED <<message, count, fields, edits, payload>>

\* The message is received, or was never sent.
Finished == phase \in {"received", "unsent"} /\ UNCHANGED vars

Next == Reorder \/ EditField \/ EditRoot \/ Send \/ Cut \/ Receive \/ Finished

Spec == Init /\ [][Next]_vars

-----------------------------------------------------------------------------
Kinds == {e.kind : e \in edits}
Fits == Size(payload) <= MaxMessage

\* What this code wrote, and what a later version wrote that adds fields,
\* orders them otherwise or says more after the message, is read as it was
\* meant, by either side and up to the very ceiling.  A client sends nothing
\* the daemon would refuse for its size; the daemon may send a reply that no
\* client takes.
SkewIsHarmless ==
    /\ phase = "received" /\ Kinds \subseteq {"reordered", "added", "continued"}
    /\ (IsRequest /\ edits = {}) \/ Fits
    => outcome = Got(message, <<>>)

\* A message that is cut short anywhere, repeats a field, known or not, or
\* holds a value of another type, in a root too, is refused and never read as
\* another message.
DamageIsRefused ==
    phase = "received" /\ Kinds \cap {"cut", "repeated", "retyped"} # {} => ~outcome.ok

\* The names that are absent from the message, or whose word is not known.
Absent(in) ==
    {e.name : e \in {d \in edits : d.in = in /\ d.kind \in {"dropped", "reworded"}}}

\* A message with its absent fields replaced by their defaults.
Defaulted(m, absent) == [k \in DOMAIN m |-> IF k \in absent THEN Default(k) ELSE m[k]]

\* A message without some of its fields, or with a word of a later version,
\* is refused when what it asks for or whether it succeeded is unknown, is a
\* plain success when only its kind is, and otherwise differs from what was
\* meant in exactly those fields, which have their defaults: a listing form,
\* no purpose, a shipped root, a healthy status, the last chunk.
MissingIsDefault ==
    phase = "received" /\ Fits /\ Kinds \subseteq {"dropped", "reworded", "added", "reordered"} =>
        LET roots == IF "roots" \in DOMAIN message /\ message.roots # <<>>
                     THEN [message EXCEPT !.roots[1] = Defaulted(@, Absent("root"))]
                     ELSE message
        IN  CASE Absent("message") \cap {"query", "ok"} # {} -> ~outcome.ok
              [] Absent("message") \cap {"query", "ok"} = {} ->
                    outcome = Got(IF "kind" \in Absent("message") THEN [ok |-> TRUE]
                                  ELSE Defaulted(roots, Absent("message")), <<>>)
=============================================================================
