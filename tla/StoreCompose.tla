---------------------------- MODULE StoreCompose ----------------------------
(***************************************************************************)
(* From the text of the shipped bundle to the text of the rendered one:    *)
(* cert::from_pem reads the blocks; store::compose makes one pass over     *)
(* them, one over the additions in name order, push dropping distrusted    *)
(* and duplicate entries, and a sort at the end; render writes the result  *)
(* as one bundle and as a directory of files named by subject hash.  The   *)
(* composition is compared with the set-level definition of module         *)
(* TrustStore.                                                             *)
(*                                                                         *)
(* A certificate is known by its fingerprint; Der is its encoding, IsCA    *)
(* says whether it parses as a CA certificate and NotAfter when it         *)
(* expires.  A distrust is a fingerprint and the way it is spelled in the  *)
(* registry.                                                               *)
(***************************************************************************)
EXTENDS TrustStore, Pem, SubjectName, Kept

CONSTANTS
    Der,            \* the encoding of each certificate
    Names,          \* subjects there may be
    Digest(_),      \* the four bytes of SHA-1 a file is named by
    IsCA,           \* certificates that parse as CA certificates
    NotAfter,       \* expiry of each certificate
    Floor,          \* MINIMUM_SHIPPED
    MaxBlocks,      \* bound: fragments of a bundle
    Damaged,        \* certificates that may stand damaged in a bundle
    AdditionNames,  \* keys there may be under Add\
    PurposeLists,   \* Purposes values there may be, as sets of spellings
    Distrusts,      \* values there may be under Distrust\
    Clocks          \* times of composition; -1 is an unreadable clock

ASSUME ComposeAssumption ==
    /\ Fingerprints \subseteq Nat \* fingerprint order is the numbers' order
    /\ Der \in [Fingerprints -> Seq(Byte)] /\ Damaged \subseteq Fingerprints
    \* DER carries its length: no encoding is the beginning of another's.
    /\ \A f, g \in Fingerprints : IsPrefix(Der[f], Der[g]) => f = g
    /\ \A f \in Fingerprints : Der[f] # <<>>
    /\ \A n \in Names : n \in Seq(SUBSET [oid : Seq(Nat), tag : Nat, value : Seq(Nat)])
    /\ IsCA \subseteq Fingerprints /\ 0 \notin Fingerprints
    /\ NotAfter \in [Fingerprints -> Nat]
    /\ Floor \in Nat /\ MaxBlocks \in Nat
    /\ AdditionNames \subseteq Nat /\ IsFiniteSet(AdditionNames)
    /\ Distrusts \subseteq [fp : Fingerprints, spelling : STRING]
    /\ Clocks \subseteq Nat \cup {-1}

VARIABLES
    input,      \* the bundle's text, the registry and the clock
    stage,      \* read, compose, render, done
    shipped,    \* the blocks read from the text
    canonical,  \* the canonical subject of each CA, as parse found it
    result,     \* what compose returned
    file,       \* the rendered bundle
    hashed      \* the rendered directory: name to lines, a name is <<hash, n>>

vars == <<input, stage, shipped, canonical, result, file, hashed>>

\* An entry under Add\: the DER and the purposes as written.
Addition == [der : Fingerprints, purposes : PurposeLists]

\* A bundle's text is made of whole blocks and of what accidents leave: a
\* block without its end or its beginning, with a foreign character, with the
\* last byte lost, and a line of comment.
Whole == [kind : {"whole"}, cert : Fingerprints]
Accident == [kind : {"endless", "headless", "garbled", "short", "comment"}, cert : Damaged]
Comment == Text(<<Foreign>>)

Blocks == [f \in Fingerprints |-> ToPem(Der[f])]
FragmentLines(f) ==
    LET pem == Blocks[f.cert]
    IN  CASE f.kind = "whole" -> pem
          [] f.kind = "endless" -> Front(pem)
          [] f.kind = "headless" -> Tail(pem)
          [] f.kind = "garbled" -> <<Begin, Comment>> \o Tail(pem)
          [] f.kind = "short" -> ToPem(Front(Der[f.cert]))
          [] f.kind = "comment" -> <<Comment>>

Lines(text) == FlattenSeq([i \in DOMAIN text |-> FragmentLines(text[i])])

Texts(fragments) == UNION {[1..n -> fragments] : n \in 0..MaxBlocks}

\* Every registry with every undamaged bundle, every bundle with an empty
\* registry, and every choice of the CAs' subjects.
NoAddition == {[n \in {} |-> 0]}
OneName == [IsCA -> {CHOOSE n \in Names : TRUE}]
Registries ==
    [text : Texts(Whole),
     add : UNION {[S -> Addition] : S \in SUBSET AdditionNames},
     distrust : SUBSET Distrusts, now : Clocks, subject : OneName]
DamagedBundles ==
    [text : Texts(Whole \cup Accident), add : NoAddition,
     distrust : {{}}, now : {-1}, subject : OneName]
SubjectChoices ==
    [text : [1..Floor -> [kind : {"whole"}, cert : IsCA]], add : NoAddition,
     distrust : {{}}, now : {-1}, subject : [IsCA -> Names]]

-----------------------------------------------------------------------------
\* Mutant of ParseError: the moment of expiry is still valid.
ParseErrorLate(der, now) ==
    CASE der = 0 -> "Malformed"
      [] der # 0 /\ der \notin IsCA -> "NotACa"
      [] der \in IsCA /\ now >= 0 /\ NotAfter[der] < now -> "Expired"
      [] OTHER -> "none"

\* The certificate some bytes encode; 0 when they are none.
CertificateOf(bytes) ==
    IF \E f \in Fingerprints : Der[f] = bytes
    THEN CHOOSE f \in Fingerprints : Der[f] = bytes ELSE 0

\* cert::parse: the error, or none.
ParseError(der, now) ==
    CASE der = 0 -> "Malformed"
      [] der # 0 /\ der \notin IsCA -> "NotACa"
      [] der \in IsCA /\ now >= 0 /\ NotAfter[der] <= now -> "Expired"
      [] OTHER -> "none"

Normalise(distrust) == distrust.fp

\* The composition under way.
Empty == [roots |-> <<>>, seen |-> {}, warnings |-> {},
          shipped |-> 0, added |-> 0, skipped |-> 0]

Warn(out, kind, about) ==
    [out EXCEPT !.warnings = @ \cup {[kind |-> kind, about |-> about]}]

\* Mutant of Push: duplicates are kept.
PushAll(out, distrust, entry) ==
    LET o == [out EXCEPT !.seen = @ \cup {entry.fp}]
    IN  IF entry.fp \in distrust THEN Warn(o, "distrusted", entry.fp)
        ELSE [o EXCEPT !.roots = Append(@, entry)]

\* store::push.
Push(out, distrust, entry) ==
    LET o == [out EXCEPT !.seen = @ \cup {entry.fp}]
        present == \E i \in DOMAIN o.roots : o.roots[i].fp = entry.fp
    IN  CASE entry.fp \in distrust -> Warn(o, "distrusted", entry.fp)
          [] entry.fp \notin distrust /\ present ->
                IF entry.source = "Added" THEN Warn(o, "duplicate", entry.name) ELSE o
          [] OTHER -> [o EXCEPT !.roots = Append(@, entry)]

\* One block of the bundle: parsed without a clock, so never expired.
TakeShipped(out, distrust, der) ==
    IF ParseError(der, -1) # "none"
    THEN Warn([out EXCEPT !.skipped = @ + 1], "block", ParseError(der, -1))
    ELSE Push([out EXCEPT !.shipped = @ + 1], distrust,
              [fp |-> der, source |-> "Shipped", name |-> 0,
               purposes |-> {ServerAuth}])

\* One addition: no purposes means ServerAuth.
TakeAdded(out, distrust, name, addition, now) ==
    IF ParseError(addition.der, now) # "none"
    THEN Warn([out EXCEPT !.skipped = @ + 1], "addition", name)
    ELSE Push([out EXCEPT !.added = @ + 1], distrust,
              [fp |-> addition.der, source |-> "Added", name |-> name,
               purposes |-> IF addition.purposes = {} THEN {ServerAuth}
                                                      ELSE addition.purposes])

\* Mutant of WarnUnmatched: a distrust that names nothing is not reported.
WarnNothing(out, distrust) == out

\* Distrusts that matched nothing that was seen.
WarnUnmatched(out, distrust) ==
    [out EXCEPT !.warnings =
        @ \cup {[kind |-> "unmatched", about |-> f] : f \in distrust \ out.seen}]

\* A stable sort: the k-th entry is the one that k keys, its own included, come
\* no later than.
SortOrder(keys) ==
    LET rank(i) == Cardinality({j \in DOMAIN keys :
                       keys[j] < keys[i] \/ (keys[j] = keys[i] /\ j <= i)})
    IN  [k \in DOMAIN keys |-> CHOOSE i \in DOMAIN keys : rank(i) = k]

\* The additions as config::load sorts them, by name.
NameOrder(add) ==
    LET names == SetToSeq(DOMAIN add)
    IN  [k \in DOMAIN names |-> names[SortOrder(names)[k]]]

\* The roots as compose sorts them, by fingerprint.
SortRoots(roots) ==
    LET order == SortOrder([i \in DOMAIN roots |-> roots[i].fp])
    IN  [k \in DOMAIN roots |-> roots[order[k]]]

\* The pass over the shipped blocks, and the one over the additions.
\* (Recursive functions, so that they can be proved about.)
TakeBlocks(blocks, distrust) ==
    LET pass[i \in 0..Len(blocks)] ==
            IF i = 0 THEN Empty ELSE TakeShipped(pass[i - 1], distrust, blocks[i])
    IN  pass[Len(blocks)]

TakeAdditions(out, distrust, names, add, now) ==
    LET pass[i \in 0..Len(names)] ==
            IF i = 0 THEN out
            ELSE TakeAdded(pass[i - 1], distrust, names[i], add[names[i]], now)
    IN  pass[Len(names)]

\* store::compose, after from_pem.
Compose(in, blocks) ==
    LET distrust == {Normalise(d) : d \in in.distrust}
        first == TakeBlocks(blocks, distrust)
        both == TakeAdditions(first, distrust, NameOrder(in.add), in.add, in.now)
        out == WarnUnmatched(both, distrust)
        sorted == SortRoots(out.roots)
    IN  IF Len(blocks) < Floor THEN [ok |-> FALSE, out |-> Empty]
        ELSE [ok |-> sorted # <<>>, out |-> [out EXCEPT !.roots = sorted]]

\* Mutant of Folded: purposes are compared as written.
AsWritten(p) == p

\* store::for_purpose on the result: purposes are compared without case.
Folded(p) == IF p \in {"ServerAuth", "SERVERAUTH"} THEN ServerAuth ELSE p
PurposeRoots(roots, purpose) ==
    {roots[i].fp : i \in {j \in DOMAIN roots :
                            \E p \in roots[j].purposes : Folded(p) = purpose}}

-----------------------------------------------------------------------------
\* store::for_purpose, in order.
ServerAuthEntries(roots) ==
    Keep(roots, {e \in ToSet(roots) : \E p \in e.purposes : Folded(p) = ServerAuth})

\* render's bundle_for_roots: a header, then each root with the comments that
\* name it and an empty line.
BundleForRoots(entries) ==
    <<Comment, Text(<<>>)>>
    \o FlattenSeq([i \in DOMAIN entries |->
                     (IF entries[i].source = "Added" THEN <<Comment, Comment, Comment>>
                                                     ELSE <<Comment, Comment>>)
                     \o Blocks[entries[i].fp] \o <<Text(<<>>)>>])

\* Mutant of RenderBundle: every root is written.
RenderEveryRoot(roots) == BundleForRoots(roots)

\* render::bundle.
RenderBundle(roots) == BundleForRoots(ServerAuthEntries(roots))

\* cert::subject_hash.
SubjectHash(f) == Digest(canonical[f].der)

\* Mutant of Place: every file of a hash has the number 0.
PlaceOver(dir, e) ==
    LET name == <<SubjectHash(e.fp), 0>>
    IN  [k \in DOMAIN dir \cup {name} |-> IF k = name THEN Blocks[e.fp] ELSE dir[k]]

\* A file of its own for a root: a number separates the roots of one hash.
Place(dir, e) ==
    LET hash == SubjectHash(e.fp)
        name == <<hash, Cardinality({k \in DOMAIN dir : k[1] = hash})>>
    IN  [k \in DOMAIN dir \cup {name} |-> IF k = name THEN Blocks[e.fp] ELSE dir[k]]

\* render's hashed files, one root after another.
HashedFiles(entries) ==
    LET pass[i \in 0..Len(entries)] ==
            IF i = 0 THEN [k \in {} |-> <<>>] ELSE Place(pass[i - 1], entries[i])
    IN  pass[Len(entries)]
RenderHashed(roots) == HashedFiles(ServerAuthEntries(roots))

-----------------------------------------------------------------------------
Init ==
    /\ input \in Registries \/ input \in DamagedBundles \/ input \in SubjectChoices
    /\ stage = "read" /\ shipped = <<>> /\ canonical = <<>>
    /\ file = <<>> /\ hashed = <<>>
    /\ result = [ok |-> FALSE, out |-> Empty]

\* compose begins with from_pem.
ReadBundle ==
    /\ stage = "read" /\ stage' = "compose"
    /\ LET blocks == FromPem(Lines(input.text))
       IN  shipped' = [i \in DOMAIN blocks |-> CertificateOf(blocks[i])]
    /\ UNCHANGED <<input, canonical, result, file, hashed>>

ComposeStore ==
    /\ stage = "compose"
    /\ result' = Compose(input, shipped)
    /\ canonical' = [f \in IsCA |-> CanonicalName(NameDer(input.subject[f]))]
    /\ stage' = IF result'.ok THEN "render" ELSE "done"
    /\ UNCHANGED <<input, shipped, file, hashed>>

\* render writes ca-certificates.crt and the hashed files.
WriteFiles ==
    /\ stage = "render" /\ stage' = "done"
    /\ file' = RenderBundle(result.out.roots)
    /\ hashed' = RenderHashed(result.out.roots)
    /\ UNCHANGED <<input, shipped, canonical, result>>

\* Nothing is left to do.
Finished == stage = "done" /\ UNCHANGED vars

Next == ReadBundle \/ ComposeStore \/ WriteFiles \/ Finished

Spec == Init /\ [][Next]_vars

-----------------------------------------------------------------------------
(***************************************************************************)
(* The input as module TrustStore sees it.                                 *)
(***************************************************************************)
\* The ways to write the purpose among PurposeLists.
ServerAuthSpellings == {"ServerAuth", "SERVERAUTH"}

ShippedSet == ToSet(shipped) \cap IsCA

\* The purpose of the first addition, in name order, of each certificate.
AddedMap ==
    LET certs == {input.add[n].der : n \in DOMAIN input.add} \cap IsCA
        name(f) == CHOOSE n \in DOMAIN input.add :
                      /\ input.add[n].der = f
                      /\ \A m \in DOMAIN input.add : input.add[m].der = f => n <= m
        purposes(f) == input.add[name(f)].purposes
    IN  [f \in certs |->
            IF purposes(f) = {} \/ purposes(f) \cap ServerAuthSpellings # {}
            THEN ServerAuth ELSE "Other"]

ExpiredSet == {f \in Fingerprints : input.now >= 0 /\ NotAfter[f] <= input.now}

Reference ==
    Roots(ShippedSet, AddedMap, {d.fp : d \in input.distrust}, ExpiredSet)

Done == stage \in {"render", "done"}
Out == result.out

Abstract(e) ==
    [fp |-> e.fp, source |-> e.source,
     purpose |-> IF e.purposes \cap ServerAuthSpellings # {} THEN ServerAuth
                                                              ELSE "Other"]

\* compose computes the set TrustStore defines, whatever the order of the
\* bundle, however often a certificate is repeated in the bundle and among the
\* additions and however a distrust is spelled; it refuses exactly an
\* implausible bundle and an empty result.
ComposeIsReference ==
    Done =>
        /\ result.ok <=> Composes(Len(shipped), Floor, Reference)
        /\ result.ok => {Abstract(Out.roots[i]) : i \in DOMAIN Out.roots} = Reference

\* "One output ... in a deterministic order" (store.rs:6): one entry for each
\* fingerprint, in fingerprint order, so that equal sets compare equal in
\* refresh.
RootsAreOrdered ==
    Done => \A i, j \in DOMAIN Out.roots : i < j => Out.roots[i].fp < Out.roots[j].fp

\* Nothing leaves the store in silence: every certificate written to the
\* registry or shipped, and every distrust, is served, or a warning accounts
\* for it, or it repeats a shipped block.
NothingSilent ==
    Done /\ result.ok =>
        LET warned(k, a) == [kind |-> k, about |-> a] \in Out.warnings
            served == {Out.roots[i].fp : i \in DOMAIN Out.roots}
        IN  /\ \A n \in DOMAIN input.add :
                  \/ \E i \in DOMAIN Out.roots : Out.roots[i].name = n
                  \/ warned("addition", n) \/ warned("duplicate", n)
                  \/ warned("distrusted", input.add[n].der)
            /\ \A f \in ToSet(shipped) :
                  f \in served \/ warned("block", ParseError(f, -1)) \/ warned("distrusted", f)
            /\ \A d \in input.distrust :
                  warned("distrusted", d.fp) \/ warned("unmatched", d.fp)
            /\ Out.shipped + Out.added + Out.skipped =
                  Len(shipped) + Cardinality(DOMAIN input.add)

\* The compatibility files' roots are the ServerAuth roots of the reference.
FilesGetServerAuth ==
    Done /\ result.ok => PurposeRoots(Out.roots, ServerAuth) = FileRoots(Reference)

\* Damage to the shipped bundle costs the blocks it is in: every block that
\* stands whole is read as often as it stands there, whatever stands around
\* it, and no certificate is read that does not stand there from its beginning
\* to its last character.
WholeBlocksAreRead ==
    stage = "compose" =>
        LET read(f) == Cardinality({i \in DOMAIN shipped : shipped[i] = f})
            stands(f, kinds) ==
                Cardinality({i \in DOMAIN input.text :
                                input.text[i].cert = f /\ input.text[i].kind \in kinds})
        IN  \A f \in Fingerprints :
                /\ stands(f, {"whole"}) <= read(f)
                /\ read(f) <= stands(f, {"whole", "endless"})

\* The rendered bundle, read back as any consumer reads PEM, is the ServerAuth
\* roots in their order: its comments, its line breaks and its padding add and
\* lose nothing.
FileReadsBack ==
    stage = "done" /\ result.ok =>
        LET entries == ServerAuthEntries(Out.roots)
        IN  FromPem(file) = [i \in DOMAIN entries |-> Der[entries[i].fp]]

\* A lookup in the hashed directory finds every rendered root: a verifier that
\* takes the files of its subject's hash from number 0 on until one is missing
\* meets the root on the way and reads it as it was, even when other subjects
\* share the hash.
LookupFinds ==
    stage = "done" /\ result.ok =>
        \A f \in PurposeRoots(Out.roots, ServerAuth), g \in IsCA :
            canonical[g] = canonical[f] =>
                \E k \in {key[2] : key \in DOMAIN hashed} :
                    /\ \A j \in 0..k : <<SubjectHash(g), j>> \in DOMAIN hashed
                    /\ FromPem(hashed[<<SubjectHash(g), k>>]) = <<Der[f]>>

\* A verifier that spells a subject another way, in case, spaces, string type
\* or the order of attributes, has the same canonical encoding to hash; and no
\* two different subjects have one.
NamesAgree ==
    Done =>
        \A f, g \in IsCA :
            /\ canonical[f].ok
            /\ SameName(input.subject[g], input.subject[f]) <=> canonical[g] = canonical[f]
=============================================================================
