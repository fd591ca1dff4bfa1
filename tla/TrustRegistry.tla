--------------------------- MODULE TrustRegistry ---------------------------
(***************************************************************************)
(* Certificates\Add and Certificates\Distrust in the registry, between the *)
(* programs that write them (trust-client-core: add, remove, distrust and  *)
(* restore, each a sequence of registry calls) and the daemon's load,      *)
(* which reads them key by key.  The registry has no transactions: a call  *)
(* of one program may fall between any two calls of another.               *)
(*                                                                         *)
(* A key has an identity apart from its name, because a handle outlives a  *)
(* key that is deleted and made again.  What a call through the handle of  *)
(* a deleted key answers is not fixed by this code: it fails, or it        *)
(* behaves as on a key that is out of the tree.                            *)
(***************************************************************************)
EXTENDS Naturals, Sequences

CONSTANTS
    Writers,    \* programs that change the registry
    Names,      \* names of additions
    Ders,       \* certificates that pass vet
    Purposes,   \* purposes of an addition
    Prints,     \* whole fingerprints
    MaxOps      \* bound: operations begun, and so keys made

ASSUME RegistryAssumption ==
    /\ MaxOps \in Nat
    /\ {"none", "unusable"} \cap Ders = {} /\ "none" \notin Names
    /\ "junk" \notin Prints

VARIABLES
    entry,      \* the key under Add of each name; 0 when there is none
    keys,       \* each key's values, and by whom they were written
    distrust,   \* the value names under Distrust
    writer,     \* the operation each writer is in
    ops,        \* operations begun
    load,       \* the daemon's load, and what it has gathered
    touched     \* names and prints written since the load began

vars == <<entry, keys, distrust, writer, ops, load, touched>>

KeyIds == 1..MaxOps
NoValue == "none"
Intents == [certificate : Ders, purposes : SUBSET Purposes]

\* A value under Distrust: a fingerprint as distrust writes it, one spelled
\* another way by hand, or no fingerprint at all.
Values == [print : Prints, plain : BOOLEAN] \cup [print : {"junk"}, plain : {FALSE}]
Plain(p) == [print |-> p, plain |-> TRUE]

EmptyKey == [certificate |-> NoValue, purposes |-> {}, adds |-> {}, edited |-> "no"]
Idle == [op |-> "idle"]
NotLoading == [pc |-> "idle", todo |-> {}, name |-> NoValue, key |-> 0,
               der |-> NoValue, additions |-> {}, distrust |-> {}]

Init ==
    /\ entry = [n \in Names |-> 0]
    /\ keys = [k \in KeyIds |-> EmptyKey]
    /\ distrust = {}
    /\ writer = [w \in Writers |-> Idle]
    /\ ops = 0
    /\ load = NotLoading
    /\ touched = {}

-----------------------------------------------------------------------------
(***************************************************************************)
(* The writers.                                                            *)
(***************************************************************************)
Begin(w, operation) ==
    /\ writer[w] = Idle /\ ops < MaxOps
    /\ ops' = ops + 1
    /\ writer' = [writer EXCEPT ![w] = operation]
Goto(w, operation) == writer' = [writer EXCEPT ![w] = operation] /\ UNCHANGED ops
Touch(x) == touched' = touched \cup {x}


\* Mutant of Calls: the certificate goes first.
CallsCertificateFirst(i) ==
    IF i.purposes = {} THEN <<"certificate">> ELSE <<"certificate", "purposes">>

\* The values add sets: the certificate goes last.
Calls(i) ==
    IF i.purposes = {} THEN <<"certificate">> ELSE <<"purposes", "certificate">>

\* add: the entry's key is opened, or created.
AddOpen(w) ==
    \E n \in Names, i \in Intents :
        LET k == IF entry[n] = 0 THEN ops + 1 ELSE entry[n] IN
        /\ Begin(w, [op |-> "add", name |-> n, intent |-> i, key |-> k,
                     calls |-> Calls(i)])
        /\ entry' = [entry EXCEPT ![n] = k]
        /\ keys' = [keys EXCEPT ![k].adds = @ \cup {i}]
        /\ Touch(n)
        /\ UNCHANGED <<distrust, load>>

\* The add after the call it is at.
Called(a) == IF Len(a.calls) = 1 THEN Idle ELSE [a EXCEPT !.calls = Tail(@)]

\* add: a value is set, perhaps on a key that is out of the tree by now.
AddPurposes(w) ==
    /\ writer[w].op = "add" /\ Head(writer[w].calls) = "purposes"
    /\ Goto(w, Called(writer[w]))
    /\ keys' = [keys EXCEPT ![writer[w].key].purposes = writer[w].intent.purposes]
    /\ Touch(writer[w].name)
    /\ UNCHANGED <<entry, distrust, load>>

AddCertificate(w) ==
    /\ writer[w].op = "add" /\ Head(writer[w].calls) = "certificate"
    /\ Goto(w, Called(writer[w]))
    /\ keys' = [keys EXCEPT ![writer[w].key].certificate = writer[w].intent.certificate]
    /\ Touch(writer[w].name)
    /\ UNCHANGED <<entry, distrust, load>>

\* remove: the entry's key is opened, if there is one.
RemoveOpen(w) ==
    \E n \in Names :
        /\ Begin(w, IF entry[n] = 0 THEN Idle
                    ELSE [op |-> "remove", name |-> n, key |-> entry[n]])
        /\ UNCHANGED <<entry, keys, distrust, load, touched>>

\* remove: the key it opened is deleted, which may no longer be the entry's.
RemoveDelete(w) ==
    /\ writer[w].op = "remove"
    /\ LET r == writer[w] IN
       IF entry[r.name] = r.key
       THEN entry' = [entry EXCEPT ![r.name] = 0] /\ Touch(r.name)
       ELSE UNCHANGED <<entry, touched>>
    /\ Goto(w, Idle)
    /\ UNCHANGED <<keys, distrust, load>>

\* distrust: one value, named by the whole fingerprint.
Distrust(w) ==
    \E p \in Prints :
        /\ Begin(w, Idle)
        /\ distrust' = distrust \cup {Plain(p)}
        /\ Touch(p)
        /\ UNCHANGED <<entry, keys, load>>

\* restore: a prefix (the prints it begins) is matched with what is
\* distrusted; none or several is refused.  A whole fingerprint is taken as
\* it is.
RestoreResolve(w) ==
    /\ \/ \E prefix \in SUBSET (Prints \cup {"junk"}) :
             LET matches == {v.print : v \in distrust} \cap prefix IN
             \/ \E p \in matches : /\ matches = {p}
                                   /\ Begin(w, [op |-> "restore", print |-> p])
             \/ (\A p \in matches : matches # {p}) /\ Begin(w, Idle)
       \/ \E p \in Prints : Begin(w, [op |-> "restore", print |-> p])
    /\ UNCHANGED <<entry, keys, distrust, load, touched>>

\* restore: the value of that name is deleted, if it is there.
RestoreDelete(w) ==
    /\ writer[w].op = "restore"
    /\ distrust' = distrust \ {Plain(writer[w].print)}
    /\ Touch(writer[w].print)
    /\ Goto(w, Idle)
    /\ UNCHANGED <<entry, keys, load>>

\* A call fails, or the program dies: what it wrote stays.
Abandon(w) ==
    /\ writer[w] # Idle
    /\ Goto(w, Idle)
    /\ UNCHANGED <<entry, keys, distrust, load, touched>>

\* Somebody edits the registry by hand.
Edit ==
    /\ ops < MaxOps /\ ops' = ops + 1
    /\ \/ \E n \in Names :
             /\ entry[n] # 0
             /\ keys' = [keys EXCEPT ![entry[n]].certificate = "unusable",
                                     ![entry[n]].edited = "yes"]
             /\ Touch(n) /\ UNCHANGED distrust
       \/ \E v \in Values :
             /\ distrust' = distrust \cup {v}
             /\ Touch(v.print) /\ UNCHANGED keys
    /\ UNCHANGED <<entry, writer, load>>

-----------------------------------------------------------------------------
(***************************************************************************)
(* The daemon's load.                                                      *)
(***************************************************************************)
\* The names under Add are enumerated.
Enumerate ==
    /\ load.pc \in {"idle", "done"}
    /\ load' = [NotLoading EXCEPT !.pc = "names",
                                  !.todo = {n \in Names : entry[n] # 0}]
    /\ touched' = {}
    /\ UNCHANGED <<entry, keys, distrust, writer, ops>>

\* Mutant of OpenEntry: a key that is gone ends the enumeration.
OpenEntryStops ==
    /\ load.pc = "names"
    /\ \E n \in load.todo :
          load' = IF entry[n] = 0 THEN [load EXCEPT !.todo = {}]
                  ELSE [load EXCEPT !.pc = "certificate", !.todo = @ \ {n},
                                    !.name = n, !.key = entry[n]]
    /\ UNCHANGED <<entry, keys, distrust, writer, ops, touched>>

\* A name's key is opened; one that is gone fails the load.
OpenEntry ==
    /\ load.pc = "names"
    /\ \E n \in load.todo :
          load' = IF entry[n] = 0 THEN NotLoading
                  ELSE [load EXCEPT !.pc = "certificate", !.todo = @ \ {n},
                                    !.name = n, !.key = entry[n]]
    /\ UNCHANGED <<entry, keys, distrust, writer, ops, touched>>

\* Mutant of ReadCertificate: an entry without a certificate is not skipped.
ReadCertificateAny ==
    /\ load.pc = "certificate"
    /\ load' = [load EXCEPT !.pc = "purposes", !.der = keys[load.key].certificate]
    /\ UNCHANGED <<entry, keys, distrust, writer, ops, touched>>

\* Its certificate; an entry without a usable one is skipped, and so may be
\* one whose key is out of the tree by now.
ReadCertificate ==
    /\ load.pc = "certificate"
    /\ LET der == keys[load.key].certificate
           skipped == [load EXCEPT !.pc = "names"]
       IN  \/ load' = IF der \in Ders
                      THEN [load EXCEPT !.pc = "purposes", !.der = der]
                      ELSE skipped
           \/ entry[load.name] # load.key /\ load' = skipped
    /\ UNCHANGED <<entry, keys, distrust, writer, ops, touched>>

\* Its purposes, a second read; none on a key out of the tree, perhaps.
ReadPurposes ==
    /\ load.pc = "purposes"
    /\ \E purposes \in SUBSET Purposes :
          /\ \/ purposes = keys[load.key].purposes
             \/ entry[load.name] # load.key /\ purposes = {}
          /\ load' = [load EXCEPT !.pc = "names",
                        !.additions = @ \cup {[name |-> load.name, key |-> load.key,
                                               certificate |-> load.der,
                                               purposes |-> purposes]}]
    /\ UNCHANGED <<entry, keys, distrust, writer, ops, touched>>

\* The values under Distrust, in one call; what is no fingerprint is ignored.
ReadDistrust ==
    /\ load.pc = "names" /\ load.todo = {}
    /\ load' = [load EXCEPT !.pc = "done",
                            !.distrust = {v.print : v \in distrust} \cap Prints]
    /\ UNCHANGED <<entry, keys, distrust, writer, ops, touched>>

\* A read fails, and with it the load.
LoadFails ==
    /\ load.pc \notin {"idle", "done"}
    /\ load' = NotLoading
    /\ UNCHANGED <<entry, keys, distrust, writer, ops, touched>>

-----------------------------------------------------------------------------
Write(w) ==
    \/ AddOpen(w) \/ AddPurposes(w) \/ AddCertificate(w)
    \/ RemoveOpen(w) \/ RemoveDelete(w) \/ Distrust(w) \/ RestoreResolve(w) \/ RestoreDelete(w) \/ Abandon(w)

Load ==
    \/ Enumerate \/ OpenEntry \/ ReadCertificate \/ ReadPurposes
    \/ ReadDistrust \/ LoadFails

Next == (\E w \in Writers : Write(w)) \/ Edit \/ Load

Spec == Init /\ [][Next]_vars

-----------------------------------------------------------------------------
Operations ==
    {Idle}
    \cup [op : {"add"}, name : Names, intent : Intents, key : KeyIds,
          calls : {<<"purposes", "certificate">>, <<"certificate">>}]
    \cup [op : {"remove"}, name : Names, key : KeyIds]
    \cup [op : {"restore"}, print : Prints \cup {"junk"}]

Loads ==
    [pc : {"idle", "names", "certificate", "purposes", "done"},
     todo : SUBSET Names, name : Names \cup {NoValue},
     key : {0} \cup KeyIds, der : Ders \cup {NoValue},
     additions : SUBSET [name : Names, key : KeyIds, certificate : Ders,
                         purposes : SUBSET Purposes],
     distrust : SUBSET Prints]

\* The state is well formed: what a load has gathered is a certificate with
\* purposes, and a writer is between two calls of its operation.
TypeOK ==
    /\ entry \in [Names -> {0} \cup KeyIds]
    /\ keys \in [KeyIds -> [certificate : Ders \cup {NoValue, "unusable"},
                            purposes : SUBSET Purposes, adds : SUBSET Intents,
                            edited : {"no", "yes"}]]
    /\ distrust \subseteq Values
    /\ writer \in [Writers -> Operations]
    /\ ops \in 0..MaxOps
    /\ load \in Loads
    /\ load.pc \in {"certificate", "purposes"} => load.name \in Names /\ load.key \in KeyIds
    /\ load.pc = "purposes" => load.der \in Ders
    /\ touched \subseteq Names \cup Prints \cup {"junk"}

\* One add wrote the key, or several that meant the same, and nobody else.
Sole(k, i) == keys[k].adds = {i} /\ keys[k].edited = "no"

\* An entry that one add wrote, and nobody removed or edited, is loaded
\* absent or as that add meant it, wherever the load's two reads fall among
\* the add's calls and even if the add died between them: "until it exists
\* the entry is incomplete, and trustd skips incomplete entries rather than
\* acting on half of one" (trust-client-core/src/lib.rs, add).
EntriesAreWhole ==
    \A a \in load.additions :
        \A i \in Intents :
            entry[a.name] = a.key /\ Sole(a.key, i) =>
                a.certificate = i.certificate /\ a.purposes = i.purposes

\* What the registry holds of a name.
Held(n) ==
    {[certificate |-> keys[k].certificate, purposes |-> keys[k].purposes] :
        k \in {j \in KeyIds : entry[n] = j /\ keys[j].certificate \in Ders}}

\* A load that finished has what the registry held of every name and of
\* every fingerprint that nobody wrote since it began, no more and no less,
\* whatever was written of the others meanwhile: no concurrent change hides
\* a completed one (config.rs, load_from; a key that disappears fails the
\* load rather than shortening it).
LoadSeesSettled ==
    load.pc = "done" =>
        /\ \A n \in Names \ touched :
              {[certificate |-> a.certificate, purposes |-> a.purposes] :
                  a \in {b \in load.additions : b.name = n}} = Held(n)
        /\ \A p \in Prints \ touched :
              p \in load.distrust <=> \E v \in distrust : v.print = p
=============================================================================
