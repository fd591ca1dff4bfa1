------------------------ MODULE TrustRegistryProofs ------------------------
(***************************************************************************)
(* For every number of writers, names and operations: the daemon's load    *)
(* never takes an addition by halves and never misses one that is settled. *)
(***************************************************************************)
EXTENDS TrustRegistry, TLAPS

\* The registry, the writers and the load start empty.
LEMMA InitTyped == Init => TypeOK
<1>1. NotLoading \in Loads /\ NotLoading.pc = "idle"
  BY DEF NotLoading, Loads
<1> QED BY <1>1, RegistryAssumption
        DEF Init, TypeOK, EmptyKey, NoValue, Idle, Operations, Values

\* An operation that begins or goes on is one of Operations.
LEMMA WriterTyped ==
  ASSUME TypeOK, NEW w \in Writers, NEW o \in Operations,
         Begin(w, o) \/ Goto(w, o)
  PROVE  writer' \in [Writers -> Operations] /\ ops' \in 0..MaxOps
BY RegistryAssumption DEF TypeOK, Begin, Goto

\* The values an add sets, in their order.
LEMMA CallsTyped ==
  ASSUME NEW i \in Intents
  PROVE  /\ i.purposes = {} => Calls(i) = <<"certificate">>
         /\ i.purposes # {} => Calls(i) = <<"purposes", "certificate">>
BY DEF Calls, Intents

\* What is left of an add after each of its calls.
LEMMA CalledAdds ==
  ASSUME TypeOK, NEW w \in Writers, writer[w].op = "add"
  PROVE  /\ writer[w] \in [op : {"add"}, name : Names, intent : Intents, key : KeyIds,
                           calls : {<<"purposes", "certificate">>, <<"certificate">>}]
         /\ Head(writer[w].calls) = "purposes" =>
               /\ writer[w].calls = <<"purposes", "certificate">>
               /\ Called(writer[w]) = [writer[w] EXCEPT !.calls = <<"certificate">>]
         /\ Head(writer[w].calls) = "certificate" =>
               /\ writer[w].calls = <<"certificate">>
               /\ Called(writer[w]) = Idle
         /\ Called(writer[w]) \in Operations
<1>1. writer[w] \in [op : {"add"}, name : Names, intent : Intents, key : KeyIds,
                     calls : {<<"purposes", "certificate">>, <<"certificate">>}]
  BY DEF TypeOK, Operations, Idle
<1>2. CASE writer[w].calls = <<"purposes", "certificate">>
  BY <1>1, <1>2 DEF Called, Operations
<1>3. CASE writer[w].calls = <<"certificate">>
  BY <1>1, <1>3 DEF Called, Operations
<1> QED BY <1>1, <1>2, <1>3

\* Every call of a writer, every edit and every read keeps the types.
LEMMA StepTyped ==
  ASSUME TypeOK, [Next]_vars
  PROVE  TypeOK'
<1> USE RegistryAssumption
<1>1. ASSUME NEW w \in Writers, AddOpen(w) PROVE TypeOK'
  <2>1. PICK n \in Names, i \in Intents : AddOpen(w)!(n, i)
    BY <1>1 DEF AddOpen
  <2> DEFINE k == IF entry[n] = 0 THEN ops + 1 ELSE entry[n]
  <2>2. k \in KeyIds
    BY <2>1 DEF TypeOK, KeyIds, Begin
  <2>3. [op |-> "add", name |-> n, intent |-> i, key |-> k, calls |-> Calls(i)]
           \in Operations
    BY <2>2, CallsTyped DEF Operations
  <2>4. writer' \in [Writers -> Operations] /\ ops' \in 0..MaxOps
    BY <2>1, <2>3, WriterTyped
  <2>5. keys' = [keys EXCEPT ![k].adds = @ \cup {i}] /\ entry' = [entry EXCEPT ![n] = k]
    BY <2>1
  <2> HIDE DEF k
  <2> QED BY <2>1, <2>2, <2>4, <2>5 DEF TypeOK, Touch
<1>2. ASSUME NEW w \in Writers, AddPurposes(w) \/ AddCertificate(w) PROVE TypeOK'
  <2>1. writer[w].op = "add" /\ Goto(w, Called(writer[w]))
    BY <1>2 DEF AddPurposes, AddCertificate
  <2>2. writer' \in [Writers -> Operations] /\ ops' \in 0..MaxOps
    BY <2>1, CalledAdds, WriterTyped
  <2> QED BY <1>2, <2>1, <2>2, CalledAdds
          DEF TypeOK, AddPurposes, AddCertificate, Touch, Intents
<1>3. ASSUME NEW w \in Writers, RemoveOpen(w) PROVE TypeOK'
  BY <1>3, WriterTyped DEF TypeOK, RemoveOpen, Operations
<1>4. ASSUME NEW w \in Writers, RemoveDelete(w) PROVE TypeOK'
  <2>1. writer[w] \in [op : {"remove"}, name : Names, key : KeyIds]
    BY <1>4 DEF TypeOK, RemoveDelete, Operations, Idle
  <2>2. writer' \in [Writers -> Operations] /\ ops' \in 0..MaxOps
    BY <1>4, WriterTyped DEF RemoveDelete, Operations
  <2> QED BY <1>4, <2>1, <2>2 DEF TypeOK, RemoveDelete, Touch
<1>5. ASSUME NEW w \in Writers, Distrust(w) PROVE TypeOK'
  <2>1. PICK p \in Prints : Distrust(w)!(p)
    BY <1>5 DEF Distrust
  <2>2. writer' \in [Writers -> Operations] /\ ops' \in 0..MaxOps
    BY <2>1, WriterTyped DEF Operations
  <2>3. Plain(p) \in Values
    BY DEF Plain, Values
  <2> QED BY <2>1, <2>2, <2>3 DEF TypeOK, Touch
<1>6. ASSUME NEW w \in Writers, RestoreResolve(w) PROVE TypeOK'
  BY <1>6, WriterTyped DEF TypeOK, RestoreResolve, Operations
<1>7. ASSUME NEW w \in Writers, RestoreDelete(w) PROVE TypeOK'
  BY <1>7, WriterTyped DEF TypeOK, RestoreDelete, Touch, Operations, Idle
<1>8. ASSUME NEW w \in Writers, Abandon(w) PROVE TypeOK'
  BY <1>8, WriterTyped DEF TypeOK, Abandon, Operations
<1>9. ASSUME Edit PROVE TypeOK'
  <2>1. \A v \in Values : v.print \in Prints \cup {"junk"}
    BY DEF Values
  <2>2. ASSUME NEW n \in Names, entry[n] # 0,
               keys' = [keys EXCEPT ![entry[n]].certificate = "unusable",
                                    ![entry[n]].edited = "yes"]
        PROVE  keys' \in [KeyIds -> [certificate : Ders \cup {NoValue, "unusable"},
                                     purposes : SUBSET Purposes, adds : SUBSET Intents,
                                     edited : {"no", "yes"}]]
    BY <2>2 DEF TypeOK
  <2>3. /\ keys' \in [KeyIds -> [certificate : Ders \cup {NoValue, "unusable"},
                                  purposes : SUBSET Purposes, adds : SUBSET Intents,
                                  edited : {"no", "yes"}]]
        /\ distrust' \subseteq Values
    BY <1>9, <2>2 DEF TypeOK, Edit
  <2>4. ops' \in 0..MaxOps
    BY <1>9 DEF TypeOK, Edit
  <2>5. \E x \in Names \cup Prints \cup {"junk"} : touched' = touched \cup {x}
    BY <1>9, <2>1, Zenon DEF Edit, Touch
  <2>6. touched' \subseteq Names \cup Prints \cup {"junk"}
    BY <2>5 DEF TypeOK
  <2> QED BY <1>9, <2>3, <2>4, <2>6 DEF TypeOK, Edit
<1> DEFINE LoadTyped ==
              /\ load \in Loads
              /\ load.pc \in {"certificate", "purposes"} =>
                    load.name \in Names /\ load.key \in KeyIds
              /\ load.pc = "purposes" => load.der \in Ders
<1>10. ASSUME Load, LoadTyped' PROVE TypeOK'
  BY <1>10 DEF TypeOK, Load, Enumerate, OpenEntry, ReadCertificate, ReadPurposes,
               ReadDistrust, LoadFails
<1>11. ASSUME Enumerate \/ OpenEntry \/ LoadFails PROVE LoadTyped'
  <2>1. NotLoading \in Loads /\ NotLoading.pc = "idle"
    BY DEF NotLoading, Loads
  <2>2. CASE Enumerate
    BY <2>1, <2>2 DEF Enumerate, Loads
  <2>3. CASE OpenEntry
    <3>1. PICK n \in load.todo :
             load' = IF entry[n] = 0 THEN NotLoading
                     ELSE [load EXCEPT !.pc = "certificate", !.todo = @ \ {n},
                                       !.name = n, !.key = entry[n]]
      BY <2>3 DEF OpenEntry
    <3>2. n \in Names /\ entry[n] \in {0} \cup KeyIds
      BY DEF TypeOK, Loads
    <3> QED BY <2>1, <3>1, <3>2 DEF Loads, TypeOK
  <2> QED BY <1>11, <2>1, <2>2, <2>3 DEF LoadFails
<1>12. ASSUME ReadCertificate \/ ReadPurposes \/ ReadDistrust PROVE LoadTyped'
  <2>1. CASE ReadCertificate
    <3>1. \/ /\ keys[load.key].certificate \in Ders
             /\ load' = [load EXCEPT !.pc = "purposes", !.der = keys[load.key].certificate]
          \/ load' = [load EXCEPT !.pc = "names"]
      BY <2>1 DEF ReadCertificate
    <3>2. load.pc = "certificate"
      BY <2>1 DEF ReadCertificate
    <3>3. load \in Loads /\ load.name \in Names /\ load.key \in KeyIds
      BY <3>2 DEF TypeOK
    <3>4. CASE /\ keys[load.key].certificate \in Ders
               /\ load' = [load EXCEPT !.pc = "purposes", !.der = keys[load.key].certificate]
      <4> DEFINE der == keys[load.key].certificate
      <4>1. der \in Ders /\ load' = [load EXCEPT !.pc = "purposes", !.der = der]
        BY <3>4
      <4> HIDE DEF der
      <4>2. load' \in Loads
        BY <3>3, <4>1 DEF Loads
      <4>3. load'.name = load.name /\ load'.key = load.key /\ load'.der = der
        BY <3>3, <4>1 DEF Loads
      <4> QED BY <3>3, <4>1, <4>2, <4>3
    <3>5. CASE load' = [load EXCEPT !.pc = "names"]
      <4>1. load' \in Loads
        BY <3>3, <3>5 DEF Loads
      <4>2. load'.pc = "names"
        BY <3>3, <3>5 DEF Loads
      <4> QED BY <4>1, <4>2
    <3> QED BY <3>1, <3>4, <3>5
  <2>2. CASE ReadPurposes
    <3>1. PICK purposes \in SUBSET Purposes :
             load' = [load EXCEPT !.pc = "names",
                        !.additions = @ \cup {[name |-> load.name, key |-> load.key,
                                               certificate |-> load.der,
                                               purposes |-> purposes]}]
      BY <2>2 DEF ReadPurposes
    <3>2. load.name \in Names /\ load.key \in KeyIds /\ load.der \in Ders
      BY <2>2 DEF ReadPurposes, TypeOK
    <3> DEFINE a == [name |-> load.name, key |-> load.key, certificate |-> load.der,
                     purposes |-> purposes]
    <3>3. a \in [name : Names, key : KeyIds, certificate : Ders,
                 purposes : SUBSET Purposes]
      BY <3>2
    <3> HIDE DEF a
    <3>4. load' = [load EXCEPT !.pc = "names", !.additions = @ \cup {a}]
      BY <3>1 DEF a
    <3> QED BY <3>3, <3>4 DEF Loads, TypeOK
  <2>3. CASE ReadDistrust
    BY <2>3 DEF ReadDistrust, Loads, TypeOK
  <2> QED BY <1>12, <2>1, <2>2, <2>3
<1>13. CASE UNCHANGED vars
  BY <1>13 DEF TypeOK, vars
<1> QED
  BY <1>1, <1>2, <1>3, <1>4, <1>5, <1>6, <1>7, <1>8, <1>9, <1>10, <1>11, <1>12, <1>13
     DEF Next, Write, Load

\* The state of the writers and of the load is always well formed: a load
\* gathers certificates with purposes, whatever is written meanwhile.
THEOREM TypeCorrect == Spec => []TypeOK
<1>1. Init => TypeOK
  BY InitTyped
<1>2. TypeOK /\ [Next]_vars => TypeOK'
  BY StepTyped
<1> QED BY <1>1, <1>2, PTL DEF Spec

\* Keys are made in order and are not reused; a handle is to a key that was
\* made, and an add is known to the key it writes.
Handles ==
    /\ \A n \in Names : entry[n] # 0 => entry[n] <= ops /\ keys[entry[n]].adds # {}
    /\ \A k \in KeyIds : k > ops => keys[k] = EmptyKey
    /\ \A w \in Writers : writer[w].op = "add" =>
          writer[w].key <= ops /\ writer[w].intent \in keys[writer[w].key].adds
    /\ load.pc \in {"certificate", "purposes"} =>
          load.name \in Names /\ load.key \in KeyIds /\ load.key <= ops
    /\ \A a \in load.additions : a.key <= ops

\* A key that one add wrote has its purposes before it has a certificate.
CertificateLast ==
    \A k \in KeyIds, i \in Intents : Sole(k, i) =>
        /\ keys[k].certificate \in {NoValue, i.certificate}
        /\ keys[k].purposes \in {{}, i.purposes}
        /\ keys[k].certificate # NoValue => keys[k].purposes = i.purposes
        /\ \A w \in Writers :
              writer[w].op = "add" /\ writer[w].key = k
              /\ writer[w].calls = <<"certificate">> => keys[k].purposes = i.purposes

\* So has the load that read the certificate of such a key.
HalfRead ==
    load.pc = "purposes" =>
        \A i \in Intents : Sole(load.key, i) =>
            load.der = i.certificate /\ keys[load.key].purposes = i.purposes

WholeInv == TypeOK /\ Handles /\ CertificateLast /\ HalfRead /\ EntriesAreWhole

\* Nothing is written and nothing read at the start.
LEMMA InitWhole == Init => WholeInv
<1> SUFFICES ASSUME Init PROVE WholeInv
  OBVIOUS
<1>1. TypeOK
  BY InitTyped
<1>2. load = NotLoading /\ load.pc = "idle" /\ load.additions = {}
  BY DEF Init, NotLoading
<1>3. \A w \in Writers : writer[w].op # "add"
  BY DEF Init, Idle
<1>4. \A k \in KeyIds : keys[k] = EmptyKey /\ keys[k].adds = {}
  BY DEF Init, EmptyKey
<1>5. \A n \in Names : entry[n] = 0
  BY DEF Init
<1> QED BY <1>1, <1>2, <1>3, <1>4, <1>5
        DEF WholeInv, Handles, CertificateLast, HalfRead, EntriesAreWhole, Sole

\* Steps that write no value and read none, but may take a key out of the
\* tree or end an add.
LEMMA QuietWhole ==
  ASSUME WholeInv, TypeOK', UNCHANGED <<keys, load>>, ops' >= ops,
         \A n \in Names : entry'[n] = entry[n] \/ entry'[n] = 0,
         \A w \in Writers : writer'[w].op = "add" => writer'[w] = writer[w]
  PROVE  WholeInv'
<1> USE RegistryAssumption
<1>1. Handles'
  <2>1. ops \in Nat /\ ops' \in Nat
    BY DEF WholeInv, TypeOK
  <2>2. \A n \in Names : entry'[n] # 0 => entry'[n] <= ops' /\ keys'[entry'[n]].adds # {}
    BY <2>1 DEF WholeInv, Handles, TypeOK, KeyIds
  <2>3. \A k \in KeyIds : k > ops' => keys'[k] = EmptyKey
    BY <2>1 DEF WholeInv, Handles, KeyIds
  <2>4. \A w \in Writers : writer'[w].op = "add" =>
           writer'[w].key <= ops' /\ writer'[w].intent \in keys'[writer'[w].key].adds
    <3>1. \A w \in Writers : writer[w].op = "add" => writer[w].key \in KeyIds
      BY CalledAdds DEF WholeInv
    <3> QED BY <2>1, <3>1 DEF WholeInv, Handles, KeyIds
  <2>5. \A a \in load.additions : a.key \in KeyIds
    BY DEF WholeInv, TypeOK, Loads
  <2> QED BY <2>1, <2>2, <2>3, <2>4, <2>5 DEF WholeInv, Handles, KeyIds
<1>2. CertificateLast'
  BY DEF WholeInv, CertificateLast, Sole
<1>3. HalfRead'
  BY DEF WholeInv, HalfRead, Sole
<1>4. EntriesAreWhole'
  <2>1. \A a \in load.additions : a.name \in Names /\ a.key \in KeyIds
    BY DEF WholeInv, TypeOK, Loads
  <2> QED BY <2>1 DEF WholeInv, EntriesAreWhole, Sole, KeyIds
<1> QED BY <1>1, <1>2, <1>3, <1>4 DEF WholeInv

\* A new key is empty and no handle is to it; an old one that another add
\* opens has a second writer, unless the two mean the same.
LEMMA AddOpenWhole ==
  ASSUME WholeInv, TypeOK', NEW w \in Writers, AddOpen(w)
  PROVE  WholeInv'
<1> USE RegistryAssumption
<1>1. PICK n \in Names, i \in Intents : AddOpen(w)!(n, i)
  BY DEF AddOpen
<1> DEFINE k == IF entry[n] = 0 THEN ops + 1 ELSE entry[n]
<1>2. k \in KeyIds /\ k <= ops + 1 /\ ops \in Nat /\ ops' = ops + 1 /\ load' = load
  BY <1>1 DEF WholeInv, TypeOK, KeyIds, Begin, Handles
<1>3. entry' = [entry EXCEPT ![n] = k] /\ keys' = [keys EXCEPT ![k].adds = @ \cup {i}]
  BY <1>1
<1>4. writer' = [writer EXCEPT ![w] = [op |-> "add", name |-> n, intent |-> i,
                                      key |-> k, calls |-> Calls(i)]]
  BY <1>1 DEF Begin
<1>5. \/ k = ops + 1 /\ keys[k] = EmptyKey
      \/ k <= ops /\ entry[n] = k /\ keys[k].adds # {}
  BY <1>2 DEF WholeInv, TypeOK, Handles, KeyIds
<1> HIDE DEF k
<1>6. \A j \in KeyIds :
         /\ keys'[j].certificate = keys[j].certificate
         /\ keys'[j].purposes = keys[j].purposes
         /\ keys'[j].edited = keys[j].edited
         /\ j # k => keys'[j] = keys[j] /\ keys'[j].adds = keys[j].adds
  BY <1>2, <1>3 DEF WholeInv, TypeOK
<1>a. keys'[k].adds = keys[k].adds \cup {i}
  BY <1>2, <1>3 DEF WholeInv, TypeOK
<1>7. \A v \in Writers : v # w => writer'[v] = writer[v]
  BY <1>4 DEF WholeInv, TypeOK
<1>8. writer'[w] = [op |-> "add", name |-> n, intent |-> i, key |-> k, calls |-> Calls(i)]
  BY <1>4 DEF WholeInv, TypeOK
<1>9. entry'[n] = k /\ \A m \in Names : m # n => entry'[m] = entry[m]
  BY <1>3 DEF WholeInv, TypeOK
\* A key with a sole add had it before, or is the new one.
<1>10. ASSUME NEW j \in KeyIds, NEW h \in Intents, Sole(j, h)'
       PROVE  \/ Sole(j, h)
              \/ j = k /\ k = ops + 1 /\ h = i /\ keys[k] = EmptyKey
  BY <1>5, <1>6, <1>a, <1>10 DEF Sole
<1>11. Handles'
  <2>1. \A m \in Names : entry'[m] # 0 => entry'[m] <= ops' /\ keys'[entry'[m]].adds # {}
    <3>1. \A j \in KeyIds : keys[j].adds # {} => keys'[j].adds # {}
      BY <1>6, <1>a
    <3>2. ASSUME NEW m \in Names, m # n, entry[m] # 0
          PROVE  entry[m] <= ops' /\ keys'[entry[m]].adds # {}
      BY <1>2, <3>1, <3>2 DEF WholeInv, Handles, TypeOK, KeyIds
    <3>3. keys'[k].adds # {}
      BY <1>a
    <3> QED BY <1>2, <1>9, <3>2, <3>3
  <2>2. \A j \in KeyIds : j > ops' => keys'[j] = EmptyKey
    BY <1>2, <1>6 DEF WholeInv, Handles, KeyIds
  <2>3. \A v \in Writers : writer'[v].op = "add" =>
            writer'[v].key <= ops' /\ writer'[v].intent \in keys'[writer'[v].key].adds
    <3>1. \A v \in Writers : writer[v].op = "add" => writer[v].key \in KeyIds
      BY CalledAdds DEF WholeInv
    <3> QED BY <1>2, <1>6, <1>a, <1>7, <1>8, <3>1 DEF WholeInv, Handles, KeyIds
  <2>4. \A a \in load.additions : a.key \in KeyIds
    BY DEF WholeInv, TypeOK, Loads
  <2> QED BY <1>2, <2>1, <2>2, <2>3, <2>4 DEF WholeInv, Handles, KeyIds
<1>12. CertificateLast'
  <2> SUFFICES ASSUME NEW j \in KeyIds, NEW h \in Intents, Sole(j, h)'
               PROVE  /\ keys'[j].certificate \in {NoValue, h.certificate}
                      /\ keys'[j].purposes \in {{}, h.purposes}
                      /\ keys'[j].certificate # NoValue => keys'[j].purposes = h.purposes
                      /\ \A v \in Writers :
                            writer'[v].op = "add" /\ writer'[v].key = j
                            /\ writer'[v].calls = <<"certificate">> =>
                                keys'[j].purposes = h.purposes
    BY DEF CertificateLast
  <2>1. CASE Sole(j, h)
    <3>1. j = k => i = h
      BY <1>a DEF Sole
    <3>2. Calls(i) = <<"certificate">> => i.purposes = {}
      BY CallsTyped
    <3>3. /\ keys'[j].certificate \in {NoValue, h.certificate}
          /\ keys'[j].purposes \in {{}, h.purposes}
          /\ keys'[j].certificate # NoValue => keys'[j].purposes = h.purposes
      BY <1>6, <2>1 DEF WholeInv, CertificateLast
    <3>4. ASSUME NEW v \in Writers, v # w, writer'[v].op = "add", writer'[v].key = j,
                 writer'[v].calls = <<"certificate">>
          PROVE  keys'[j].purposes = h.purposes
      BY <1>6, <1>7, <2>1, <3>4 DEF WholeInv, CertificateLast
    <3>5. writer'[w].key = j /\ writer'[w].calls = <<"certificate">> =>
             keys'[j].purposes = h.purposes
      <4>1. writer'[w].key = k /\ writer'[w].calls = Calls(i)
        BY <1>8
      <4> QED BY <3>1, <3>2, <3>3, <4>1
    <3> QED BY <3>3, <3>4, <3>5
  <2>2. CASE j = k /\ k = ops + 1 /\ h = i /\ keys[k] = EmptyKey
    <3>1. keys'[j].certificate = NoValue /\ keys'[j].purposes = {}
      BY <1>6, <2>2 DEF EmptyKey
    <3>2. Calls(i) = <<"certificate">> => i.purposes = {}
      BY CallsTyped
    <3>3. \A v \in Writers : writer[v].op = "add" => writer[v].key # j
      BY <1>2, <2>2, CalledAdds DEF WholeInv, Handles, KeyIds
    <3>4. writer'[w].key = k /\ writer'[w].calls = Calls(i)
      BY <1>8
    <3>5. \A v \in Writers : writer'[v].op = "add" /\ writer'[v].key = j => v = w
      BY <1>7, <3>3
    <3> QED BY <2>2, <3>1, <3>2, <3>4, <3>5
  <2> QED BY <1>10, <2>1, <2>2
<1>13. HalfRead'
  BY <1>2, <1>6, <1>10 DEF WholeInv, HalfRead, Handles, KeyIds
<1>14. EntriesAreWhole'
  <2> SUFFICES ASSUME NEW a \in load.additions, NEW h \in Intents,
                      entry'[a.name] = a.key, Sole(a.key, h)'
               PROVE  a.certificate = h.certificate /\ a.purposes = h.purposes
    BY <1>2 DEF EntriesAreWhole
  <2>1. a.name \in Names /\ a.key \in KeyIds /\ a.key <= ops
    BY DEF WholeInv, TypeOK, Loads, Handles
  <2>2. entry[a.name] = a.key /\ Sole(a.key, h)
    BY <1>2, <1>5, <1>9, <1>10, <2>1 DEF KeyIds
  <2> QED BY <2>2 DEF WholeInv, EntriesAreWhole
<1> QED BY <1>11, <1>12, <1>13, <1>14 DEF WholeInv

\* A write to one key: if the key still has a sole add after it, the key has
\* that add's purposes, and its certificate or none.
LEMMA WriteWhole ==
  ASSUME WholeInv, TypeOK', NEW k \in KeyIds, k <= ops, ops' >= ops,
         UNCHANGED <<entry, load>>,
         \A j \in KeyIds : j # k => keys'[j] = keys[j],
         keys'[k].adds = keys[k].adds,
         \A h \in Intents : Sole(k, h)' =>
             /\ Sole(k, h)
             /\ keys'[k].purposes = h.purposes
             /\ keys'[k].certificate \in {NoValue, h.certificate},
         \A v \in Writers : writer'[v].op = "add" =>
             /\ writer[v].op = "add"
             /\ writer'[v].key = writer[v].key /\ writer'[v].intent = writer[v].intent
             /\ writer[v].key # k => writer'[v] = writer[v]
  PROVE  WholeInv'
<1> USE RegistryAssumption
<1>1. ops \in Nat /\ ops' \in Nat
  BY DEF WholeInv, TypeOK
<1>2. \A v \in Writers : writer[v].op = "add" => writer[v].key \in KeyIds
  BY CalledAdds DEF WholeInv
<1>3. \A a \in load.additions : a.key \in KeyIds
  BY DEF WholeInv, TypeOK, Loads
<1>4. \A j \in KeyIds : keys'[j].adds = keys[j].adds
  OBVIOUS
<1>5. \A j \in KeyIds, h \in Intents : Sole(j, h)' => Sole(j, h)
  BY DEF Sole
<1>6. Handles'
  <2>1. \A n \in Names : entry'[n] # 0 => entry'[n] <= ops' /\ keys'[entry'[n]].adds # {}
    BY <1>1, <1>4 DEF WholeInv, Handles, TypeOK, KeyIds
  <2>2. \A j \in KeyIds : j > ops' => keys'[j] = EmptyKey
    BY <1>1 DEF WholeInv, Handles, KeyIds
  <2>3. \A v \in Writers : writer'[v].op = "add" =>
           writer'[v].key <= ops' /\ writer'[v].intent \in keys'[writer'[v].key].adds
    BY <1>1, <1>2, <1>4 DEF WholeInv, Handles, KeyIds
  <2> QED BY <1>1, <1>3, <2>1, <2>2, <2>3 DEF WholeInv, Handles, KeyIds
<1>7. CertificateLast'
  <2> SUFFICES ASSUME NEW j \in KeyIds, NEW h \in Intents, Sole(j, h)'
               PROVE  /\ keys'[j].certificate \in {NoValue, h.certificate}
                      /\ keys'[j].purposes \in {{}, h.purposes}
                      /\ keys'[j].certificate # NoValue => keys'[j].purposes = h.purposes
                      /\ \A v \in Writers :
                            writer'[v].op = "add" /\ writer'[v].key = j
                            /\ writer'[v].calls = <<"certificate">> =>
                                keys'[j].purposes = h.purposes
    BY DEF CertificateLast
  <2>1. CASE j = k
    BY <2>1
  <2>2. CASE j # k
    <3>1. keys'[j] = keys[j] /\ Sole(j, h)
      BY <1>5, <2>2
    <3>2. \A v \in Writers : writer'[v].op = "add" /\ writer'[v].key = j =>
             writer'[v] = writer[v]
      BY <2>2
    <3> QED BY <3>1, <3>2 DEF WholeInv, CertificateLast
  <2> QED BY <2>1, <2>2
<1>8. HalfRead'
  <2> SUFFICES ASSUME load.pc = "purposes", NEW h \in Intents, Sole(load.key, h)'
               PROVE  load.der = h.certificate /\ keys'[load.key].purposes = h.purposes
    BY DEF HalfRead, Sole
  <2>1. load.key \in KeyIds
    BY DEF WholeInv, TypeOK
  <2> QED BY <1>5, <2>1 DEF WholeInv, HalfRead
<1>9. EntriesAreWhole'
  <2> SUFFICES ASSUME NEW a \in load.additions, NEW h \in Intents,
                      entry[a.name] = a.key, Sole(a.key, h)'
               PROVE  a.certificate = h.certificate /\ a.purposes = h.purposes
    BY DEF EntriesAreWhole, Sole
  <2> QED BY <1>3, <1>5 DEF WholeInv, EntriesAreWhole
<1> QED BY <1>6, <1>7, <1>8, <1>9 DEF WholeInv

\* The purposes, then the certificate, of the add's own key.
LEMMA AddSetWhole ==
  ASSUME WholeInv, TypeOK', NEW w \in Writers, AddPurposes(w) \/ AddCertificate(w)
  PROVE  WholeInv'
<1>1. writer[w].op = "add" /\ UNCHANGED <<entry, load, ops>>
  BY DEF AddPurposes, AddCertificate, Goto
<1>k. PICK k \in KeyIds, i \in Intents : k = writer[w].key /\ i = writer[w].intent
  BY <1>1, CalledAdds DEF WholeInv
<1>2. k <= ops /\ i \in keys[k].adds /\ ops \in Nat
  BY <1>1, <1>k DEF WholeInv, Handles, TypeOK
<1>3. writer' = [writer EXCEPT ![w] = Called(writer[w])]
  BY DEF AddPurposes, AddCertificate, Goto
<1>4. \A v \in Writers : v # w => writer'[v] = writer[v]
  BY <1>3 DEF WholeInv, TypeOK
<1>5. writer'[w] = Called(writer[w])
  BY <1>3 DEF WholeInv, TypeOK
<1>6. \A v \in Writers : writer'[v].op = "add" =>
         /\ writer[v].op = "add"
         /\ writer'[v].key = writer[v].key /\ writer'[v].intent = writer[v].intent
         /\ writer[v].key # k => writer'[v] = writer[v]
  <2>1. writer'[w].op = "add" =>
           writer'[w].key = writer[w].key /\ writer'[w].intent = writer[w].intent
    <3>1. \/ Called(writer[w]) = Idle
          \/ Called(writer[w]) = [writer[w] EXCEPT !.calls = <<"certificate">>]
      BY <1>1, CalledAdds DEF WholeInv, AddPurposes, AddCertificate
    <3>2. /\ [writer[w] EXCEPT !.calls = <<"certificate">>].key = writer[w].key
          /\ [writer[w] EXCEPT !.calls = <<"certificate">>].intent = writer[w].intent
      BY <1>1, CalledAdds DEF WholeInv
    <3>3. Idle.op # "add"
      BY DEF Idle
    <3> QED BY <1>5, <3>1, <3>2, <3>3
  <2> QED BY <1>1, <1>k, <1>4, <2>1
<1>7. /\ \A j \in KeyIds : j # k => keys'[j] = keys[j]
      /\ keys'[k].adds = keys[k].adds /\ keys'[k].edited = keys[k].edited
  BY <1>k DEF WholeInv, TypeOK, AddPurposes, AddCertificate
<1>8. ASSUME NEW h \in Intents, Sole(k, h)'
      PROVE  /\ Sole(k, h)
             /\ keys'[k].purposes = h.purposes
             /\ keys'[k].certificate \in {NoValue, h.certificate}
  <2>1. Sole(k, h) /\ h = i
    <3>1. keys[k].adds = {h} /\ keys[k].edited = "no"
      BY <1>7, <1>8 DEF Sole
    <3> QED BY <1>2, <3>1 DEF Sole
  <2>2. CASE AddPurposes(w)
    <3>1. keys'[k].purposes = i.purposes /\ keys'[k].certificate = keys[k].certificate
      BY <1>k, <2>2 DEF WholeInv, TypeOK, AddPurposes
    <3> QED BY <1>2, <2>1, <3>1 DEF WholeInv, CertificateLast
  <2>3. CASE AddCertificate(w)
    <3>1. keys'[k].certificate = i.certificate /\ keys'[k].purposes = keys[k].purposes
      BY <1>k, <2>3 DEF WholeInv, TypeOK, AddCertificate
    <3>2. writer[w].calls = <<"certificate">>
      BY <1>1, <2>3, CalledAdds DEF WholeInv, AddCertificate
    <3> QED BY <1>1, <1>k, <2>1, <3>1, <3>2 DEF WholeInv, CertificateLast
  <2> QED BY <2>1, <2>2, <2>3
<1>9. ops' >= ops
  BY <1>1, <1>2
<1> QED BY <1>1, <1>2, <1>6, <1>7, <1>8, <1>9, WriteWhole

\* An edit by hand takes a key out of what the property is about.
LEMMA EditWhole ==
  ASSUME WholeInv, TypeOK', Edit
  PROVE  WholeInv'
<1> USE RegistryAssumption
<1>1. UNCHANGED <<entry, writer, load>> /\ ops \in Nat /\ ops' = ops + 1
  BY DEF Edit, WholeInv, TypeOK
<1>2. CASE UNCHANGED keys
  BY <1>1, <1>2, QuietWhole
<1>3. ASSUME NEW n \in Names, entry[n] # 0,
             keys' = [keys EXCEPT ![entry[n]].certificate = "unusable",
                                  ![entry[n]].edited = "yes"]
      PROVE  WholeInv'
  <2>1. PICK k \in KeyIds : k = entry[n]
    BY <1>3 DEF WholeInv, TypeOK
  <2>2. k <= ops
    BY <1>3, <2>1 DEF WholeInv, Handles
  <2>3. /\ \A j \in KeyIds : j # k => keys'[j] = keys[j]
        /\ keys'[k].adds = keys[k].adds /\ keys'[k].edited = "yes"
    BY <1>3, <2>1 DEF WholeInv, TypeOK
  <2>4. \A h \in Intents : ~Sole(k, h)'
    BY <2>3 DEF Sole
  <2>5. ops' >= ops
    BY <1>1
  <2> QED BY <1>1, <2>2, <2>3, <2>4, <2>5, WriteWhole
<1> QED BY <1>2, <1>3 DEF Edit

\* The load's own steps: a certificate that was read is a sole add's, and then
\* the purposes are too.
LEMMA LoadWhole ==
  ASSUME WholeInv, TypeOK', Load
  PROVE  WholeInv'
<1> USE RegistryAssumption
<1>1. UNCHANGED <<entry, keys, writer, ops>>
  BY DEF Load, Enumerate, OpenEntry, ReadCertificate, ReadPurposes, ReadDistrust, LoadFails
<1>2. CertificateLast'
  BY <1>1 DEF WholeInv, CertificateLast, Sole
<1>3. ASSUME /\ load'.pc \in {"certificate", "purposes"} =>
                   load'.name \in Names /\ load'.key \in KeyIds /\ load'.key <= ops
             /\ \A a \in load'.additions : a.key <= ops
      PROVE  Handles'
  BY <1>1, <1>3 DEF WholeInv, Handles
<1>4. ASSUME load'.additions \subseteq load.additions
      PROVE  EntriesAreWhole' /\ \A a \in load'.additions : a.key <= ops
  BY <1>1, <1>4 DEF WholeInv, EntriesAreWhole, Sole, Handles
<1>5. ASSUME load' = NotLoading PROVE WholeInv'
  <2>1. load'.pc = "idle" /\ load'.additions = {}
    BY <1>5 DEF NotLoading
  <2> QED BY <1>2, <1>3, <1>4, <2>1 DEF WholeInv, HalfRead
<1>6. CASE Enumerate
  <2>1. load'.pc = "names" /\ load'.additions = {}
    BY <1>6 DEF Enumerate, NotLoading
  <2> QED BY <1>2, <1>3, <1>4, <2>1 DEF WholeInv, HalfRead
<1>7. CASE OpenEntry
  <2>1. PICK n \in load.todo :
           load' = IF entry[n] = 0 THEN NotLoading
                   ELSE [load EXCEPT !.pc = "certificate", !.todo = @ \ {n},
                                     !.name = n, !.key = entry[n]]
    BY <1>7 DEF OpenEntry
  <2>2. n \in Names
    BY DEF WholeInv, TypeOK, Loads
  <2>3. CASE entry[n] # 0
    <3>1. /\ load'.pc = "certificate" /\ load'.name = n /\ load'.key = entry[n]
          /\ load'.additions = load.additions
      BY <2>1, <2>3 DEF WholeInv, TypeOK, Loads
    <3>2. entry[n] \in KeyIds /\ entry[n] <= ops
      BY <2>2, <2>3 DEF WholeInv, TypeOK, Handles
    <3> QED BY <1>2, <1>3, <1>4, <2>2, <3>1, <3>2 DEF WholeInv, HalfRead
  <2> QED BY <1>5, <2>1, <2>3
<1>8. CASE ReadCertificate
  <2>1. /\ load'.additions = load.additions
        /\ load'.name = load.name /\ load'.key = load.key
        /\ load'.pc \in {"names", "purposes"}
        /\ load'.pc = "purposes" =>
              load'.der = keys[load.key].certificate /\ load'.der \in Ders
    <3> DEFINE der == keys[load.key].certificate
    <3>1. \/ der \in Ders /\ load' = [load EXCEPT !.pc = "purposes", !.der = der]
          \/ load' = [load EXCEPT !.pc = "names"]
      BY <1>8 DEF ReadCertificate
    <3>2. load \in Loads
      BY DEF WholeInv, TypeOK
    <3> HIDE DEF der
    <3>3. CASE der \in Ders /\ load' = [load EXCEPT !.pc = "purposes", !.der = der]
      <4>1. /\ load'.additions = load.additions /\ load'.name = load.name
            /\ load'.key = load.key /\ load'.pc = "purposes" /\ load'.der = der
        BY <3>2, <3>3 DEF Loads
      <4> QED BY <3>3, <4>1 DEF der
    <3>4. CASE load' = [load EXCEPT !.pc = "names"]
      <4>1. /\ load'.additions = load.additions /\ load'.name = load.name
            /\ load'.key = load.key /\ load'.pc = "names"
        BY <3>2, <3>4 DEF Loads
      <4> QED BY <4>1
    <3> QED BY <3>1, <3>3, <3>4
  <2>2. load.name \in Names /\ load.key \in KeyIds /\ load.key <= ops
    BY <1>8 DEF ReadCertificate, WholeInv, Handles
  <2>3. HalfRead'
    <3> SUFFICES ASSUME load'.pc = "purposes", NEW h \in Intents, Sole(load.key, h)
                 PROVE  load'.der = h.certificate /\ keys[load.key].purposes = h.purposes
      BY <1>1, <2>1 DEF HalfRead, Sole
    <3>1. keys[load.key].certificate # NoValue
      BY <2>1 DEF NoValue
    <3> QED BY <2>1, <2>2, <3>1 DEF WholeInv, CertificateLast
  <2> QED BY <1>2, <1>3, <1>4, <2>1, <2>2, <2>3 DEF WholeInv
<1>9. CASE ReadPurposes
  <2>1. PICK purposes \in SUBSET Purposes :
           /\ \/ purposes = keys[load.key].purposes
              \/ entry[load.name] # load.key /\ purposes = {}
           /\ load' = [load EXCEPT !.pc = "names",
                         !.additions = @ \cup {[name |-> load.name, key |-> load.key,
                                                certificate |-> load.der,
                                                purposes |-> purposes]}]
    BY <1>9 DEF ReadPurposes
  <2>2. load.pc = "purposes" /\ load.key \in KeyIds /\ load.key <= ops
    BY <1>9 DEF ReadPurposes, WholeInv, Handles
  <2>3. PICK a : a = [name |-> load.name, key |-> load.key, certificate |-> load.der,
                      purposes |-> purposes]
    OBVIOUS
  <2>4. load'.pc = "names" /\ load'.additions = load.additions \cup {a}
    BY <2>1, <2>3 DEF WholeInv, TypeOK, Loads
  <2>5. \A h \in Intents : entry[a.name] = a.key /\ Sole(a.key, h) =>
           a.certificate = h.certificate /\ a.purposes = h.purposes
    BY <2>1, <2>2, <2>3 DEF WholeInv, HalfRead
  <2>6. EntriesAreWhole'
    BY <1>1, <2>4, <2>5 DEF WholeInv, EntriesAreWhole, Sole
  <2>7. \A b \in load'.additions : b.key <= ops
    BY <2>2, <2>3, <2>4 DEF WholeInv, Handles
  <2> QED BY <1>2, <1>3, <2>4, <2>6, <2>7 DEF WholeInv, HalfRead
<1>10. CASE ReadDistrust
  <2>1. load'.pc = "done" /\ load'.additions = load.additions
    BY <1>10 DEF ReadDistrust, WholeInv, TypeOK, Loads
  <2> QED BY <1>2, <1>3, <1>4, <2>1 DEF WholeInv, HalfRead
<1> QED BY <1>5, <1>6, <1>7, <1>8, <1>9, <1>10 DEF Load, LoadFails

\* Every step of a writer, of a hand or of the load keeps entries whole.
LEMMA StepWhole ==
  ASSUME WholeInv, [Next]_vars
  PROVE  WholeInv'
<1>1. TypeOK'
  BY StepTyped DEF WholeInv
<1>2. ASSUME NEW w \in Writers, NEW o, o.op # "add", Begin(w, o) \/ Goto(w, o)
      PROVE  /\ ops' >= ops
             /\ \A v \in Writers : writer'[v].op = "add" => writer'[v] = writer[v]
  BY <1>2 DEF Begin, Goto, WholeInv, TypeOK
<1>3. Idle.op # "add"
  BY DEF Idle
<1>4. ASSUME NEW w \in Writers, RemoveOpen(w) PROVE WholeInv'
  <2>1. PICK n \in Names :
           Begin(w, IF entry[n] = 0 THEN Idle
                    ELSE [op |-> "remove", name |-> n, key |-> entry[n]])
    BY <1>4 DEF RemoveOpen
  <2>2. \E o : o.op # "add" /\ Begin(w, o)
    <3>1. CASE entry[n] = 0
      BY <1>3, <2>1, <3>1
    <3>2. CASE entry[n] # 0
      <4>1. Begin(w, [op |-> "remove", name |-> n, key |-> entry[n]])
        BY <2>1, <3>2
      <4> QED BY <4>1
    <3> QED BY <3>1, <3>2
  <2>3. UNCHANGED <<entry, keys, load>>
    BY <1>4 DEF RemoveOpen
  <2> QED BY <1>1, <1>2, <2>1, <2>2, <2>3, QuietWhole
<1>5. ASSUME NEW w \in Writers, RemoveDelete(w) PROVE WholeInv'
  <2>1. Goto(w, Idle) /\ UNCHANGED <<keys, load>>
    BY <1>5 DEF RemoveDelete
  <2>2. \A n \in Names : entry'[n] = entry[n] \/ entry'[n] = 0
    BY <1>5 DEF RemoveDelete, WholeInv, TypeOK
  <2> QED BY <1>1, <1>2, <1>3, <2>1, <2>2, QuietWhole
<1>6. ASSUME NEW w \in Writers, Distrust(w) \/ RestoreDelete(w) \/ Abandon(w)
      PROVE  WholeInv'
  <2>1. (Begin(w, Idle) \/ Goto(w, Idle)) /\ UNCHANGED <<entry, keys, load>>
    BY <1>6 DEF Distrust, RestoreDelete, Abandon
  <2> QED BY <1>1, <1>2, <1>3, <2>1, QuietWhole
<1>7. ASSUME NEW w \in Writers, RestoreResolve(w) PROVE WholeInv'
  <2>1. UNCHANGED <<entry, keys, load>>
    BY <1>7 DEF RestoreResolve
  <2>2. \A p : [op |-> "restore", print |-> p].op # "add"
    OBVIOUS
  <2>3. \E o : o.op # "add" /\ Begin(w, o)
    BY <1>3, <1>7, <2>2, Zenon DEF RestoreResolve
  <2> QED BY <1>1, <1>2, <2>1, <2>3, QuietWhole
<1>8. CASE UNCHANGED vars
  BY <1>8 DEF vars, WholeInv, TypeOK, Handles, CertificateLast, HalfRead,
              EntriesAreWhole, Sole
<1> QED
  BY <1>1, <1>4, <1>5, <1>6, <1>7, <1>8, AddOpenWhole, AddSetWhole, EditWhole, LoadWhole
     DEF Next, Write

\* Keys, handles and entries fit together in every reachable state.
THEOREM WholeInvariant == Spec => []WholeInv
<1>1. WholeInv /\ [Next]_vars => WholeInv'
  BY StepWhole
<1> QED BY <1>1, InitWhole, PTL DEF Spec

\* No load of the daemon ever holds an addition by halves: an entry that one add
\* wrote is loaded as it was meant or not at all, for any number of writers,
\* names and operations, wherever calls and reads fall and whoever dies.
THEOREM AdditionsAreWhole == Spec => []EntriesAreWhole
<1>1. WholeInv => EntriesAreWhole
  BY DEF WholeInv
<1> QED BY <1>1, WholeInvariant, PTL

-----------------------------------------------------------------------------
(***************************************************************************)
(* A load and the names nobody writes meanwhile.                           *)
(***************************************************************************)

\* A key is under one name, and who writes it knows the name.
Owned ==
    /\ \A n, m \in Names : entry[n] = entry[m] /\ entry[n] # 0 => n = m
    /\ \A w \in Writers, n \in Names :
          writer[w].op = "add" /\ entry[n] = writer[w].key => writer[w].name = n

\* What the load has gathered of a name, and whether it is reading it.
Got(n) ==
    {[certificate |-> a.certificate, purposes |-> a.purposes] :
        a \in {b \in load.additions : b.name = n}}
AtHand(n) == load.pc \in {"certificate", "purposes"} /\ load.name = n

\* A name that nobody wrote since the load began is still to be read, or at
\* hand under the key it has, or gathered as the registry holds it.
Progress ==
    load.pc # "idle" =>
        \A n \in Names \ touched :
            /\ n \in load.todo => entry[n] # 0
            /\ n \in load.todo \/ AtHand(n) => Got(n) = {}
            /\ AtHand(n) => n \notin load.todo /\ entry[n] = load.key
            /\ AtHand(n) /\ load.pc = "purposes" =>
                  load.der = keys[load.key].certificate
            /\ n \notin load.todo /\ ~AtHand(n) => Got(n) = Held(n)

DistrustRead ==
    load.pc = "done" =>
        /\ load.todo = {}
        /\ \A p \in Prints \ touched :
              p \in load.distrust <=> \E v \in distrust : v.print = p

SettledInv == Owned /\ Progress /\ DistrustRead

\* Before the first load nothing is said of it.
LEMMA InitSettled == Init => SettledInv
BY DEF Init, SettledInv, Owned, Progress, DistrustRead, NotLoading, Idle

\* What the registry holds of a name is its key's values.
LEMMA HeldIs ==
  ASSUME TypeOK, NEW n \in Names
  PROVE  /\ entry[n] = 0 => Held(n) = {}
         /\ entry[n] # 0 /\ keys[entry[n]].certificate \notin Ders => Held(n) = {}
         /\ entry[n] # 0 /\ keys[entry[n]].certificate \in Ders =>
               Held(n) = {[certificate |-> keys[entry[n]].certificate,
                           purposes |-> keys[entry[n]].purposes]}
<1>1. entry[n] \in {0} \cup KeyIds /\ 0 \notin KeyIds
  BY RegistryAssumption DEF TypeOK, KeyIds
<1>2. {j \in KeyIds : entry[n] = j /\ keys[j].certificate \in Ders} =
        IF entry[n] # 0 /\ keys[entry[n]].certificate \in Ders THEN {entry[n]} ELSE {}
  BY <1>1
<1> QED BY <1>2 DEF Held

\* A write is seen only under names and prints that it touches.
LEMMA WriteSettled ==
  ASSUME TypeOK, TypeOK', Progress, DistrustRead, load' = load,
         touched \subseteq touched',
         \A n \in Names \ touched' :
            /\ entry'[n] = entry[n]
            /\ entry[n] # 0 =>
                  /\ keys'[entry[n]].certificate = keys[entry[n]].certificate
                  /\ keys'[entry[n]].purposes = keys[entry[n]].purposes,
         \A p \in Prints \ touched' :
            (\E v \in distrust' : v.print = p) <=> (\E v \in distrust : v.print = p)
  PROVE  Progress' /\ DistrustRead'
<1>1. ASSUME NEW n \in Names \ touched'
      PROVE  Held(n)' = Held(n)
  <2>1. entry'[n] \in {0} \cup KeyIds /\ 0 \notin KeyIds
    BY RegistryAssumption DEF TypeOK, KeyIds
  <2>2. {j \in KeyIds : entry'[n] = j /\ keys'[j].certificate \in Ders} =
          {j \in KeyIds : entry[n] = j /\ keys[j].certificate \in Ders}
    BY <2>1
  <2>3. \A k \in {j \in KeyIds : entry[n] = j /\ keys[j].certificate \in Ders} :
           keys'[k].certificate = keys[k].certificate /\ keys'[k].purposes = keys[k].purposes
    BY <2>1
  <2> QED BY <2>2, <2>3 DEF Held
<1>2. \A n \in Names : Got(n)' = Got(n) /\ (AtHand(n)' <=> AtHand(n))
  BY DEF Got, AtHand
<1>3. Progress'
  <2> SUFFICES ASSUME load.pc # "idle", NEW n \in Names \ touched'
               PROVE  /\ n \in load.todo => entry'[n] # 0
                      /\ n \in load.todo \/ AtHand(n)' => Got(n)' = {}
                      /\ AtHand(n)' => n \notin load.todo /\ entry'[n] = load.key
                      /\ AtHand(n)' /\ load.pc = "purposes" =>
                            load.der = keys'[load.key].certificate
                      /\ n \notin load.todo /\ ~AtHand(n)' => Got(n)' = Held(n)'
    BY DEF Progress
  <2>1. Got(n)' = Got(n) /\ (AtHand(n)' <=> AtHand(n)) /\ Held(n)' = Held(n)
    BY <1>1, <1>2
  <2>2. AtHand(n) => load.key \in KeyIds /\ 0 \notin KeyIds
    BY RegistryAssumption DEF TypeOK, AtHand, KeyIds
  <2>3. n \in Names \ touched
    OBVIOUS
  <2> QED BY <2>1, <2>2, <2>3 DEF Progress
<1>4. DistrustRead'
  BY DEF DistrustRead
<1> QED BY <1>3, <1>4

\* The key that an add opens is the name's own, or new.
LEMMA AddOpenSettled ==
  ASSUME WholeInv, TypeOK', SettledInv, NEW w \in Writers, AddOpen(w)
  PROVE  SettledInv'
<1> USE RegistryAssumption
<1>1. PICK n \in Names, i \in Intents : AddOpen(w)!(n, i)
  BY DEF AddOpen
<1> DEFINE k == IF entry[n] = 0 THEN ops + 1 ELSE entry[n]
<1>2. k \in KeyIds /\ ops \in Nat /\ load' = load /\ UNCHANGED distrust
  BY <1>1 DEF WholeInv, TypeOK, KeyIds, Begin
<1>3. entry' = [entry EXCEPT ![n] = k] /\ keys' = [keys EXCEPT ![k].adds = @ \cup {i}]
  BY <1>1
<1>4. writer' = [writer EXCEPT ![w] = [op |-> "add", name |-> n, intent |-> i,
                                      key |-> k, calls |-> Calls(i)]]
  BY <1>1 DEF Begin
<1>5. /\ \A m \in Names : entry[m] = k => m = n
      /\ \A v \in Writers : writer[v].op = "add" /\ writer[v].key = k => writer[v].name = n
  BY <1>2 DEF WholeInv, TypeOK, Handles, KeyIds, SettledInv, Owned
<1>6. touched' = touched \cup {n}
  BY <1>1 DEF Touch
<1> HIDE DEF k
<1>7. entry'[n] = k /\ \A m \in Names : m # n => entry'[m] = entry[m]
  BY <1>3 DEF WholeInv, TypeOK
<1>8. /\ writer'[w].key = k /\ writer'[w].name = n
      /\ \A v \in Writers : v # w => writer'[v] = writer[v]
  BY <1>4 DEF WholeInv, TypeOK
<1>9. Owned'
  <2>1. \A m, l \in Names : entry'[m] = entry'[l] /\ entry'[m] # 0 => m = l
    BY <1>5, <1>7 DEF SettledInv, Owned
  <2>2. ASSUME NEW v \in Writers, NEW m \in Names, writer'[v].op = "add",
               entry'[m] = writer'[v].key
        PROVE  writer'[v].name = m
    <3>1. CASE v = w
      BY <1>5, <1>7, <1>8, <2>2, <3>1
    <3>2. CASE v # w /\ m = n
      BY <1>5, <1>7, <1>8, <2>2, <3>2
    <3>3. CASE v # w /\ m # n
      BY <1>7, <1>8, <2>2, <3>3 DEF SettledInv, Owned
    <3> QED BY <3>1, <3>2, <3>3
  <2> QED BY <2>1, <2>2 DEF Owned
<1>10. \A j \in KeyIds : /\ keys'[j].certificate = keys[j].certificate
                         /\ keys'[j].purposes = keys[j].purposes
  BY <1>2, <1>3 DEF WholeInv, TypeOK
<1>11. \A m \in Names : entry[m] # 0 => entry[m] \in KeyIds
  BY DEF WholeInv, TypeOK
<1>12. \A m \in Names \ touched' : entry'[m] = entry[m]
  BY <1>6, <1>7
<1>13. Progress' /\ DistrustRead'
  BY <1>2, <1>6, <1>10, <1>11, <1>12, WriteSettled DEF WholeInv, SettledInv
<1> QED BY <1>9, <1>13 DEF SettledInv

\* A value is set under the name of the add, and under no other.
LEMMA AddSetSettled ==
  ASSUME WholeInv, TypeOK', SettledInv, NEW w \in Writers,
         AddPurposes(w) \/ AddCertificate(w)
  PROVE  SettledInv'
<1>1. /\ writer[w].op = "add" /\ UNCHANGED <<entry, load, distrust>>
      /\ writer' = [writer EXCEPT ![w] = Called(writer[w])]
      /\ touched' = touched \cup {writer[w].name}
  BY DEF AddPurposes, AddCertificate, Goto, Touch
<1>2. PICK k \in KeyIds : k = writer[w].key
  BY <1>1, CalledAdds DEF WholeInv
<1>3. \/ keys' = [keys EXCEPT ![k].purposes = writer[w].intent.purposes]
      \/ keys' = [keys EXCEPT ![k].certificate = writer[w].intent.certificate]
  BY <1>2 DEF AddPurposes, AddCertificate
<1>4. \A j \in KeyIds : j # k => keys'[j] = keys[j]
  BY <1>3 DEF WholeInv, TypeOK
<1>5. \A m \in Names \ touched' : entry[m] # 0 => entry[m] \in KeyIds /\ entry[m] # k
  BY <1>1, <1>2 DEF WholeInv, TypeOK, SettledInv, Owned
<1>6. Owned'
  <2>1. Called(writer[w]).op = "add" =>
          Called(writer[w]).key = writer[w].key /\ Called(writer[w]).name = writer[w].name
    BY <1>1, CalledAdds DEF WholeInv, Called, Idle
  <2>2. writer'[w] = Called(writer[w]) /\ \A v \in Writers : v # w => writer'[v] = writer[v]
    BY <1>1 DEF WholeInv, TypeOK
  <2> QED BY <1>1, <2>1, <2>2 DEF SettledInv, Owned
<1>7. Progress' /\ DistrustRead'
  BY <1>1, <1>4, <1>5, WriteSettled DEF WholeInv, SettledInv
<1> QED BY <1>6, <1>7 DEF SettledInv

\* Keys leave the tree, distrusts come and go, operations begin and end.
LEMMA OtherSettled ==
  ASSUME WholeInv, TypeOK', SettledInv, NEW w \in Writers,
         \/ RemoveOpen(w) \/ RemoveDelete(w) \/ Distrust(w) \/ RestoreResolve(w)
         \/ RestoreDelete(w) \/ Abandon(w)
  PROVE  SettledInv'
<1>1. UNCHANGED <<keys, load>>
  BY DEF RemoveOpen, RemoveDelete, Distrust, RestoreResolve, RestoreDelete, Abandon
<1>2. \A v \in Writers : writer'[v].op = "add" => writer'[v] = writer[v]
  <2>1. ASSUME NEW o, o.op # "add", Begin(w, o) \/ Goto(w, o)
        PROVE  \A v \in Writers : writer'[v].op = "add" => writer'[v] = writer[v]
    BY <2>1 DEF Begin, Goto, WholeInv, TypeOK
  <2>2. Idle.op # "add" /\ \A p : [op |-> "restore", print |-> p].op # "add"
    BY DEF Idle
  <2>3. \A n, k : [op |-> "remove", name |-> n, key |-> k].op # "add"
    OBVIOUS
  <2>4. \E o : o.op # "add" /\ (Begin(w, o) \/ Goto(w, o))
    <3>1. CASE RemoveOpen(w)
      <4>1. PICK n \in Names :
               Begin(w, IF entry[n] = 0 THEN Idle
                        ELSE [op |-> "remove", name |-> n, key |-> entry[n]])
        BY <3>1 DEF RemoveOpen
      <4>2. CASE entry[n] = 0
        BY <2>2, <4>1, <4>2
      <4>3. CASE entry[n] # 0
        <5>1. Begin(w, [op |-> "remove", name |-> n, key |-> entry[n]])
          BY <4>1, <4>3
        <5> QED BY <2>3, <5>1
      <4> QED BY <4>2, <4>3
    <3>2. CASE RestoreResolve(w)
      BY <2>2, <3>2, Zenon DEF RestoreResolve
    <3>3. CASE RemoveDelete(w) \/ Distrust(w) \/ RestoreDelete(w) \/ Abandon(w)
      BY <2>2, <3>3 DEF RemoveDelete, Distrust, RestoreDelete, Abandon
    <3> QED BY <3>1, <3>2, <3>3
  <2> QED BY <2>1, <2>4
<1>3. /\ touched \subseteq touched'
      /\ \A n \in Names : entry'[n] = entry[n] \/ (entry'[n] = 0 /\ n \in touched')
  <2>1. CASE RemoveDelete(w)
    BY <2>1 DEF RemoveDelete, Touch, WholeInv, TypeOK
  <2>2. CASE ~RemoveDelete(w)
    BY <2>2 DEF RemoveOpen, Distrust, RestoreResolve, RestoreDelete, Abandon, Touch
  <2> QED BY <2>1, <2>2
<1>4. \A p \in Prints \ touched' :
         (\E v \in distrust' : v.print = p) <=> (\E v \in distrust : v.print = p)
  <2>1. CASE Distrust(w)
    <3>1. PICK p \in Prints : distrust' = distrust \cup {Plain(p)} /\ touched' = touched \cup {p}
      BY <2>1 DEF Distrust, Touch
    <3>2. Plain(p).print = p
      BY DEF Plain
    <3> QED BY <3>1, <3>2
  <2>2. CASE RestoreDelete(w)
    <3>1. /\ distrust' = distrust \ {Plain(writer[w].print)}
          /\ touched' = touched \cup {writer[w].print}
      BY <2>2 DEF RestoreDelete, Touch
    <3>2. Plain(writer[w].print).print = writer[w].print
      BY DEF Plain
    <3> QED BY <3>1, <3>2
  <2>3. CASE RemoveOpen(w) \/ RemoveDelete(w) \/ RestoreResolve(w) \/ Abandon(w)
    BY <2>3 DEF RemoveOpen, RemoveDelete, RestoreResolve, Abandon
  <2> QED BY <2>1, <2>2, <2>3
<1>5. Owned'
  <2>1. \A v \in Writers : writer[v].op = "add" => writer[v].key # 0
    <3>1. \A v \in Writers : writer[v].op = "add" => writer[v].key \in KeyIds
      BY CalledAdds DEF WholeInv
    <3>2. 0 \notin KeyIds
      BY RegistryAssumption DEF KeyIds
    <3> QED BY <3>1, <3>2
  <2> QED BY <1>2, <1>3, <2>1 DEF SettledInv, Owned
<1>6. Progress' /\ DistrustRead'
  BY <1>1, <1>3, <1>4, WriteSettled DEF WholeInv, SettledInv
<1> QED BY <1>5, <1>6 DEF SettledInv

\* A hand edits one name, or one value under Distrust.
LEMMA EditSettled ==
  ASSUME WholeInv, TypeOK', SettledInv, Edit
  PROVE  SettledInv'
<1>1. UNCHANGED <<entry, writer, load>>
  BY DEF Edit
<1>2. Owned'
  BY <1>1 DEF SettledInv, Owned
<1>3. ASSUME NEW n \in Names, entry[n] # 0,
             keys' = [keys EXCEPT ![entry[n]].certificate = "unusable",
                                  ![entry[n]].edited = "yes"],
             Touch(n), UNCHANGED distrust
      PROVE  Progress' /\ DistrustRead'
  <2>1. \A m \in Names \ touched' : entry[m] # 0 =>
           entry[m] \in KeyIds /\ entry[m] # entry[n]
    BY <1>3 DEF Touch, WholeInv, TypeOK, SettledInv, Owned
  <2>2. \A j \in KeyIds : j # entry[n] => keys'[j] = keys[j]
    BY <1>3 DEF WholeInv, TypeOK
  <2> QED BY <1>1, <1>3, <2>1, <2>2, WriteSettled DEF Touch, WholeInv, SettledInv
<1>4. ASSUME NEW v \in Values, distrust' = distrust \cup {v}, Touch(v.print),
             UNCHANGED keys
      PROVE  Progress' /\ DistrustRead'
  <2>1. \A p \in Prints \ touched' :
           (\E u \in distrust' : u.print = p) <=> (\E u \in distrust : u.print = p)
    BY <1>4 DEF Touch
  <2> QED BY <1>1, <1>4, <2>1, WriteSettled DEF Touch, WholeInv, SettledInv
<1> QED BY <1>2, <1>3, <1>4 DEF Edit, SettledInv

\* The load takes each name from the list once, and reads it under the key
\* that the name has.
LEMMA LoadSettled ==
  ASSUME WholeInv, TypeOK', SettledInv, Load
  PROVE  SettledInv'
<1> USE RegistryAssumption
<1>1. UNCHANGED <<entry, keys, distrust, writer>>
  BY DEF Load, Enumerate, OpenEntry, ReadCertificate, ReadPurposes, ReadDistrust,
         LoadFails
<1>2. Owned'
  BY <1>1 DEF SettledInv, Owned
<1>3. \A n \in Names : Held(n)' = Held(n)
  BY <1>1 DEF Held
<1>4. ASSUME load'.pc = "idle" PROVE SettledInv'
  BY <1>2, <1>4 DEF SettledInv, Progress, DistrustRead
<1>5. NotLoading.pc = "idle" /\ NotLoading.additions = {} /\ NotLoading \in Loads
  BY DEF NotLoading, Loads
<1>6. CASE LoadFails
  BY <1>4, <1>5, <1>6 DEF LoadFails
<1>7. CASE Enumerate
  <2>1. /\ load'.pc = "names" /\ load'.additions = {}
        /\ load'.todo = {n \in Names : entry[n] # 0}
    BY <1>5, <1>7 DEF Enumerate, Loads
  <2>2. \A n \in Names : Got(n)' = {} /\ ~AtHand(n)'
    BY <2>1 DEF Got, AtHand
  <2>3. \A n \in Names : entry[n] = 0 => Held(n) = {}
    BY HeldIs DEF WholeInv
  <2>4. Progress'
    BY <1>1, <1>3, <2>1, <2>2, <2>3 DEF Progress
  <2> QED BY <1>2, <2>1, <2>4 DEF SettledInv, DistrustRead
<1>l. load \in Loads
  BY DEF WholeInv, TypeOK
<1>8. CASE OpenEntry
  <2>1. PICK n \in load.todo :
           load' = IF entry[n] = 0 THEN NotLoading
                   ELSE [load EXCEPT !.pc = "certificate", !.todo = @ \ {n},
                                     !.name = n, !.key = entry[n]]
    BY <1>8 DEF OpenEntry
  <2>2. CASE entry[n] = 0
    BY <1>4, <1>5, <2>1, <2>2
  <2>3. CASE entry[n] # 0
    <3>1. /\ load'.pc = "certificate" /\ load'.todo = load.todo \ {n}
          /\ load'.name = n /\ load'.key = entry[n]
          /\ load'.additions = load.additions
      BY <1>l, <2>1, <2>3 DEF Loads
    <3>2. \A m \in Names : Got(m)' = Got(m) /\ (AtHand(m)' <=> m = n) /\ ~AtHand(m)
      BY <1>8, <3>1 DEF Got, AtHand, OpenEntry
    <3>3. Progress'
      BY <1>1, <1>3, <1>8, <3>1, <3>2 DEF Progress, SettledInv, OpenEntry
    <3> QED BY <1>2, <3>1, <3>3 DEF SettledInv, DistrustRead
  <2> QED BY <2>2, <2>3
<1>9. CASE ReadCertificate
  <2> DEFINE der == keys[load.key].certificate
  <2>1. /\ load.pc = "certificate" /\ UNCHANGED touched
        /\ \/ der \in Ders /\ load' = [load EXCEPT !.pc = "purposes", !.der = der]
           \/ der \notin Ders /\ load' = [load EXCEPT !.pc = "names"]
           \/ entry[load.name] # load.key /\ load' = [load EXCEPT !.pc = "names"]
    BY <1>9 DEF ReadCertificate
  <2>2. load.key \in KeyIds /\ load.name \in Names
    BY <2>1 DEF WholeInv, TypeOK
  <2>3. load'.todo = load.todo /\ load'.name = load.name /\ load'.key = load.key
        /\ load'.additions = load.additions
    BY <1>l, <2>1 DEF Loads
  <2>4. \A m \in Names : Got(m)' = Got(m)
    BY <2>3 DEF Got
  <2>5. CASE der \in Ders /\ load' = [load EXCEPT !.pc = "purposes", !.der = der]
    <3>1. load'.pc = "purposes" /\ load'.der = der
      BY <1>l, <2>5 DEF Loads
    <3>2. \A m \in Names : AtHand(m)' <=> AtHand(m)
      BY <2>1, <2>3, <3>1 DEF AtHand
    <3>3. Progress'
      BY <1>1, <1>3, <2>1, <2>3, <2>4, <3>1, <3>2 DEF Progress, SettledInv
    <3> QED BY <1>2, <3>1, <3>3 DEF SettledInv, DistrustRead
  <2>6. CASE /\ der \notin Ders \/ entry[load.name] # load.key
             /\ load' = [load EXCEPT !.pc = "names"]
    <3>1. load'.pc = "names"
      BY <1>l, <2>6 DEF Loads
    <3>2. \A m \in Names : (AtHand(m) <=> m = load.name) /\ ~AtHand(m)'
      BY <2>1, <3>1 DEF AtHand
    <3>3. load.name \notin touched => Held(load.name) = {}
      <4>1. load.name \notin touched => entry[load.name] = load.key
        BY <2>1, <2>2, <3>2 DEF SettledInv, Progress
      <4>2. 0 \notin KeyIds
        BY DEF KeyIds
      <4> QED BY <2>2, <2>6, <4>1, <4>2, HeldIs DEF WholeInv
    <3>4. Progress'
      <4> SUFFICES ASSUME NEW n \in Names \ touched
                   PROVE  /\ n \in load.todo => entry[n] # 0 /\ Got(n)' = {}
                          /\ n \notin load.todo => Got(n)' = Held(n)'
        BY <1>1, <2>1, <2>3, <3>1, <3>2 DEF Progress
      <4>1. CASE n = load.name
        BY <1>3, <2>1, <2>4, <3>2, <3>3, <4>1 DEF Progress, SettledInv
      <4>2. CASE n # load.name
        BY <1>3, <2>1, <2>4, <3>2, <4>2 DEF Progress, SettledInv
      <4> QED BY <4>1, <4>2
    <3> QED BY <1>2, <3>1, <3>4 DEF SettledInv, DistrustRead
  <2> QED BY <2>1, <2>5, <2>6
<1>10. CASE ReadPurposes
  <2>1. PICK purposes \in SUBSET Purposes :
           /\ \/ purposes = keys[load.key].purposes
              \/ entry[load.name] # load.key /\ purposes = {}
           /\ load' = [load EXCEPT !.pc = "names",
                        !.additions = @ \cup {[name |-> load.name, key |-> load.key,
                                               certificate |-> load.der,
                                               purposes |-> purposes]}]
    BY <1>10 DEF ReadPurposes
  <2>2. load.pc = "purposes" /\ UNCHANGED touched
    BY <1>10 DEF ReadPurposes
  <2>3. load.key \in KeyIds /\ load.name \in Names /\ load.der \in Ders /\ 0 \notin KeyIds
    BY <2>2 DEF WholeInv, TypeOK, KeyIds
  <2> DEFINE a == [name |-> load.name, key |-> load.key, certificate |-> load.der,
                   purposes |-> purposes]
  <2>4. load' = [load EXCEPT !.pc = "names", !.additions = @ \cup {a}]
    BY <2>1
  <2>5. a.name = load.name /\ a.certificate = load.der /\ a.purposes = purposes
    OBVIOUS
  <2> HIDE DEF a
  <2>6. load'.pc = "names" /\ load'.todo = load.todo /\ load'.additions = load.additions \cup {a}
    BY <1>l, <2>4 DEF Loads
  <2>7. \A m \in Names : (AtHand(m) <=> m = load.name) /\ ~AtHand(m)'
    BY <2>2, <2>6 DEF AtHand
  <2>8. \A m \in Names : m # load.name => Got(m)' = Got(m)
    <3> SUFFICES ASSUME NEW m \in Names, m # load.name PROVE Got(m)' = Got(m)
      OBVIOUS
    <3>1. {b \in load'.additions : b.name = m} = {b \in load.additions : b.name = m}
      BY <2>5, <2>6
    <3> QED BY <3>1 DEF Got
  <2>9. ASSUME load.name \notin touched PROVE Got(load.name)' = Held(load.name)
    <3>1. /\ entry[load.name] = load.key /\ load.der = keys[load.key].certificate
          /\ Got(load.name) = {}
      BY <2>2, <2>3, <2>7, <2>9 DEF SettledInv, Progress
    <3>2. purposes = keys[load.key].purposes
      BY <2>1, <3>1
    <3>3. Held(load.name) = {[certificate |-> load.der, purposes |-> purposes]}
      BY <2>3, <3>1, <3>2, HeldIs DEF WholeInv
    <3>4. {b \in load.additions : b.name = load.name} = {}
      BY <3>1 DEF Got
    <3>5. {b \in load'.additions : b.name = load.name} = {a}
      BY <2>5, <2>6, <3>4
    <3>6. Got(load.name)' = {[certificate |-> b.certificate, purposes |-> b.purposes] :
                               b \in {c \in load'.additions : c.name = load.name}}
      <4>1. load'.name = load.name
        BY <1>l, <2>4 DEF Loads
      <4> QED BY <4>1 DEF Got
    <3> QED BY <2>5, <3>3, <3>5, <3>6
  <2>10. Progress'
    <3> SUFFICES ASSUME NEW n \in Names \ touched
                 PROVE  /\ n \in load.todo => entry[n] # 0 /\ Got(n)' = {}
                        /\ n \notin load.todo => Got(n)' = Held(n)'
      BY <1>1, <2>2, <2>6, <2>7 DEF Progress
    <3>1. CASE n = load.name
      <4>1. n \notin load.todo
        BY <2>2, <2>7, <3>1 DEF Progress, SettledInv
      <4>2. load'.name = load.name
        BY <1>l, <2>4 DEF Loads
      <4>3. Got(n)' = Got(load.name)'
        BY <3>1, <4>2 DEF Got
      <4> QED BY <1>3, <2>9, <3>1, <4>1, <4>3
    <3>2. CASE n # load.name
      BY <1>3, <2>2, <2>7, <2>8, <3>2 DEF Progress, SettledInv
    <3> QED BY <3>1, <3>2
  <2> QED BY <1>2, <2>6, <2>10 DEF SettledInv, DistrustRead
<1>11. CASE ReadDistrust
  <2>1. /\ load.pc = "names" /\ load.todo = {} /\ UNCHANGED touched
        /\ load'.pc = "done" /\ load'.todo = load.todo
        /\ load'.additions = load.additions
        /\ load'.distrust = {v.print : v \in distrust} \cap Prints
    BY <1>l, <1>11 DEF ReadDistrust, Loads
  <2>2. \A m \in Names : Got(m)' = Got(m) /\ ~AtHand(m) /\ ~AtHand(m)'
    BY <2>1 DEF Got, AtHand
  <2>3. Progress'
    BY <1>1, <1>3, <2>1, <2>2 DEF Progress, SettledInv
  <2>4. DistrustRead'
    BY <1>1, <2>1 DEF DistrustRead
  <2> QED BY <1>2, <2>3, <2>4 DEF SettledInv
<1> QED BY <1>6, <1>7, <1>8, <1>9, <1>10, <1>11 DEF Load

\* A finished load has every name and every fingerprint that nobody wrote
\* meanwhile exactly as the registry holds it, however many writers were at
\* work on the others.
THEOREM LoadsSeeSettled == Spec => []LoadSeesSettled
<1>1. WholeInv /\ SettledInv /\ [Next]_vars => SettledInv'
  <2> SUFFICES ASSUME WholeInv, SettledInv, [Next]_vars PROVE SettledInv'
    OBVIOUS
  <2>1. TypeOK'
    BY StepTyped DEF WholeInv
  <2>2. CASE UNCHANGED vars
    BY <2>2 DEF vars, SettledInv, Owned, Progress, DistrustRead, Got, AtHand, Held
  <2> QED BY <2>1, <2>2, AddOpenSettled, AddSetSettled, OtherSettled, EditSettled,
             LoadSettled DEF Next, Write
<1>2. SettledInv => LoadSeesSettled
  BY DEF SettledInv, Progress, DistrustRead, LoadSeesSettled, Got, AtHand
<1> QED BY <1>1, <1>2, InitSettled, WholeInvariant, PTL DEF Spec
=============================================================================
