---------------------------- MODULE RenderProofs ----------------------------
(***************************************************************************)
(* Theorems about module Render, for every finite set of certificates,     *)
(* every assignment of subject hashes, colliding ones included, and every  *)
(* set of answers of renameat2: the live directory is always one whole     *)
(* store, failures lose no store, success means rendered, and the file     *)
(* operations implement CompatStore.                                       *)
(***************************************************************************)
EXTENDS Render, Foundations, FiniteSetTheorems, TLAPS

(***************************************************************************)
(* The inductive invariant.                                                *)
(***************************************************************************)

\* certs.new while it is being built: the bundle holds every root, the hashed
\* files exactly the ones written, each in a file of its own because the
\* numbers a hash has used are those below the count of its files.
Partial(dir, set, written) ==
    /\ dir # Absent
    /\ BundleName \in Names(dir) /\ dir.files[BundleName] = set
    /\ HashedRoots(dir) = written
    /\ Cardinality(Hashed(dir)) = Cardinality(written)
    /\ \A n \in Hashed(dir) :
          n.seq < Cardinality({m \in Hashed(dir) : m.hash = n.hash})

Installing == {"prepare", "write_bundle", "install_bundle", "write_hashed",
               "install_hashed", "clear_previous", "set_aside"}
Replacing == {"install_staging", "restore"}
Installed == {"discard_staging", "discard_previous", "write_pem"}

\* What certs.new holds at each operation that uses it.
StagingInv ==
    /\ step = "write_bundle" => staging # Absent /\ Names(staging) = {}
    /\ step = "install_bundle" => staging # Absent /\ Names(staging) = {TempName}
    /\ step = "write_hashed" =>
          Partial(staging, roots, roots \ todo) /\ TempName \notin Names(staging)
    /\ step = "install_hashed" => Partial(staging, roots, roots \ todo) /\ todo # {}
    /\ step \in {"clear_previous", "set_aside"} \cup Replacing =>
          staging # Absent /\ Complete(staging, roots)

\* What the call has done when it has reached an operation.
CallInv ==
    /\ step \in {"remove_pem", "empty_live"} => compat = "None"
    /\ step \in Installing \cup Replacing \cup Installed => compat = "Files"
    /\ step = "empty_live" => certPem = Absent /\ ~holding
    /\ step \in {"clear_previous", "set_aside"} => live # Absent
    /\ step \in Replacing => live = Absent /\ previous # Absent
    /\ step \in Installed => live # Absent /\ Complete(live, roots)
    /\ step = "done" =>
          IF compat = "None"
          THEN Names(live) = {} /\ certPem = Absent
          ELSE live # Absent /\ Complete(live, roots) /\ certPem = roots

\* A directory that holds anything is one whole store: certs, and what the
\* fallback set aside.
WholeInv ==
    /\ LiveIsWhole
    /\ step \in Replacing /\ Names(previous) # {} /\ ~gutted => Whole(previous)

\* Where the store is that was installed and not withdrawn.
KeptInv ==
    holding /\ ~blank => IF live = Absent THEN Whole(previous) ELSE Whole(live)

\* The ghost "before" is what readers found when the call was made.
BeforeInv ==
    /\ step \in Installing => before = Visible(live)
    /\ step \in Replacing => before = Visible(previous)

RenderInv == StagingInv /\ CallInv /\ WholeInv /\ KeptInv /\ BeforeInv

-----------------------------------------------------------------------------
(***************************************************************************)
(* Files and directories.                                                  *)
(***************************************************************************)

\* The root written next is one that is still to be written.
LEMMA NextRootIsLeft ==
  ASSUME todo \subseteq Nat, todo # {}
  PROVE  NextRoot \in todo
<1>1. \E f \in todo : \A g \in todo : f <= g
  BY LeastNat
<1>. QED  BY <1>1 DEF NextRoot

\* The three kinds of names are told apart, and a hashed name by its parts.
LEMMA NamesDiffer ==
  /\ BundleName # TempName
  /\ BundleName.kind # "hashed" /\ TempName.kind # "hashed"
  /\ \A h, n : /\ HashedName(h, n).kind = "hashed"
               /\ HashedName(h, n).hash = h
               /\ HashedName(h, n).seq = n
               /\ HashedName(h, n) \notin {BundleName, TempName}
BY DEF BundleName, TempName, HashedName

\* There are finitely many names a store can use.
LEMMA FileNamesFinite == IsFiniteSet(FileNames)
<1>. DEFINE N == 0..Cardinality(Fingerprints)
            P == Fingerprints \X N
            H == {HashedName(SubjectHash[f], n) : f \in Fingerprints, n \in N}
            g == [p \in P |-> HashedName(SubjectHash[p[1]], p[2])]
<1>1. Cardinality(Fingerprints) \in Nat /\ IsFiniteSet(Fingerprints)
  BY RenderAssumption, FS_CardinalityType
<1>2. IsFiniteSet(N)
  BY <1>1, FS_Interval
<1>3. IsFiniteSet(P)
  BY <1>1, <1>2, FS_Product
<1>4. g \in Surjection(P, H)
  <2>1. g \in [P -> H]
    OBVIOUS
  <2>2. \A y \in H : \E p \in P : g[p] = y
    <3>1. SUFFICES ASSUME NEW f \in Fingerprints, NEW n \in N
                   PROVE  \E p \in P : g[p] = HashedName(SubjectHash[f], n)
      OBVIOUS
    <3>2. <<f, n>> \in P
      OBVIOUS
    <3>3. g[<<f, n>>] = HashedName(SubjectHash[f], n)
      BY <3>2
    <3>. QED  BY <3>2, <3>3
  <2>. HIDE DEF P, H, g
  <2>. QED  BY <2>1, <2>2 DEF Surjection
<1>5. IsFiniteSet(H)
  <2>. HIDE DEF P, H, g
  <2>. QED  BY <1>3, <1>4, FS_Surjection
<1>6. IsFiniteSet({BundleName, TempName})
  <2>1. IsFiniteSet({BundleName})
    BY FS_Singleton
  <2>2. {BundleName, TempName} = {BundleName} \cup {TempName}
    OBVIOUS
  <2>. QED  BY <2>1, <2>2, FS_AddElement
<1>7. IsFiniteSet({BundleName, TempName} \cup H)
  <2>. HIDE DEF H
  <2>. QED  BY <1>5, <1>6, FS_Union
<1>. QED  BY <1>7 DEF FileNames

\* What is in a directory.
LEMMA DirectoryFacts ==
  ASSUME NEW d \in Directory
  PROVE  /\ d # Absent
         /\ d.files \in [Names(d) -> SUBSET Fingerprints]
         /\ Names(d) = DOMAIN d.files
         /\ Names(d) \subseteq FileNames
         /\ IsFiniteSet(Names(d)) /\ IsFiniteSet(Hashed(d))
         /\ Visible(d) \in SUBSET Fingerprints
         /\ HashedRoots(d) \in SUBSET Fingerprints
<1>1. d # Absent
  BY AbsentAssumption
<1>2. PICK S \in SUBSET FileNames : d.files \in [S -> SUBSET Fingerprints]
  BY DEF Directory
<1>3. Names(d) = S /\ Names(d) = DOMAIN d.files
  BY <1>1, <1>2 DEF Names
<1>4. IsFiniteSet(Names(d))
  BY <1>3, FileNamesFinite, FS_Subset
<1>5. IsFiniteSet(Hashed(d))
  BY <1>4, FS_Subset DEF Hashed
<1>6. Visible(d) \in SUBSET Fingerprints
  BY <1>1, <1>2, <1>3 DEF Visible
<1>7. HashedRoots(d) \in SUBSET Fingerprints
  BY <1>2, <1>3 DEF HashedRoots, Hashed
<1>. QED  BY <1>1, <1>2, <1>3, <1>4, <1>5, <1>6, <1>7

\* An empty directory.
LEMMA EmptyFacts ==
  ASSUME NEW b \in BOOLEAN
  PROVE  /\ EmptyDir(b) \in Directory
         /\ Names(EmptyDir(b)) = {}
         /\ Visible(EmptyDir(b)) = {}
<1>1. NoFiles \in [{} -> SUBSET Fingerprints]
  BY DEF NoFiles
<1>2. EmptyDir(b) = [files |-> NoFiles, granted |-> b]
  BY DEF EmptyDir, Dir
<1>3. EmptyDir(b) \in Directory
  <2>1. {} \in SUBSET FileNames
    OBVIOUS
  <2>2. NoFiles \in UNION {[S -> SUBSET Fingerprints] : S \in SUBSET FileNames}
    BY <1>1, <2>1
  <2>. QED  BY <1>2, <2>2 DEF Directory
<1>4. EmptyDir(b) # Absent
  BY <1>3, AbsentAssumption
<1>5. Names(EmptyDir(b)) = {}
  BY <1>1, <1>2, <1>4 DEF Names
<1>. QED  BY <1>3, <1>4, <1>5 DEF Visible

\* Writing a file.
LEMMA PutFacts ==
  ASSUME NEW d \in Directory, NEW name \in FileNames,
         NEW c \in SUBSET Fingerprints
  PROVE  /\ Put(d, name, c) \in Directory
         /\ Names(Put(d, name, c)) = Names(d) \cup {name}
         /\ Put(d, name, c).files[name] = c
         /\ \A n \in Names(d) \ {name} : Put(d, name, c).files[n] = d.files[n]
<1>. DEFINE F == [n \in DOMAIN d.files \cup {name} |->
                      IF n = name THEN c ELSE d.files[n]]
<1>1. /\ d.files \in [Names(d) -> SUBSET Fingerprints]
      /\ Names(d) = DOMAIN d.files /\ Names(d) \subseteq FileNames
  BY DirectoryFacts
<1>2. /\ Put(d, name, c) = [files |-> F, granted |-> d.granted]
      /\ d.granted \in BOOLEAN
  BY DEF Put, Directory
<1>3. F \in [Names(d) \cup {name} -> SUBSET Fingerprints]
  BY <1>1
<1>4. Put(d, name, c) \in Directory
  BY <1>1, <1>2, <1>3 DEF Directory
<1>5. Put(d, name, c) # Absent
  BY <1>4, AbsentAssumption
<1>6. Names(Put(d, name, c)) = Names(d) \cup {name}
  BY <1>2, <1>3, <1>5 DEF Names
<1>. QED  BY <1>1, <1>2, <1>4, <1>6

\* Removing a file.
LEMMA RemoveFacts ==
  ASSUME NEW d \in Directory, NEW name
  PROVE  /\ RemoveFile(d, name) \in Directory
         /\ Names(RemoveFile(d, name)) = Names(d) \ {name}
         /\ \A n \in Names(d) \ {name} : RemoveFile(d, name).files[n] = d.files[n]
         /\ Visible(RemoveFile(d, name)) \in SUBSET Visible(d)
<1>. DEFINE F == [n \in DOMAIN d.files \ {name} |-> d.files[n]]
<1>1. /\ d.files \in [Names(d) -> SUBSET Fingerprints] /\ d # Absent
      /\ Names(d) = DOMAIN d.files /\ Names(d) \subseteq FileNames
  BY DirectoryFacts
<1>2. /\ RemoveFile(d, name) = [files |-> F, granted |-> d.granted]
      /\ d.granted \in BOOLEAN
  BY DEF RemoveFile, Directory, Restrict
<1>3. F \in [Names(d) \ {name} -> SUBSET Fingerprints]
  BY <1>1
<1>4. RemoveFile(d, name) \in Directory
  BY <1>1, <1>2, <1>3 DEF Directory
<1>5. RemoveFile(d, name) # Absent
  BY <1>4, AbsentAssumption
<1>6. Names(RemoveFile(d, name)) = Names(d) \ {name}
  BY <1>2, <1>3, <1>5 DEF Names
<1>7. \A n \in Names(d) \ {name} : RemoveFile(d, name).files[n] = d.files[n]
  BY <1>1, <1>2
<1>8. Visible(RemoveFile(d, name)) \in SUBSET Visible(d)
  <2>1. Visible(RemoveFile(d, name)) =
          UNION {RemoveFile(d, name).files[n] : n \in Names(d) \ {name}}
    BY <1>5, <1>6 DEF Visible
  <2>2. Visible(d) = UNION {d.files[n] : n \in Names(d)}
    BY <1>1 DEF Visible
  <2>. QED  BY <1>7, <2>1, <2>2
<1>. QED  BY <1>4, <1>6, <1>7, <1>8

\* A complete directory shows readers exactly its set.
LEMMA CompleteFacts ==
  ASSUME NEW d \in Directory, NEW set \in SUBSET Fingerprints, Complete(d, set)
  PROVE  Whole(d) /\ Visible(d) = set
<1>1. d # Absent /\ Names(d) \subseteq FileNames
  BY DirectoryFacts
<1>2. Whole(d)
  BY <1>1 DEF Whole
<1>3. \A n \in Names(d) : n \in Hashed(d) \/ n = BundleName
  BY <1>1, NamesDiffer DEF FileNames, Hashed, Complete
<1>4. Visible(d) = HashedRoots(d) \cup d.files[BundleName]
  BY <1>1, <1>3 DEF Visible, HashedRoots, Hashed, Complete
<1>. QED  BY <1>2, <1>4 DEF Complete

\* The first file of certs.new is the bundle.
LEMMA BundleFacts ==
  ASSUME NEW d \in Directory, Names(d) = {TempName},
         NEW set \in SUBSET Fingerprints
  PROVE  LET e == Put(RemoveFile(d, TempName), BundleName, set)
         IN  /\ e \in Directory
             /\ Names(e) = {BundleName}
             /\ Partial(e, set, {})
<1>. DEFINE r == RemoveFile(d, TempName)
            e == Put(r, BundleName, set)
<1>1. BundleName \in FileNames
  BY DEF FileNames
<1>2. r \in Directory /\ Names(r) = {}
  BY RemoveFacts
<1>3. e \in Directory /\ Names(e) = {BundleName} /\ e.files[BundleName] = set
  <2>. HIDE DEF r
  <2>. QED  BY <1>1, <1>2, PutFacts
<1>. HIDE DEF r, e
<1>4. Hashed(e) = {}
  BY <1>3, NamesDiffer DEF Hashed
<1>5. HashedRoots(e) = {}
  BY <1>4 DEF HashedRoots
<1>6. e # Absent
  BY <1>3, DirectoryFacts
<1>7. Partial(e, set, {})
  BY <1>3, <1>4, <1>5, <1>6, FS_EmptySet DEF Partial
<1>. QED  BY <1>3, <1>7 DEF e, r

\* The next hashed file gets a name no file has, so the root joins the ones
\* written and replaces none of them, however subject hashes collide.
LEMMA HashedFacts ==
  ASSUME NEW d \in Directory, NEW set \in SUBSET Fingerprints,
         NEW written \in SUBSET Fingerprints, Partial(d, set, written),
         NEW f \in Fingerprints \ written
  PROVE  LET h == SubjectHash[f]
             k == Cardinality({n \in Hashed(d) : n.hash = h})
             e == Put(RemoveFile(d, TempName), HashedName(h, k), {f})
         IN  /\ e \in Directory
             /\ TempName \notin Names(e)
             /\ Partial(e, set, written \cup {f})
<1>. DEFINE h == SubjectHash[f]
            Same(x, y) == {n \in Hashed(x) : n.hash = y}
            k == Cardinality(Same(d, h))
            new == HashedName(h, k)
            r == RemoveFile(d, TempName)
            e == Put(r, new, {f})
<1>1. /\ d # Absent /\ IsFiniteSet(Hashed(d)) /\ Names(d) \subseteq FileNames
      /\ IsFiniteSet(Names(d))
      /\ d.files \in [Names(d) -> SUBSET Fingerprints]
  BY DirectoryFacts
<1>2. /\ IsFiniteSet(written) /\ Cardinality(written) \in Nat
      /\ Cardinality(Fingerprints) \in Nat
      /\ Cardinality(written) <= Cardinality(Fingerprints)
      /\ Cardinality(written \cup {f}) = Cardinality(written) + 1
  BY RenderAssumption, FS_Subset, FS_CardinalityType, FS_AddElement
<1>3. \A y : /\ IsFiniteSet(Same(d, y)) /\ Cardinality(Same(d, y)) \in Nat
             /\ Cardinality(Same(d, y)) <= Cardinality(Hashed(d))
  BY <1>1, FS_Subset, FS_CardinalityType
<1>4. k \in 0..Cardinality(Fingerprints)
  <2>1. Cardinality(Hashed(d)) = Cardinality(written)
    BY DEF Partial
  <2>. QED  BY <1>2, <1>3, <2>1
<1>5. new \in FileNames
  <2>. HIDE DEF k
  <2>. QED  BY <1>4 DEF FileNames
<1>6. new \notin Hashed(d)
  <2>1. SUFFICES ASSUME new \in Hashed(d) PROVE FALSE
    OBVIOUS
  <2>2. new.seq = k /\ new.hash = h
    BY NamesDiffer
  <2>3. new.seq < Cardinality(Same(d, new.hash))
    BY <2>1 DEF Partial
  <2>4. k \in Nat /\ k = Cardinality(Same(d, h))
    BY <1>3
  <2>5. k < Cardinality(Same(d, h))
    <3>. HIDE DEF k, Same, new, h
    <3>. QED  BY <2>2, <2>3
  <2>. HIDE DEF k, Same
  <2>. QED  BY <2>4, <2>5
<1>7. /\ r \in Directory /\ Names(r) = Names(d) \ {TempName}
      /\ \A n \in Names(d) \ {TempName} : r.files[n] = d.files[n]
  BY RemoveFacts
<1>8. /\ e \in Directory /\ Names(e) = Names(r) \cup {new}
      /\ e.files[new] = {f}
      /\ \A n \in Names(r) \ {new} : e.files[n] = r.files[n]
  <2>. HIDE DEF r, new
  <2>. QED  BY <1>5, <1>7, PutFacts
<1>9. /\ new.kind = "hashed" /\ new.hash = h /\ new.seq = k
      /\ new # TempName /\ new # BundleName
  BY NamesDiffer
<1>. HIDE DEF r, e, new
<1>10. Hashed(e) = Hashed(d) \cup {new}
  BY <1>7, <1>8, <1>9, NamesDiffer DEF Hashed
<1>11. \A n \in Hashed(d) : e.files[n] = d.files[n]
  BY <1>6, <1>7, <1>8, NamesDiffer DEF Hashed
<1>12. HashedRoots(e) = written \cup {f}
  <2>1. HashedRoots(d) = written
    BY DEF Partial
  <2>. QED  BY <1>8, <1>10, <1>11, <2>1 DEF HashedRoots
<1>13. Cardinality(Hashed(e)) = Cardinality(written \cup {f})
  <2>1. Cardinality(Hashed(d)) = Cardinality(written)
    BY DEF Partial
  <2>2. Cardinality(Hashed(d) \cup {new}) = Cardinality(Hashed(d)) + 1
    BY <1>1, <1>6, FS_AddElement
  <2>. QED  BY <1>2, <1>10, <2>1, <2>2
<1>14. Same(e, h) = Same(d, h) \cup {new} /\ \A y : y # h => Same(e, y) = Same(d, y)
  BY <1>9, <1>10
<1>15. Cardinality(Same(e, h)) = k + 1
  <2>1. new \notin Same(d, h) /\ IsFiniteSet(Same(d, h))
    BY <1>3, <1>6
  <2>2. Cardinality(Same(d, h) \cup {new}) = Cardinality(Same(d, h)) + 1
    <3>. HIDE DEF Same
    <3>. QED  BY <2>1, FS_AddElement
  <2>. QED  BY <1>14, <2>2
<1>16. \A n \in Hashed(e) : n.seq < Cardinality(Same(e, n.hash))
  <2>1. SUFFICES ASSUME NEW n \in Hashed(e)
                 PROVE  n.seq < Cardinality(Same(e, n.hash))
    OBVIOUS
  <2>2. CASE n = new
    <3>1. k \in Nat
      BY <1>3
    <3>. HIDE DEF k, Same
    <3>. QED  BY <1>9, <1>15, <2>2, <3>1
  <2>3. CASE n \in Hashed(d)
    <3>1. n.seq < Cardinality(Same(d, n.hash))
      BY <2>3 DEF Partial
    <3>2. CASE n.hash = h
      <4>1. n.seq \in Nat
        BY <1>1, <1>2, <2>3, NamesDiffer DEF FileNames, Hashed
      <4>2. k \in Nat /\ n.seq < k
        BY <1>3, <3>1, <3>2
      <4>. HIDE DEF k
      <4>. QED  BY <1>15, <3>2, <4>1, <4>2
    <3>3. CASE n.hash # h
      BY <1>14, <3>1, <3>3
    <3>. QED  BY <3>2, <3>3
  <2>. QED  BY <1>10, <2>1, <2>2, <2>3
<1>17. BundleName \in Names(e) /\ e.files[BundleName] = set
  BY <1>7, <1>8, <1>9, NamesDiffer DEF Partial
<1>18. TempName \notin Names(e) /\ e # Absent
  BY <1>7, <1>8, <1>9, DirectoryFacts
<1>19. Partial(e, set, written \cup {f})
  BY <1>12, <1>13, <1>16, <1>17, <1>18 DEF Partial
<1>. QED  BY <1>8, <1>18, <1>19 DEF e, r, new

\* Writing a temporary beside the finished files changes none of them.
LEMMA TempFacts ==
  ASSUME NEW d \in Directory, NEW c \in SUBSET Fingerprints,
         NEW set \in SUBSET Fingerprints, NEW written
  PROVE  LET e == Put(d, TempName, c)
         IN  /\ e \in Directory /\ e # Absent
             /\ Names(e) = Names(d) \cup {TempName}
             /\ Partial(d, set, written) => Partial(e, set, written)
<1>. DEFINE e == Put(d, TempName, c)
<1>1. TempName \in FileNames
  BY DEF FileNames
<1>2. /\ e \in Directory /\ Names(e) = Names(d) \cup {TempName}
      /\ \A n \in Names(d) \ {TempName} : e.files[n] = d.files[n]
  BY <1>1, PutFacts
<1>3. e # Absent
  BY <1>2, DirectoryFacts
<1>. HIDE DEF e
<1>4. Hashed(e) = Hashed(d) /\ \A n \in Hashed(d) : e.files[n] = d.files[n]
  BY <1>2, NamesDiffer DEF Hashed
<1>5. HashedRoots(e) = HashedRoots(d)
  BY <1>4 DEF HashedRoots
<1>6. Partial(d, set, written) => Partial(e, set, written)
  BY <1>2, <1>3, <1>4, <1>5, NamesDiffer DEF Partial
<1>. QED  BY <1>2, <1>3, <1>6 DEF e

\* When every root is written and no temporary is left, the directory is
\* complete.
LEMMA WrittenIsComplete ==
  ASSUME NEW d, NEW set, Partial(d, set, set), TempName \notin Names(d)
  PROVE  Complete(d, set)
BY DEF Partial, Complete

-----------------------------------------------------------------------------
(***************************************************************************)
(* The invariant, one operation at a time.                                 *)
(***************************************************************************)

\* A call begins: what readers find is remembered.
LEMMA CallKeeps ==
  ASSUME TypeOK, RenderInv, Call
  PROVE  TypeOK' /\ RenderInv'
<1>1. Visible(live) \in (SUBSET Fingerprints) \cup {Absent}
  <2>1. CASE live = Absent
    BY <2>1 DEF Visible
  <2>2. CASE live \in Directory
    BY <2>2, DirectoryFacts
  <2>. QED  BY <2>1, <2>2 DEF TypeOK
<1>2. TypeOK'
  BY <1>1 DEF TypeOK, Call, Steps, fileVars, callVars, ghostVars
<1>3. StagingInv'
  BY DEF Call, TypeOK, RenderInv, StagingInv, Replacing, fileVars, callVars,
     ghostVars
<1>4. CallInv'
  BY DEF Call, RenderInv, CallInv, Installing, Replacing, Installed, fileVars,
     callVars, ghostVars
<1>5. WholeInv'
  BY DEF Call, RenderInv, WholeInv, LiveIsWhole, Replacing, fileVars, callVars,
     ghostVars
<1>6. KeptInv'
  BY DEF Call, RenderInv, KeptInv, CallInv, fileVars, callVars, ghostVars
<1>7. BeforeInv'
  BY DEF Call, RenderInv, BeforeInv, Installing, Replacing, fileVars, callVars,
     ghostVars
<1>. QED  BY <1>2, <1>3, <1>4, <1>5, <1>6, <1>7 DEF RenderInv

\* cert.pem goes first, and with it the claim that a store is held.
LEMMA RemovePemKeeps ==
  ASSUME TypeOK, RenderInv, RemovePem
  PROVE  TypeOK' /\ RenderInv'
<1>1. TypeOK'
  BY DEF TypeOK, RemovePem, Steps, fileVars, callVars, ghostVars
<1>2. StagingInv'
  BY DEF RemovePem, TypeOK, RenderInv, StagingInv, Replacing, fileVars,
     callVars, ghostVars
<1>3. CallInv'
  BY DEF RemovePem, RenderInv, CallInv, Installing, Replacing, Installed,
     fileVars, callVars, ghostVars
<1>4. WholeInv'
  BY DEF RemovePem, RenderInv, WholeInv, LiveIsWhole, Replacing, fileVars,
     callVars, ghostVars
<1>5. KeptInv'
  BY DEF RemovePem, RenderInv, KeptInv, CallInv, fileVars, callVars, ghostVars
<1>6. BeforeInv'
  BY DEF RemovePem, RenderInv, BeforeInv, Installing, Replacing, fileVars,
     callVars, ghostVars
<1>. QED  BY <1>1, <1>2, <1>3, <1>4, <1>5, <1>6 DEF RenderInv

\* Mode None empties certs/ file by file; nothing is held any more.
LEMMA EmptyLiveKeeps ==
  ASSUME TypeOK, RenderInv, EmptyLive
  PROVE  TypeOK' /\ RenderInv'
<1>1. live \in Directory /\ \A n : RemoveFile(live, n) \in Directory
  <2>1. live # Absent
    BY DEF EmptyLive, Names
  <2>. QED  BY <2>1, RemoveFacts DEF TypeOK
<1>2. TypeOK'
  BY <1>1 DEF TypeOK, EmptyLive, Steps, fileVars, callVars, ghostVars
<1>3. StagingInv'
  BY DEF EmptyLive, TypeOK, RenderInv, StagingInv, Replacing, fileVars,
     callVars, ghostVars
<1>4. CallInv'
  BY DEF EmptyLive, RenderInv, CallInv, Installing, Replacing, Installed,
     fileVars, callVars, ghostVars
<1>5. WholeInv'
  BY DEF EmptyLive, RenderInv, WholeInv, LiveIsWhole, Replacing, fileVars,
     callVars, ghostVars
<1>6. KeptInv'
  BY DEF EmptyLive, RenderInv, KeptInv, CallInv, fileVars, callVars, ghostVars
<1>7. BeforeInv'
  BY DEF EmptyLive, RenderInv, BeforeInv, Installing, Replacing, fileVars,
     callVars, ghostVars
<1>. QED  BY <1>2, <1>3, <1>4, <1>5, <1>6, <1>7 DEF RenderInv

\* certs/ is empty: the withdrawal is done.
LEMMA LiveEmptiedKeeps ==
  ASSUME TypeOK, RenderInv, LiveEmptied
  PROVE  TypeOK' /\ RenderInv'
<1>1. TypeOK'
  BY DEF TypeOK, LiveEmptied, Steps, fileVars, callVars, ghostVars
<1>2. StagingInv'
  BY DEF LiveEmptied, TypeOK, RenderInv, StagingInv, Replacing, fileVars,
     callVars, ghostVars
<1>3. CallInv'
  BY DEF LiveEmptied, RenderInv, CallInv, Installing, Replacing, Installed,
     fileVars, callVars, ghostVars
<1>4. WholeInv'
  BY DEF LiveEmptied, RenderInv, WholeInv, LiveIsWhole, Replacing, fileVars,
     callVars, ghostVars
<1>5. KeptInv'
  BY DEF LiveEmptied, RenderInv, KeptInv, CallInv, fileVars, callVars, ghostVars
<1>6. BeforeInv'
  BY DEF LiveEmptied, RenderInv, BeforeInv, Installing, Replacing, fileVars,
     callVars, ghostVars
<1>. QED  BY <1>1, <1>2, <1>3, <1>4, <1>5, <1>6 DEF RenderInv

\* certs.new is made where the last call consumed it.
LEMMA MakeStagingKeeps ==
  ASSUME TypeOK, RenderInv, MakeStaging
  PROVE  TypeOK' /\ RenderInv'
<1>1. EmptyDir(FALSE) \in Directory /\ Names(EmptyDir(FALSE)) = {}
  BY EmptyFacts
<1>2. EmptyDir(FALSE) # Absent
  BY <1>1, DirectoryFacts
<1>3. TypeOK'
  BY <1>1 DEF TypeOK, MakeStaging, Steps, fileVars, callVars, ghostVars
<1>4. StagingInv'
  BY <1>1, <1>2 DEF MakeStaging, TypeOK, RenderInv, StagingInv, Replacing,
     fileVars, callVars, ghostVars
<1>5. CallInv'
  BY DEF MakeStaging, RenderInv, CallInv, Installing, Replacing, Installed,
     fileVars, callVars, ghostVars
<1>6. WholeInv'
  BY DEF MakeStaging, RenderInv, WholeInv, LiveIsWhole, Replacing, fileVars,
     callVars, ghostVars
<1>7. KeptInv'
  BY DEF MakeStaging, RenderInv, KeptInv, CallInv, fileVars, callVars, ghostVars
<1>8. BeforeInv'
  BY DEF MakeStaging, RenderInv, BeforeInv, Installing, Replacing, fileVars,
     callVars, ghostVars
<1>. QED  BY <1>3, <1>4, <1>5, <1>6, <1>7, <1>8 DEF RenderInv

\* What an earlier call left in certs.new is removed.
LEMMA EmptyStagingKeeps ==
  ASSUME TypeOK, RenderInv, EmptyStaging
  PROVE  TypeOK' /\ RenderInv'
<1>1. staging \in Directory /\ \A n : RemoveFile(staging, n) \in Directory
  <2>1. staging # Absent
    BY DEF EmptyStaging, Names
  <2>. QED  BY <2>1, RemoveFacts DEF TypeOK
<1>2. TypeOK'
  BY <1>1 DEF TypeOK, EmptyStaging, Steps, fileVars, callVars, ghostVars
<1>3. StagingInv'
  BY DEF EmptyStaging, TypeOK, RenderInv, StagingInv, Replacing, fileVars,
     callVars, ghostVars
<1>4. CallInv'
  BY DEF EmptyStaging, RenderInv, CallInv, Installing, Replacing, Installed,
     fileVars, callVars, ghostVars
<1>5. WholeInv'
  BY DEF EmptyStaging, RenderInv, WholeInv, LiveIsWhole, Replacing, fileVars,
     callVars, ghostVars
<1>6. KeptInv'
  BY DEF EmptyStaging, RenderInv, KeptInv, CallInv, fileVars, callVars,
     ghostVars
<1>7. BeforeInv'
  BY DEF EmptyStaging, RenderInv, BeforeInv, Installing, Replacing, fileVars,
     callVars, ghostVars
<1>. QED  BY <1>2, <1>3, <1>4, <1>5, <1>6, <1>7 DEF RenderInv

\* certs.new is empty, so the bundle can be written.
LEMMA StagingEmptiedKeeps ==
  ASSUME TypeOK, RenderInv, StagingEmptied
  PROVE  TypeOK' /\ RenderInv'
<1>1. TypeOK'
  BY DEF TypeOK, StagingEmptied, Steps, fileVars, callVars, ghostVars
<1>2. StagingInv'
  BY DEF StagingEmptied, TypeOK, RenderInv, StagingInv, Replacing, fileVars,
     callVars, ghostVars
<1>3. CallInv'
  BY DEF StagingEmptied, RenderInv, CallInv, Installing, Replacing, Installed,
     fileVars, callVars, ghostVars
<1>4. WholeInv'
  BY DEF StagingEmptied, RenderInv, WholeInv, LiveIsWhole, Replacing, fileVars,
     callVars, ghostVars
<1>5. KeptInv'
  BY DEF StagingEmptied, RenderInv, KeptInv, CallInv, fileVars, callVars,
     ghostVars
<1>6. BeforeInv'
  BY DEF StagingEmptied, RenderInv, BeforeInv, Installing, Replacing, fileVars,
     callVars, ghostVars
<1>. QED  BY <1>1, <1>2, <1>3, <1>4, <1>5, <1>6 DEF RenderInv

\* The bundle is written as a temporary.
LEMMA WriteBundleKeeps ==
  ASSUME TypeOK, RenderInv, WriteBundle
  PROVE  TypeOK' /\ RenderInv'
<1>1. staging \in Directory /\ Names(staging) = {}
  BY DEF WriteBundle, TypeOK, RenderInv, StagingInv
<1>2. staging' \in Directory /\ staging' # Absent /\ Names(staging') = {TempName}
  BY <1>1, TempFacts DEF WriteBundle, TypeOK
<1>3. TypeOK'
  BY <1>2 DEF TypeOK, WriteBundle, Steps, fileVars, callVars, ghostVars
<1>4. StagingInv'
  BY <1>2 DEF WriteBundle, TypeOK, RenderInv, StagingInv, Replacing, fileVars,
     callVars, ghostVars
<1>5. CallInv'
  BY DEF WriteBundle, RenderInv, CallInv, Installing, Replacing, Installed,
     fileVars, callVars, ghostVars
<1>6. WholeInv'
  BY DEF WriteBundle, RenderInv, WholeInv, LiveIsWhole, Replacing, fileVars,
     callVars, ghostVars
<1>7. KeptInv'
  BY DEF WriteBundle, RenderInv, KeptInv, CallInv, fileVars, callVars, ghostVars
<1>8. BeforeInv'
  BY DEF WriteBundle, RenderInv, BeforeInv, Installing, Replacing, fileVars,
     callVars, ghostVars
<1>. QED  BY <1>3, <1>4, <1>5, <1>6, <1>7, <1>8 DEF RenderInv

\* The bundle takes its name, with every hashed file still to be written.
LEMMA InstallBundleKeeps ==
  ASSUME TypeOK, RenderInv, InstallBundle
  PROVE  TypeOK' /\ RenderInv'
<1>1. staging \in Directory /\ Names(staging) = {TempName}
  BY DEF InstallBundle, TypeOK, RenderInv, StagingInv
<1>2. /\ staging' \in Directory /\ Names(staging') = {BundleName}
      /\ Partial(staging', roots, {})
  BY <1>1, BundleFacts DEF InstallBundle, TypeOK
<1>3. /\ Partial(staging', roots', roots' \ todo')
      /\ TempName \notin Names(staging')
  <2>1. roots' \ todo' = {}
    BY DEF InstallBundle
  <2>. QED  BY <1>2, <2>1, NamesDiffer DEF InstallBundle
<1>4. TypeOK'
  BY <1>2 DEF TypeOK, InstallBundle, Steps, fileVars, callVars, ghostVars
<1>5. StagingInv'
  BY <1>3 DEF InstallBundle, TypeOK, RenderInv, StagingInv, Replacing, fileVars,
     callVars, ghostVars
<1>6. CallInv'
  BY DEF InstallBundle, RenderInv, CallInv, Installing, Replacing, Installed,
     fileVars, callVars, ghostVars
<1>7. WholeInv'
  BY DEF InstallBundle, RenderInv, WholeInv, LiveIsWhole, Replacing, fileVars,
     callVars, ghostVars
<1>8. KeptInv'
  BY DEF InstallBundle, RenderInv, KeptInv, CallInv, fileVars, callVars,
     ghostVars
<1>9. BeforeInv'
  BY DEF InstallBundle, RenderInv, BeforeInv, Installing, Replacing, fileVars,
     callVars, ghostVars
<1>. QED  BY <1>4, <1>5, <1>6, <1>7, <1>8, <1>9 DEF RenderInv

\* A hashed file is written as a temporary.
LEMMA WriteHashedKeeps ==
  ASSUME TypeOK, RenderInv, WriteHashed
  PROVE  TypeOK' /\ RenderInv'
<1>1. /\ staging \in Directory /\ roots \in SUBSET Fingerprints
      /\ Partial(staging, roots, roots \ todo)
  BY DEF WriteHashed, TypeOK, RenderInv, StagingInv, Partial
<1>2. NextRoot \in todo /\ {NextRoot} \in SUBSET Fingerprints
  BY NextRootIsLeft, RenderAssumption DEF WriteHashed, TypeOK
<1>3. staging' \in Directory /\ Partial(staging', roots, roots \ todo)
  BY <1>1, <1>2, TempFacts DEF WriteHashed
<1>4. TypeOK'
  BY <1>3 DEF TypeOK, WriteHashed, Steps, fileVars, callVars, ghostVars
<1>5. StagingInv'
  BY <1>3 DEF WriteHashed, TypeOK, RenderInv, StagingInv, Replacing, fileVars,
     callVars, ghostVars
<1>6. CallInv'
  BY DEF WriteHashed, RenderInv, CallInv, Installing, Replacing, Installed,
     fileVars, callVars, ghostVars
<1>7. WholeInv'
  BY DEF WriteHashed, RenderInv, WholeInv, LiveIsWhole, Replacing, fileVars,
     callVars, ghostVars
<1>8. KeptInv'
  BY DEF WriteHashed, RenderInv, KeptInv, CallInv, fileVars, callVars, ghostVars
<1>9. BeforeInv'
  BY DEF WriteHashed, RenderInv, BeforeInv, Installing, Replacing, fileVars,
     callVars, ghostVars
<1>. QED  BY <1>4, <1>5, <1>6, <1>7, <1>8, <1>9 DEF RenderInv

\* A hashed file takes the next number of its hash.
LEMMA InstallHashedKeeps ==
  ASSUME TypeOK, RenderInv, InstallHashed
  PROVE  TypeOK' /\ RenderInv'
<1>1. /\ staging \in Directory /\ roots \in SUBSET Fingerprints
      /\ todo \subseteq roots /\ Partial(staging, roots, roots \ todo)
  BY DEF InstallHashed, TypeOK, RenderInv, StagingInv, Partial
<1>2. NextRoot \in todo /\ NextRoot \in Fingerprints \ (roots \ todo)
  BY <1>1, NextRootIsLeft, RenderAssumption DEF InstallHashed, RenderInv,
     StagingInv
<1>3. /\ staging' \in Directory /\ TempName \notin Names(staging')
      /\ Partial(staging', roots, (roots \ todo) \cup {NextRoot})
  <2>1. roots \ todo \in SUBSET Fingerprints
    BY <1>1
  <2>. QED  BY <1>1, <1>2, <2>1, HashedFacts DEF InstallHashed, Sequence
<1>4. (roots \ todo) \cup {NextRoot} = roots' \ todo' /\ roots' = roots
  BY <1>1, <1>2 DEF InstallHashed
<1>5. TypeOK'
  BY <1>3 DEF TypeOK, InstallHashed, Steps, fileVars, callVars, ghostVars
<1>6. StagingInv'
  BY <1>3, <1>4 DEF InstallHashed, TypeOK, RenderInv, StagingInv, Replacing,
     fileVars, callVars, ghostVars
<1>7. CallInv'
  BY DEF InstallHashed, RenderInv, CallInv, Installing, Replacing, Installed,
     fileVars, callVars, ghostVars
<1>8. WholeInv'
  BY DEF InstallHashed, RenderInv, WholeInv, LiveIsWhole, Replacing, fileVars,
     callVars, ghostVars
<1>9. KeptInv'
  BY DEF InstallHashed, RenderInv, KeptInv, CallInv, fileVars, callVars,
     ghostVars
<1>10. BeforeInv'
  BY DEF InstallHashed, RenderInv, BeforeInv, Installing, Replacing, fileVars,
     callVars, ghostVars
<1>. QED  BY <1>5, <1>6, <1>7, <1>8, <1>9, <1>10 DEF RenderInv

\* There is no certs/: certs.new, which is complete, becomes it.
LEMMA InstallFirstKeeps ==
  ASSUME TypeOK, RenderInv, InstallFirst
  PROVE  TypeOK' /\ RenderInv'
<1>1. /\ staging \in Directory /\ roots \in SUBSET Fingerprints
      /\ Complete(staging, roots)
  <2>1. roots \ todo = roots
    BY DEF InstallFirst
  <2>. QED  BY <2>1, WrittenIsComplete DEF InstallFirst, TypeOK, RenderInv,
               StagingInv, Partial
<1>2. staging # Absent /\ Whole(staging)
  BY <1>1, CompleteFacts, DirectoryFacts
<1>3. TypeOK'
  BY DEF TypeOK, InstallFirst, Steps, fileVars, callVars, ghostVars
<1>4. StagingInv'
  BY DEF InstallFirst, TypeOK, RenderInv, StagingInv, Replacing, fileVars,
     callVars, ghostVars
<1>5. CallInv'
  BY <1>1, <1>2 DEF InstallFirst, RenderInv, CallInv, Installing, Replacing,
     Installed, fileVars, callVars, ghostVars
<1>6. WholeInv'
  BY <1>2 DEF InstallFirst, RenderInv, WholeInv, LiveIsWhole, Replacing,
     fileVars, callVars, ghostVars
<1>7. KeptInv'
  BY <1>2 DEF InstallFirst, RenderInv, KeptInv, CallInv, fileVars, callVars,
     ghostVars
<1>8. BeforeInv'
  BY DEF InstallFirst, RenderInv, BeforeInv, Installing, Replacing, fileVars,
     callVars, ghostVars
<1>. QED  BY <1>3, <1>4, <1>5, <1>6, <1>7, <1>8 DEF RenderInv

\* certs.new is complete when renameat2 is tried.
LEMMA ExchangeKeeps ==
  ASSUME TypeOK, RenderInv, Exchange
  PROVE  TypeOK' /\ RenderInv'
<1>1. /\ staging \in Directory /\ roots \in SUBSET Fingerprints
      /\ Complete(staging, roots)
  <2>1. roots \ todo = roots
    BY DEF Exchange
  <2>. QED  BY <2>1, WrittenIsComplete DEF Exchange, TypeOK, RenderInv,
               StagingInv, Partial
<1>2. staging # Absent /\ Whole(staging)
  BY <1>1, CompleteFacts, DirectoryFacts
<1>3. TypeOK'
  BY DEF TypeOK, Exchange, Steps, fileVars, callVars, ghostVars
<1>4. StagingInv'
  BY <1>1, <1>2 DEF Exchange, TypeOK, RenderInv, StagingInv, Replacing,
     fileVars, callVars, ghostVars
<1>5. CallInv'
  BY <1>1, <1>2 DEF Exchange, RenderInv, CallInv, Installing, Replacing,
     Installed, fileVars, callVars, ghostVars
<1>6. WholeInv'
  BY <1>2 DEF Exchange, RenderInv, WholeInv, LiveIsWhole, Replacing, fileVars,
     callVars, ghostVars
<1>7. KeptInv'
  <2>1. \/ live' = staging
        \/ UNCHANGED <<live, previous, holding, blank>>
    BY DEF Exchange, ghostVars
  <2>2. CASE live' = staging
    BY <1>2, <2>2 DEF KeptInv
  <2>3. CASE UNCHANGED <<live, previous, holding, blank>>
    BY <2>3 DEF RenderInv, KeptInv
  <2>. QED  BY <2>1, <2>2, <2>3
<1>8. BeforeInv'
  BY DEF Exchange, RenderInv, BeforeInv, Installing, Replacing, fileVars,
     callVars, ghostVars
<1>. QED  BY <1>3, <1>4, <1>5, <1>6, <1>7, <1>8 DEF RenderInv

\* The directory that was live is deleted.
LEMMA DiscardStagingKeeps ==
  ASSUME TypeOK, RenderInv, DiscardStaging
  PROVE  TypeOK' /\ RenderInv'
<1>1. staging # Absent => \A n : RemoveFile(staging, n) \in Directory
  BY RemoveFacts DEF TypeOK
<1>2. TypeOK'
  BY <1>1 DEF TypeOK, DiscardStaging, Steps, Names, fileVars, callVars,
     ghostVars
<1>3. StagingInv'
  BY DEF DiscardStaging, TypeOK, RenderInv, StagingInv, Replacing, fileVars,
     callVars, ghostVars
<1>4. CallInv'
  BY DEF DiscardStaging, RenderInv, CallInv, Installing, Replacing, Installed,
     fileVars, callVars, ghostVars
<1>5. WholeInv'
  BY DEF DiscardStaging, RenderInv, WholeInv, LiveIsWhole, Replacing, fileVars,
     callVars, ghostVars
<1>6. KeptInv'
  BY DEF DiscardStaging, RenderInv, KeptInv, CallInv, fileVars, callVars,
     ghostVars
<1>7. BeforeInv'
  BY DEF DiscardStaging, RenderInv, BeforeInv, Installing, Replacing, fileVars,
     callVars, ghostVars
<1>. QED  BY <1>2, <1>3, <1>4, <1>5, <1>6, <1>7 DEF RenderInv

\* What an earlier fallback left is deleted; certs/ is in place.
LEMMA ClearPreviousKeeps ==
  ASSUME TypeOK, RenderInv, ClearPrevious
  PROVE  TypeOK' /\ RenderInv'
<1>1. previous # Absent => \A n : RemoveFile(previous, n) \in Directory
  BY RemoveFacts DEF TypeOK
<1>2. TypeOK'
  BY <1>1 DEF TypeOK, ClearPrevious, Steps, Names, fileVars, callVars, ghostVars
<1>3. StagingInv'
  BY DEF ClearPrevious, TypeOK, RenderInv, StagingInv, Replacing, fileVars,
     callVars, ghostVars
<1>4. CallInv'
  BY DEF ClearPrevious, RenderInv, CallInv, Installing, Replacing, Installed,
     fileVars, callVars, ghostVars
<1>5. WholeInv'
  BY DEF ClearPrevious, RenderInv, WholeInv, LiveIsWhole, Replacing, fileVars,
     callVars, ghostVars
<1>6. KeptInv'
  BY DEF ClearPrevious, RenderInv, KeptInv, CallInv, fileVars, callVars,
     ghostVars
<1>7. BeforeInv'
  BY DEF ClearPrevious, RenderInv, BeforeInv, Installing, Replacing, fileVars,
     callVars, ghostVars
<1>. QED  BY <1>2, <1>3, <1>4, <1>5, <1>6, <1>7 DEF RenderInv

\* The old store is where it was set aside.
LEMMA SetAsideKeeps ==
  ASSUME TypeOK, RenderInv, SetAside
  PROVE  TypeOK' /\ RenderInv'
<1>1. TypeOK'
  BY DEF TypeOK, SetAside, Steps, fileVars, callVars, ghostVars
<1>2. StagingInv'
  BY DEF SetAside, TypeOK, RenderInv, StagingInv, Replacing, fileVars, callVars,
     ghostVars
<1>3. CallInv'
  BY DEF SetAside, RenderInv, CallInv, Installing, Replacing, Installed,
     fileVars, callVars, ghostVars
<1>4. WholeInv'
  BY DEF SetAside, RenderInv, WholeInv, LiveIsWhole, Replacing, CallInv,
     fileVars, callVars, ghostVars
<1>5. KeptInv'
  BY DEF SetAside, RenderInv, KeptInv, CallInv, fileVars, callVars, ghostVars
<1>6. BeforeInv'
  BY DEF SetAside, RenderInv, BeforeInv, Installing, Replacing, fileVars,
     callVars, ghostVars
<1>. QED  BY <1>1, <1>2, <1>3, <1>4, <1>5, <1>6 DEF RenderInv

\* Either the new store is in place, or the old one has to be put back.
LEMMA InstallStagingKeeps ==
  ASSUME TypeOK, RenderInv, InstallStaging
  PROVE  TypeOK' /\ RenderInv'
<1>1. /\ staging \in Directory /\ roots \in SUBSET Fingerprints
      /\ Complete(staging, roots)
  BY DEF InstallStaging, TypeOK, RenderInv, StagingInv, Replacing
<1>2. staging # Absent /\ Whole(staging)
  BY <1>1, CompleteFacts, DirectoryFacts
<1>3. TypeOK'
  BY DEF TypeOK, InstallStaging, Steps, fileVars, callVars, ghostVars
<1>4. StagingInv'
  BY DEF InstallStaging, TypeOK, RenderInv, StagingInv, Replacing, fileVars,
     callVars, ghostVars
<1>5. CallInv'
  BY <1>1, <1>2 DEF InstallStaging, RenderInv, CallInv, Installing, Replacing,
     Installed, fileVars, callVars, ghostVars
<1>6. WholeInv'
  BY <1>2 DEF InstallStaging, RenderInv, WholeInv, LiveIsWhole, Replacing,
     fileVars, callVars, ghostVars
<1>7. KeptInv'
  BY <1>2 DEF InstallStaging, RenderInv, KeptInv, CallInv, fileVars, callVars,
     ghostVars
<1>8. BeforeInv'
  BY DEF InstallStaging, RenderInv, BeforeInv, Installing, Replacing, fileVars,
     callVars, ghostVars
<1>. QED  BY <1>3, <1>4, <1>5, <1>6, <1>7, <1>8 DEF RenderInv

\* The old store is put back.
LEMMA RestoreKeeps ==
  ASSUME TypeOK, RenderInv, Restore
  PROVE  TypeOK' /\ RenderInv'
<1>1. TypeOK'
  BY DEF TypeOK, Restore, Steps, fileVars, callVars, ghostVars
<1>2. StagingInv'
  BY DEF Restore, TypeOK, RenderInv, StagingInv, Replacing, fileVars, callVars,
     ghostVars
<1>3. CallInv'
  BY DEF Restore, RenderInv, CallInv, Installing, Replacing, Installed,
     fileVars, callVars, ghostVars
<1>4. WholeInv'
  BY DEF Restore, RenderInv, WholeInv, LiveIsWhole, Replacing, fileVars,
     callVars, ghostVars
<1>5. KeptInv'
  BY DEF Restore, RenderInv, KeptInv, CallInv, Replacing, fileVars, callVars,
     ghostVars
<1>6. BeforeInv'
  BY DEF Restore, RenderInv, BeforeInv, Installing, Replacing, fileVars,
     callVars, ghostVars
<1>. QED  BY <1>1, <1>2, <1>3, <1>4, <1>5, <1>6 DEF RenderInv

\* The old store is deleted; the new one is live.
LEMMA DiscardPreviousKeeps ==
  ASSUME TypeOK, RenderInv, DiscardPrevious
  PROVE  TypeOK' /\ RenderInv'
<1>1. previous # Absent => \A n : RemoveFile(previous, n) \in Directory
  BY RemoveFacts DEF TypeOK
<1>2. live # Absent /\ Whole(live)
  BY CompleteFacts DEF DiscardPrevious, TypeOK, RenderInv, CallInv, Installed
<1>3. TypeOK'
  BY <1>1 DEF TypeOK, DiscardPrevious, Steps, Names, fileVars, callVars,
     ghostVars
<1>4. StagingInv'
  BY DEF DiscardPrevious, TypeOK, RenderInv, StagingInv, Replacing, fileVars,
     callVars, ghostVars
<1>5. CallInv'
  BY DEF DiscardPrevious, RenderInv, CallInv, Installing, Replacing, Installed,
     fileVars, callVars, ghostVars
<1>6. WholeInv'
  BY DEF DiscardPrevious, RenderInv, WholeInv, LiveIsWhole, Replacing, fileVars,
     callVars, ghostVars
<1>7. KeptInv'
  BY <1>2 DEF DiscardPrevious, RenderInv, KeptInv, CallInv, fileVars, callVars,
     ghostVars
<1>8. BeforeInv'
  BY DEF DiscardPrevious, RenderInv, BeforeInv, Installing, Replacing, fileVars,
     callVars, ghostVars
<1>. QED  BY <1>3, <1>4, <1>5, <1>6, <1>7, <1>8 DEF RenderInv

\* cert.pem follows the directory.
LEMMA WritePemKeeps ==
  ASSUME TypeOK, RenderInv, WritePem
  PROVE  TypeOK' /\ RenderInv'
<1>1. TypeOK'
  BY DEF TypeOK, WritePem, Steps, fileVars, callVars, ghostVars
<1>2. StagingInv'
  BY DEF WritePem, TypeOK, RenderInv, StagingInv, Replacing, fileVars, callVars,
     ghostVars
<1>3. CallInv'
  BY DEF WritePem, RenderInv, CallInv, Installing, Replacing, Installed,
     fileVars, callVars, ghostVars
<1>4. WholeInv'
  BY DEF WritePem, RenderInv, WholeInv, LiveIsWhole, Replacing, fileVars,
     callVars, ghostVars
<1>5. KeptInv'
  BY DEF WritePem, RenderInv, KeptInv, CallInv, fileVars, callVars, ghostVars
<1>6. BeforeInv'
  BY DEF WritePem, RenderInv, BeforeInv, Installing, Replacing, fileVars,
     callVars, ghostVars
<1>. QED  BY <1>1, <1>2, <1>3, <1>4, <1>5, <1>6 DEF RenderInv

\* An operation fails: nothing that readers see is touched.
LEMMA FailKeeps ==
  ASSUME TypeOK, RenderInv, Fail
  PROVE  TypeOK' /\ RenderInv'
<1>1. staging # Absent => RemoveFile(staging, TempName) \in Directory
  BY RemoveFacts DEF TypeOK
<1>2. TypeOK'
  BY <1>1 DEF TypeOK, Fail, Steps, fileVars, callVars, ghostVars
<1>3. StagingInv'
  BY DEF Fail, TypeOK, RenderInv, StagingInv, Replacing, fileVars, callVars,
     ghostVars
<1>4. CallInv'
  BY DEF Fail, RenderInv, CallInv, Installing, Replacing, Installed, fileVars,
     callVars, ghostVars
<1>5. WholeInv'
  BY DEF Fail, RenderInv, WholeInv, LiveIsWhole, Replacing, fileVars, callVars,
     ghostVars
<1>6. KeptInv'
  BY DEF Fail, RenderInv, KeptInv, CallInv, fileVars, callVars, ghostVars
<1>7. BeforeInv'
  BY DEF Fail, RenderInv, BeforeInv, Installing, Replacing, fileVars, callVars,
     ghostVars
<1>. QED  BY <1>2, <1>3, <1>4, <1>5, <1>6, <1>7 DEF RenderInv

\* The caller takes the result.
LEMMA ReturnKeeps ==
  ASSUME TypeOK, RenderInv, Return
  PROVE  TypeOK' /\ RenderInv'
<1>1. TypeOK'
  BY DEF TypeOK, Return, Steps, fileVars, callVars, ghostVars
<1>2. StagingInv'
  BY DEF Return, TypeOK, RenderInv, StagingInv, Replacing, fileVars, callVars,
     ghostVars
<1>3. CallInv'
  BY DEF Return, RenderInv, CallInv, Installing, Replacing, Installed, fileVars,
     callVars, ghostVars
<1>4. WholeInv'
  BY DEF Return, RenderInv, WholeInv, LiveIsWhole, Replacing, fileVars,
     callVars, ghostVars
<1>5. KeptInv'
  BY DEF Return, RenderInv, KeptInv, CallInv, fileVars, callVars, ghostVars
<1>6. BeforeInv'
  BY DEF Return, RenderInv, BeforeInv, Installing, Replacing, fileVars,
     callVars, ghostVars
<1>. QED  BY <1>1, <1>2, <1>3, <1>4, <1>5, <1>6 DEF RenderInv

\* The process dies.
LEMMA StopKeeps ==
  ASSUME TypeOK, RenderInv, Stop
  PROVE  TypeOK' /\ RenderInv'
<1>1. TypeOK'
  BY DEF TypeOK, Stop, Steps, fileVars, callVars, ghostVars
<1>2. StagingInv'
  BY DEF Stop, TypeOK, RenderInv, StagingInv, Replacing, fileVars, callVars,
     ghostVars
<1>3. CallInv'
  BY DEF Stop, RenderInv, CallInv, Installing, Replacing, Installed, fileVars,
     callVars, ghostVars
<1>4. WholeInv'
  BY DEF Stop, RenderInv, WholeInv, LiveIsWhole, Replacing, fileVars, callVars,
     ghostVars
<1>5. KeptInv'
  BY DEF Stop, RenderInv, KeptInv, CallInv, fileVars, callVars, ghostVars
<1>6. BeforeInv'
  BY DEF Stop, RenderInv, BeforeInv, Installing, Replacing, fileVars, callVars,
     ghostVars
<1>. QED  BY <1>1, <1>2, <1>3, <1>4, <1>5, <1>6 DEF RenderInv

\* The hook makes the directories that are missing.
LEMMA PrepareKeeps ==
  ASSUME TypeOK, RenderInv, Prepare
  PROVE  TypeOK' /\ RenderInv'
<1>1. EmptyDir(TRUE) \in Directory /\ Names(EmptyDir(TRUE)) = {}
  BY EmptyFacts
<1>2. TypeOK'
  BY <1>1 DEF TypeOK, Prepare, Steps, fileVars, callVars, ghostVars
<1>3. StagingInv'
  BY DEF Prepare, TypeOK, RenderInv, StagingInv, Replacing, fileVars, callVars,
     ghostVars
<1>4. CallInv'
  BY DEF Prepare, RenderInv, CallInv, Installing, Replacing, Installed,
     fileVars, callVars, ghostVars
<1>5. WholeInv'
  BY <1>1 DEF Prepare, RenderInv, WholeInv, LiveIsWhole, Replacing, fileVars,
     callVars, ghostVars
<1>6. KeptInv'
  BY DEF Prepare, RenderInv, KeptInv, CallInv, fileVars, callVars, ghostVars
<1>7. BeforeInv'
  BY DEF Prepare, RenderInv, BeforeInv, Installing, Replacing, fileVars,
     callVars, ghostVars
<1>. QED  BY <1>2, <1>3, <1>4, <1>5, <1>6, <1>7 DEF RenderInv

\* The store as the package leaves it.
LEMMA InitKeeps == Init => TypeOK /\ RenderInv
<1>1. SUFFICES ASSUME Init PROVE TypeOK /\ RenderInv
  OBVIOUS
<1>2. EmptyDir(TRUE) \in Directory /\ Names(EmptyDir(TRUE)) = {}
  BY EmptyFacts
<1>3. TypeOK
  BY <1>1, <1>2 DEF Init, TypeOK, Steps
<1>4. RenderInv
  BY <1>1, <1>2 DEF Init, RenderInv, StagingInv, CallInv, WholeInv, LiveIsWhole,
     KeptInv, BeforeInv, Installing, Replacing, Installed
<1>. QED  BY <1>3, <1>4

\* Every step keeps the invariant.
LEMMA NextKeeps == TypeOK /\ RenderInv /\ [Next]_vars => TypeOK' /\ RenderInv'
<1>1. SUFFICES ASSUME TypeOK, RenderInv, [Next]_vars
               PROVE  TypeOK' /\ RenderInv'
  OBVIOUS
<1>2. CASE UNCHANGED vars
  <2>1. TypeOK'
    BY <1>1, <1>2 DEF TypeOK, vars, fileVars, callVars, ghostVars
  <2>2. StagingInv' /\ CallInv'
    BY <1>1, <1>2 DEF RenderInv, StagingInv, CallInv, vars, fileVars, callVars,
       ghostVars
  <2>3. WholeInv' /\ KeptInv' /\ BeforeInv'
    BY <1>1, <1>2 DEF RenderInv, WholeInv, LiveIsWhole, KeptInv, BeforeInv,
       vars,
       fileVars, callVars, ghostVars
  <2>. QED  BY <2>1, <2>2, <2>3 DEF RenderInv
<1>3. CASE Next
  BY <1>1, <1>3, CallKeeps, RemovePemKeeps, EmptyLiveKeeps, LiveEmptiedKeeps,
     MakeStagingKeeps, EmptyStagingKeeps, StagingEmptiedKeeps, WriteBundleKeeps,
     InstallBundleKeeps, WriteHashedKeeps, InstallHashedKeeps, InstallFirstKeeps,
     ExchangeKeeps, DiscardStagingKeeps, ClearPreviousKeeps, SetAsideKeeps,
     InstallStagingKeeps, RestoreKeeps, DiscardPreviousKeeps, WritePemKeeps,
     FailKeeps, ReturnKeeps, StopKeeps, PrepareKeeps
  DEF Next
<1>. QED  BY <1>1, <1>2, <1>3

\* Every reachable state satisfies the invariant: at each file operation of
\* render.rs certs, certs.new and certs.previous hold what the operation
\* relies on.
THEOREM RenderInvariant == Spec => [](TypeOK /\ RenderInv)
<1>. QED  BY InitKeeps, NextKeeps, PTL DEF Spec

\* Every directory holds files with store names, whatever the hashes: the
\* number of a hash never runs past the certificates there are.
THEOREM TypeCorrect == Spec => []TypeOK
<1>. QED  BY RenderInvariant, PTL

\* "neither path mixes the contents of the old set and the new": for every
\* set of certificates, certs/ holding anything is one whole store.
THEOREM LiveAlwaysWhole == Spec => []LiveIsWhole
<1>1. TypeOK /\ RenderInv => LiveIsWhole
  BY DEF RenderInv, WholeInv
<1>. QED  BY <1>1, RenderInvariant, PTL

\* "retaining the old directory until the replacement is in place": whatever
\* fails, an installed store is on disk whole, live or set aside.
THEOREM FailuresLoseNoStore == Spec => []StoreSurvivesFailures
<1>1. TypeOK /\ RenderInv => StoreSurvivesFailures
  BY DEF RenderInv, KeptInv, StoreSurvivesFailures, OldStoreSurvives
<1>. QED  BY <1>1, RenderInvariant, PTL

\* What readers find in a directory the call has finished with.
LEMMA DoneFacts ==
  ASSUME TypeOK, RenderInv
  PROVE  /\ step = "done" /\ compat = "None" =>
              Visible(live) \in {Absent, {}} /\ certPem = Absent
         /\ step = "done" /\ compat # "None" =>
              Visible(live) = roots /\ certPem = roots
         /\ step \in Installed => Visible(live) = roots
<1>1. ASSUME Names(live) = {}
      PROVE  Visible(live) \in {Absent, {}}
  BY <1>1 DEF Visible
<1>2. ASSUME live # Absent, Complete(live, roots)
      PROVE  Visible(live) = roots
  BY <1>2, CompleteFacts DEF TypeOK
<1>. QED  BY <1>1, <1>2 DEF RenderInv, CallInv

\* Success means rendered: the directory and cert.pem both show exactly the
\* roots asked for, or in mode None nothing.
THEOREM SuccessIsRendered == Spec => []DoneIsRendered
<1>1. TypeOK /\ RenderInv => DoneIsRendered
  <2>1. SUFFICES ASSUME TypeOK, RenderInv, step = "done"
                 PROVE  Store!Renders([certs |-> Visible(live), pem |-> certPem],
                                      compat, roots)
    BY DEF DoneIsRendered
  <2>. QED  BY <2>1, DoneFacts DEF Store!Renders
<1>. QED  BY <1>1, RenderInvariant, PTL

-----------------------------------------------------------------------------
(***************************************************************************)
(* Refinement: each file operation is a step of CompatStore, or one that   *)
(* no reader sees.                                                         *)
(***************************************************************************)

\* A directory shows a set, which is not Absent; no directory shows Absent.
LEMMA VisibleFacts ==
  /\ Visible(Absent) = Absent
  /\ \A d \in Directory : Visible(d) # Absent
<1>1. Visible(Absent) = Absent
  BY DEF Visible
<1>2. ASSUME NEW d \in Directory
      PROVE  Visible(d) # Absent
  BY DirectoryFacts, AbsentAssumption
<1>. QED  BY <1>1, <1>2

\* Each operation is the step of CompatStore a reader could see, or none.
LEMMA StoreStep ==
  ASSUME TypeOK, RenderInv, TypeOK', RenderInv', Next
  PROVE  Store!StoreNext \/ UNCHANGED Store!storeVars
<1>1. CASE Call
  BY <1>1 DEF Call, fileVars, Store!StoreNext, Store!Begin, Store!Compats
<1>2. CASE RemovePem
  BY <1>2 DEF RemovePem, callVars, Store!StoreNext, Store!RenderStep,
     Store!RemovePem
<1>3. CASE EmptyLive
  <2>1. PICK n \in Names(live) : live' = RemoveFile(live, n)
    BY <1>3 DEF EmptyLive
  <2>2. live \in Directory
    BY <2>1 DEF Names, TypeOK
  <2>3. Visible(live) # Absent /\ Visible(live') \in SUBSET Visible(live)
    BY <2>1, <2>2, RemoveFacts, VisibleFacts
  <2>4. Store!Shrink
    <3>1. [certs |-> Visible(live), pem |-> certPem]' =
             [[certs |-> Visible(live), pem |-> certPem]
                 EXCEPT !.certs = Visible(live')]
      BY <1>3 DEF EmptyLive
    <3>. QED  BY <1>3, <2>3, <3>1 DEF EmptyLive, callVars, Store!Shrink
  <2>. QED  BY <2>4 DEF Store!StoreNext, Store!RenderStep
<1>4. CASE LiveEmptied
  <2>1. Visible(live) \in {Absent, {}}
    BY <1>4 DEF LiveEmptied, Visible
  <2>2. Store!Emptied
    BY <1>4, <2>1 DEF LiveEmptied, fileVars, callVars, Store!Emptied
  <2>. QED  BY <2>2 DEF Store!StoreNext, Store!RenderStep
<1>5. CASE MakeStaging \/ EmptyStaging \/ StagingEmptied
  BY <1>5 DEF MakeStaging, EmptyStaging, StagingEmptied, fileVars, callVars,
     Store!storeVars
<1>6. CASE WriteBundle \/ InstallBundle \/ WriteHashed \/ InstallHashed
  BY <1>6 DEF WriteBundle, InstallBundle, WriteHashed, InstallHashed, callVars,
     Store!storeVars
<1>7. ASSUME step' \in Installed
      PROVE  Visible(live') = roots'
  <2>1. /\ live' \in Directory /\ roots' \in SUBSET Fingerprints
        /\ Complete(live', roots')
    BY <1>7 DEF TypeOK, RenderInv, CallInv
  <2>. QED  BY <2>1, CompleteFacts
<1>8. CASE InstallFirst
  <2>1. Visible(live') = roots
    BY <1>7, <1>8 DEF InstallFirst, Installed, callVars
  <2>2. Store!Install
    BY <1>8, <2>1 DEF InstallFirst, callVars, Store!Install
  <2>. QED  BY <2>2 DEF Store!StoreNext, Store!RenderStep
<1>9. CASE Exchange
  <2>1. CASE step' = "discard_staging"
    <3>1. Visible(live') = roots
      BY <1>7, <1>9, <2>1 DEF Exchange, Installed, callVars
    <3>2. Store!Install
      BY <1>9, <2>1, <3>1 DEF Exchange, callVars, Store!Install
    <3>. QED  BY <3>2 DEF Store!StoreNext, Store!RenderStep
  <2>2. CASE step' = "clear_previous"
    BY <1>9, <2>2 DEF Exchange, callVars, Store!storeVars
  <2>3. CASE step' = "failed"
    <3>1. Store!Fail
      BY <1>9, <2>3 DEF Exchange, callVars, Store!Fail, Store!Working
    <3>. QED  BY <3>1 DEF Store!StoreNext
  <2>. QED  BY <1>9, <2>1, <2>2, <2>3 DEF Exchange
<1>10. CASE DiscardStaging \/ ClearPrevious \/ DiscardPrevious
  BY <1>10 DEF DiscardStaging, ClearPrevious, DiscardPrevious, callVars,
     Store!storeVars
<1>11. CASE SetAside
  <2>1. Visible(live) # Absent /\ Visible(live') = Absent
    BY <1>11, VisibleFacts DEF SetAside, TypeOK, RenderInv, CallInv
  <2>2. Store!SetAside
    BY <1>11, <2>1 DEF SetAside, callVars, Store!SetAside
  <2>. QED  BY <2>2 DEF Store!StoreNext, Store!RenderStep
<1>12. CASE InstallStaging
  <2>1. CASE step' = "discard_previous"
    <3>1. Visible(live') = roots
      BY <1>7, <1>12, <2>1 DEF InstallStaging, Installed, callVars
    <3>2. Store!Install
      BY <1>12, <2>1, <3>1 DEF InstallStaging, callVars, Store!Install
    <3>. QED  BY <3>2 DEF Store!StoreNext, Store!RenderStep
  <2>2. CASE step' = "restore"
    BY <1>12, <2>2 DEF InstallStaging, callVars, Store!storeVars
  <2>. QED  BY <1>12, <2>1, <2>2 DEF InstallStaging
<1>13. CASE Restore
  <2>1. Visible(live) = Absent /\ Visible(live') = before
    BY <1>13, VisibleFacts DEF Restore, RenderInv, CallInv, BeforeInv, Replacing
  <2>2. Store!Restore
    BY <1>13, <2>1 DEF Restore, callVars, Store!Restore
  <2>. QED  BY <2>2 DEF Store!StoreNext
<1>14. CASE WritePem
  BY <1>14 DEF WritePem, callVars, Store!StoreNext, Store!RenderStep,
     Store!WritePem
<1>15. CASE Fail
  BY <1>15 DEF Fail, TypeOK, Steps, callVars, Store!StoreNext, Store!Fail,
     Store!Working
<1>16. CASE Return
  BY <1>16 DEF Return, fileVars, callVars, Store!StoreNext, Store!Return
<1>17. CASE Stop
  BY <1>17 DEF Stop, TypeOK, Steps, fileVars, callVars, Store!StoreNext,
     Store!Stop,
     Store!storeVars
<1>18. CASE Prepare
  <2>1. Visible(live') = IF Visible(live) = Absent THEN {} ELSE Visible(live)
    BY <1>18, EmptyFacts, VisibleFacts DEF Prepare, TypeOK
  <2>2. Store!Prepare
    <3>1. [certs |-> Visible(live), pem |-> certPem]' =
             [[certs |-> Visible(live), pem |-> certPem]
                 EXCEPT !.certs = IF @ = Absent THEN {} ELSE @]
      <4>1. CASE Visible(live) = Absent
        <5>1. Visible(live') = {} /\ certPem' = certPem
          BY <1>18, <2>1, <4>1 DEF Prepare
        <5>. QED  BY <4>1, <5>1
      <4>2. CASE Visible(live) # Absent
        BY <1>18, <2>1, <4>2 DEF Prepare
      <4>. QED  BY <4>1, <4>2
    <3>. QED  BY <1>18, <3>1 DEF Prepare, callVars, Store!Prepare
  <2>. QED  BY <2>2 DEF Store!StoreNext
<1>. QED  BY <1>1, <1>2, <1>3, <1>4, <1>5, <1>6, <1>8, <1>9, <1>10, <1>11,
             <1>12,
             <1>13, <1>14, <1>15, <1>16, <1>17, <1>18 DEF Next

\* The file operations of render.rs implement the store readers are promised,
\* for every set of certificates and every answer of renameat2.
THEOREM RenderImplementsStore == Spec => ImplementsStore
<1>1. Init => Store!StoreInit
  BY EmptyFacts DEF Init, Store!StoreInit
<1>2. TypeOK /\ RenderInv /\ (TypeOK /\ RenderInv)' /\ [Next]_vars
        => [Store!StoreNext]_(Store!storeVars)
  <2>1. CASE UNCHANGED vars
    BY <2>1 DEF vars, fileVars, callVars, Store!storeVars
  <2>. QED  BY <2>1, StoreStep
<1>. QED  BY <1>1, <1>2, RenderInvariant, PTL DEF Spec, ImplementsStore,
             Store!StoreSpec
=============================================================================
