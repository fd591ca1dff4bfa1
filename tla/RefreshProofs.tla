--------------------------- MODULE RefreshProofs ---------------------------
(***************************************************************************)
(* Theorems about module Refresh, for every set of certificates, every     *)
(* choice of bundles and registry values, every set of faults and every    *)
(* bound.                                                                  *)
(***************************************************************************)
EXTENDS Refresh, TLAPS

(***************************************************************************)
(* The values the daemon handles.                                          *)
(***************************************************************************)

\* The default configuration is a configuration.
LEMMA DefaultIsConfig == DefaultConfig \in Config
<1>1. NoAdditions \in [{} -> Purposes]
  BY DEF NoAdditions
<1>2. NoAdditions \in Additions
  BY <1>1 DEF Additions
<1>. QED  BY <1>2 DEF DefaultConfig, Config, Compats

\* Additions map certificates to purposes.
LEMMA AdditionsTyped ==
  ASSUME NEW a \in Additions
  PROVE  DOMAIN a \subseteq Fingerprints /\ \A f \in DOMAIN a : a[f] \in Purposes
<1>1. PICK S \in SUBSET Fingerprints : a \in [S -> Purposes]
  BY DEF Additions
<1>. QED  BY <1>1

\* Composition yields entries.
LEMMA RootsTyped ==
  ASSUME NEW shp \in SUBSET Fingerprints, NEW a \in Additions, NEW d, NEW x
  PROVE  Roots(shp, a, d, x) \subseteq Entry
<1>1. DOMAIN a \subseteq Fingerprints /\ \A f \in DOMAIN a : a[f] \in Purposes
  BY AdditionsTyped
<1>. QED  BY <1>1 DEF Roots, Entry, Sources, Purposes, ServerAuth

\* Entries have fingerprints, and the compatibility files hold some of them.
LEMMA FingerprintsTyped ==
  ASSUME NEW es \in SUBSET Entry
  PROVE  FingerprintsOf(es) \subseteq Fingerprints /\ FileRoots(es) \subseteq Fingerprints
BY DEF FingerprintsOf, FileRoots, ForPurpose, Entry

\* A step that leaves a group of variables alone keeps its type.
LEMMA UnchangedTyped ==
  /\ OutsideTypeOK /\ UNCHANGED outsideVars => OutsideTypeOK'
  /\ InputTypeOK /\ UNCHANGED inputVars => InputTypeOK'
  /\ StateTypeOK /\ UNCHANGED stateVars => StateTypeOK'
  /\ LocalTypeOK /\ UNCHANGED localVars => LocalTypeOK'
  /\ GhostTypeOK /\ UNCHANGED ghostVars => GhostTypeOK'
  /\ StoreTypeOK /\ UNCHANGED storeVars => StoreTypeOK'
<1>1. OutsideTypeOK /\ UNCHANGED outsideVars => OutsideTypeOK'
  BY DEF OutsideTypeOK, outsideVars
<1>2. InputTypeOK /\ UNCHANGED inputVars => InputTypeOK'
  BY DEF InputTypeOK, inputVars
<1>3. StateTypeOK /\ UNCHANGED stateVars => StateTypeOK'
  BY DEF StateTypeOK, stateVars
<1>4. LocalTypeOK /\ UNCHANGED localVars => LocalTypeOK'
  BY DEF LocalTypeOK, localVars
<1>5. GhostTypeOK /\ UNCHANGED ghostVars => GhostTypeOK'
  BY DEF GhostTypeOK, ghostVars
<1>6. StoreTypeOK /\ UNCHANGED storeVars => StoreTypeOK'
  BY DEF StoreTypeOK, storeVars
<1>. QED  BY <1>1, <1>2, <1>3, <1>4, <1>5, <1>6

\* The steps of the compatibility store keep its type.
LEMMA StoreStepTyped ==
  ASSUME StoreTypeOK, StoreNext
  PROVE  StoreTypeOK'
<1>. USE DEF StoreTypeOK, Phases, Working
<1>1. ASSUME NEW c \in Compats, NEW r \in SUBSET Fingerprints, Begin(c, r)
      PROVE  StoreTypeOK'
  <2>1. disk.certs \in Content
    BY DEF Disk
  <2>. QED  BY <1>1, <2>1 DEF Begin, Job
<1>2. CASE RemovePem
  BY <1>2 DEF RemovePem, Disk, Content
<1>3. CASE Shrink
  <2>1. PICK rest \in SUBSET disk.certs : disk' = [disk EXCEPT !.certs = rest]
    BY <1>3 DEF Shrink
  <2>2. disk.certs \in SUBSET Fingerprints
    BY <1>3 DEF Shrink, Disk, Content
  <2>3. rest \in Content
    BY <2>1, <2>2 DEF Content
  <2>. QED  BY <1>3, <2>1, <2>3 DEF Shrink, Disk
<1>4. CASE Emptied
  BY <1>4 DEF Emptied
<1>5. CASE Install
  BY <1>5 DEF Install, Disk, Content, Job
<1>6. CASE SetAside
  BY <1>6 DEF SetAside, Disk, Content
<1>7. CASE Restore
  BY <1>7 DEF Restore, Disk, Job
<1>8. CASE WritePem
  BY <1>8 DEF WritePem, Disk, Content, Job
<1>9. CASE Fail \/ Return \/ Stop
  BY <1>9 DEF Fail, Return, Stop
<1>10. CASE Prepare
  BY <1>10 DEF Prepare, Disk, Content
<1>. QED  BY <1>1, <1>2, <1>3, <1>4, <1>5, <1>6, <1>7, <1>8, <1>9, <1>10
          DEF StoreNext, RenderStep

-----------------------------------------------------------------------------
(***************************************************************************)
(* Type correctness.                                                       *)
(***************************************************************************)

\* The state before the first start has its type.
LEMMA InitTyped == Init => TypeOK
<1>. SUFFICES ASSUME Init PROVE TypeOK
  OBVIOUS
<1>1. OutsideTypeOK
  <2>1. PICK b \in Bundles :
          bundle = [stamp |-> 1, blocks |-> b.blocks, roots |-> b.roots]
    BY DEF Init
  <2>2. bundle \in Bundle
    BY <2>1, RefreshAssumption DEF Bundle
  <2>3. registry \in Config
    BY DefaultIsConfig DEF Init
  <2>4. expired \subseteq Fingerprints
    BY DEF Init
  <2>. QED  BY <2>2, <2>3, <2>4 DEF OutsideTypeOK
<1>2. InputTypeOK
  BY DEF Init, InputTypeOK
<1>7. events \in 0..MaxEvents
  <2>1. events = 0 /\ MaxEvents \in Nat
    BY RefreshAssumption DEF Init
  <2>. QED  BY <2>1
<1>3. StateTypeOK
  BY DefaultIsConfig DEF Init, StateTypeOK
<1>4. LocalTypeOK
  BY DefaultIsConfig DEF Init, LocalTypeOK, Places, Bundle, NoBundle
<1>5. GhostTypeOK
  BY DEF Init, GhostTypeOK, Consumer, NoConsumer
<1>6. StoreTypeOK
  BY DEF Init, StoreInit, StoreTypeOK, Disk, Content, Job, Compats, Phases
<1>. QED  BY <1>1, <1>2, <1>3, <1>4, <1>5, <1>6, <1>7 DEF TypeOK

\* What the outside does keeps types.
LEMMA OutsideTyped ==
  ASSUME TypeOK, Outside
  PROVE  TypeOK'
<1>. USE UnchangedTyped
<1>e. ASSUME Event PROVE events' \in 0..MaxEvents
  BY <1>e, RefreshAssumption DEF Event, TypeOK
<1>1. CASE WriteRegistry
  <2>1. registry' \in Config
    BY <1>1, RefreshAssumption DEF WriteRegistry, TypeOK, OutsideTypeOK, Config
  <2>2. OutsideTypeOK' /\ InputTypeOK' /\ GhostTypeOK'
    BY <1>1, <2>1 DEF WriteRegistry, TypeOK, OutsideTypeOK, InputTypeOK, GhostTypeOK
  <2>. QED  BY <1>1, <1>e, <2>2 DEF WriteRegistry, TypeOK
<1>2. CASE ReplaceBundle
  <2>1. bundle' \in Bundle
    BY <1>2, RefreshAssumption
    DEF ReplaceBundle, TypeOK, OutsideTypeOK, Bundle, NoBundle
  <2>2. OutsideTypeOK' /\ GhostTypeOK'
    BY <1>2, <2>1 DEF ReplaceBundle, TypeOK, OutsideTypeOK, GhostTypeOK
  <2>. QED  BY <1>2, <1>e, <2>2 DEF ReplaceBundle, TypeOK
<1>3. CASE Expire
  <2>1. OutsideTypeOK' /\ GhostTypeOK'
    BY <1>3, RefreshAssumption DEF Expire, TypeOK, OutsideTypeOK, GhostTypeOK
  <2>. QED  BY <1>3, <1>e, <2>1 DEF Expire, TypeOK
<1>4. CASE Hup
  <2>1. InputTypeOK'
    BY <1>4 DEF Hup, TypeOK, InputTypeOK
  <2>. QED  BY <1>4, <1>e, <2>1 DEF Hup, TypeOK
<1>5. CASE Ask
  <2>1. InputTypeOK'
    BY <1>5 DEF Ask, TypeOK, InputTypeOK
  <2>. QED  BY <1>5, <1>e, <2>1 DEF Ask, TypeOK
<1>6. CASE BreakWatch
  <2>1. InputTypeOK' /\ GhostTypeOK'
    BY <1>6 DEF BreakWatch, TypeOK, InputTypeOK, GhostTypeOK
  <2>. QED  BY <1>6, <1>e, <2>1 DEF BreakWatch, TypeOK
<1>. QED  BY <1>1, <1>2, <1>3, <1>4, <1>5, <1>6 DEF Outside

\* The loop's own steps, loading and reading keep types.
LEMMA LoopTyped ==
  ASSUME TypeOK,
         \/ Boot \/ Poll \/ HandleReload \/ Serve \/ ClientsDone \/ Drain
         \/ Check \/ Resume \/ Crash
  PROVE  TypeOK'
<1>. USE UnchangedTyped
<1>. USE DEF TypeOK, InputTypeOK, LocalTypeOK, GhostTypeOK, Call, Places,
             Loading, Resting
<1>1. CASE Boot
  <2>1. StoreTypeOK'
    BY <1>1, StoreStepTyped DEF Boot, StoreNext
  <2>. QED  BY <1>1, <2>1 DEF Boot
<1>2. CASE Poll
  BY <1>2 DEF Poll, inputVars
<1>3. CASE HandleReload
  BY <1>3 DEF HandleReload
<1>4. CASE Serve
  <2>1. consumer' \in Consumer
    BY <1>4 DEF Serve, Consumer, StateTypeOK
  <2>. QED  BY <1>4, <2>1 DEF Serve, inputVars, localVars
<1>5. CASE ClientsDone
  BY <1>5 DEF ClientsDone, inputVars
<1>6. CASE Drain
  BY <1>6 DEF Drain
<1>7. CASE Check
  BY <1>7 DEF Check, inputVars
<1>8. CASE Resume
  BY <1>8 DEF Resume, inputVars
<1>9. CASE Crash
  <2>1. events' \in 0..MaxEvents
    BY <1>9, RefreshAssumption DEF Crash, Event
  <2>2. StateTypeOK'
    BY <1>9, DefaultIsConfig DEF Crash, FreshState, StateTypeOK
  <2>3. StoreTypeOK'
    BY <1>9 DEF Crash, StoreTypeOK, Phases
  <2>4. InputTypeOK' /\ LocalTypeOK'
    BY <1>9, DefaultIsConfig DEF Crash, Bundle, NoBundle
  <2>5. GhostTypeOK'
    BY <1>9 DEF Crash, FreshState, Consumer
  <2>. QED  BY <1>9, <2>1, <2>2, <2>3, <2>4, <2>5 DEF Crash
<1>. QED  BY <1>1, <1>2, <1>3, <1>4, <1>5, <1>6, <1>7, <1>8, <1>9

\* Loading, composing, rendering and publishing keep types.
LEMMA RefreshTyped ==
  ASSUME TypeOK,
         \/ LoadRoot \/ LoadAdd \/ LoadDistrust \/ LoadFails \/ Start \/ Adopt
         \/ Read \/ ReadFails \/ ComposeFails \/ Accept \/ Rendering
         \/ Rendered \/ Publish
  PROVE  TypeOK'
<1>. USE UnchangedTyped
<1>. USE DEF TypeOK, LocalTypeOK, GhostTypeOK, Places, Loading
<1>e. ASSUME Event PROVE events' \in 0..MaxEvents
  BY <1>e, RefreshAssumption DEF Event
<1>1. CASE LoadRoot
  <2>1. fresh' \in Config
    BY <1>1, DefaultIsConfig DEF LoadRoot, Config, OutsideTypeOK
  <2>. QED  BY <1>1, <2>1 DEF LoadRoot
<1>2. CASE LoadAdd
  <2>1. fresh' \in Config
    BY <1>2 DEF LoadAdd, Config, OutsideTypeOK
  <2>. QED  BY <1>2, <2>1 DEF LoadAdd, ghostVars
<1>3. CASE LoadDistrust
  <2>1. fresh' \in Config
    BY <1>3 DEF LoadDistrust, Config, OutsideTypeOK
  <2>. QED  BY <1>3, <2>1 DEF LoadDistrust, ghostVars
<1>4. CASE LoadFails
  <2>1. InputTypeOK' /\ StateTypeOK' /\ LocalTypeOK'
    BY <1>4, DefaultIsConfig
    DEF LoadFails, Degrade, InputTypeOK, StateTypeOK, inputVars
  <2>. QED  BY <1>4, <1>e, <2>1 DEF LoadFails, ghostVars
<1>5. CASE Start
  <2>1. StateTypeOK'
    BY <1>5 DEF Start, FreshState, StateTypeOK, Config
  <2>2. LocalTypeOK' /\ GhostTypeOK'
    BY <1>5, DefaultIsConfig DEF Start, Call, FreshState
  <2>. QED  BY <1>5, <2>1, <2>2 DEF Start
<1>6. CASE Adopt
  <2>1. StateTypeOK'
    BY <1>6 DEF Adopt, StateTypeOK, OutsideTypeOK, Config, Bundle
  <2>2. LocalTypeOK' /\ GhostTypeOK'
    BY <1>6, DefaultIsConfig DEF Adopt
  <2>. QED  BY <1>6, <2>1, <2>2 DEF Adopt
<1>7. CASE Read
  BY <1>7 DEF Read, OutsideTypeOK, ghostVars, outsideVars
<1>8. CASE ReadFails
  <2>1. StateTypeOK' /\ LocalTypeOK'
    BY <1>8 DEF ReadFails, Degrade, StateTypeOK
  <2>. QED  BY <1>8, <1>e, <2>1 DEF ReadFails, ghostVars
<1>9. CASE ComposeFails
  <2>1. StateTypeOK' /\ LocalTypeOK'
    BY <1>9 DEF ComposeFails, Degrade, StateTypeOK, Bundle, NoBundle
  <2>. QED  BY <1>9, <2>1 DEF ComposeFails, ghostVars
<1>10. CASE Accept
  <2>1. NewRoots \subseteq Entry
    <3>1. shipped.roots \in SUBSET Fingerprints /\ config.add \in Additions
      BY DEF Bundle, StateTypeOK, Config
    <3>. QED  BY <3>1, RootsTyped DEF NewRoots
  <2>2. /\ FingerprintsOf(NewRoots) \subseteq Fingerprints
        /\ FingerprintsOf(composed) \subseteq Fingerprints
        /\ FileRoots(NewRoots) \subseteq Fingerprints
    BY <2>1, FingerprintsTyped DEF StateTypeOK
  <2>3. ledger' \subseteq Fingerprints
    BY <1>10, <2>2 DEF Accept, Record, Replay, Changes
  <2>4. StateTypeOK'
    BY <1>10, <2>1 DEF Accept, NextGeneration, StateTypeOK
  <2>5. LocalTypeOK' /\ GhostTypeOK'
    BY <1>10, <2>3 DEF Accept, Bundle, NoBundle
  <2>6. StoreTypeOK'
    <3>1. config.compat \in Compats
      BY DEF StateTypeOK, Config
    <3>2. CASE UNCHANGED storeVars
      BY <3>2
    <3>3. CASE Begin(config.compat, FileRoots(NewRoots))
      BY <3>3, <3>1, <2>2, StoreStepTyped DEF StoreNext
    <3>. QED  BY <1>10, <3>2, <3>3 DEF Accept
  <2>. QED  BY <1>10, <2>4, <2>5, <2>6 DEF Accept
<1>11. CASE Rendering
  <2>1. StoreTypeOK'
    BY <1>11, StoreStepTyped DEF Rendering, StoreNext, RenderStep
  <2>. QED  BY <1>11, <1>e, <2>1 DEF Rendering
<1>12. CASE Rendered
  <2>1. StoreTypeOK'
    BY <1>12, StoreStepTyped DEF Rendered, StoreNext
  <2>2. StateTypeOK' /\ LocalTypeOK'
    BY <1>12 DEF Rendered, StateTypeOK
  <2>. QED  BY <1>12, <2>1, <2>2 DEF Rendered, ghostVars
<1>13. CASE Publish
  <2>1. consumer' \in Consumer
    BY <1>13 DEF Publish, Consumer, StateTypeOK
  <2>2. LocalTypeOK' /\ GhostTypeOK'
    BY <1>13, <2>1 DEF Publish
  <2>. QED  BY <1>13, <1>e, <2>2 DEF Publish
<1>. QED  BY <1>1, <1>2, <1>3, <1>4, <1>5, <1>6, <1>7, <1>8, <1>9, <1>10,
             <1>11, <1>12, <1>13

\* Every value the daemon holds has its type in every reachable state, for
\* every choice of certificates, bundles, registry values and faults.
THEOREM TypeCorrect == Spec => []TypeOK
<1>1. TypeOK /\ [Next]_vars => TypeOK'
  <2>. SUFFICES ASSUME TypeOK, [Next]_vars PROVE TypeOK'
    OBVIOUS
  <2>1. CASE UNCHANGED vars
    BY <2>1, UnchangedTyped DEF vars, TypeOK
  <2>2. CASE Next
    BY <2>2, OutsideTyped, LoopTyped, RefreshTyped DEF Next, Daemon
  <2>. QED  BY <2>1, <2>2
<1>. QED  BY <1>1, InitTyped, PTL DEF Spec

-----------------------------------------------------------------------------
(***************************************************************************)
(* Health and the files.  HealthyStoreIsRendered speaks of the moments     *)
(* between refreshes; the invariant that carries it says how far a render  *)
(* call has come, and when the files are known to be current although a    *)
(* refresh is under way.                                                   *)
(***************************************************************************)

\* A render call runs only within refresh, on the set and the mode in force.
RenderCall ==
    /\ pc # "render" => phase = "idle"
    /\ pc = "render" =>
         /\ phase # "idle" /\ composedOnce /\ health = "Ok"
         /\ job.compat = config.compat /\ job.roots = FileRoots(composed)

\* What each phase of it has achieved.
RenderProgress ==
    /\ phase \in {"remove_pem", "empty_certs"} => job.compat = "None"
    /\ phase \in {"install", "write_pem"} => job.compat # "None"
    /\ phase = "empty_certs" => disk.pem = Absent
    /\ phase = "write_pem" => disk.certs = job.roots
    /\ phase = "done" => Renders(disk, job.compat, job.roots)

\* compose refuses an empty set, so an empty composition means none yet;
\* none is made before the state is built; "changed" lives within a refresh.
Memory ==
    /\ composedOnce <=> composed # {}
    /\ pc = "off" \/ (pc \in Loading /\ caller = "boot") => ~composedOnce
    /\ pc \in Loading \cup Resting \cup {"off"} => ~changed
    /\ pc \in Resting \cup {"publish", "return"} /\ health = "Ok" => composedOnce

\* The files are current whenever health is Ok, except while a changed
\* configuration or a new set is on its way to them.
FilesCurrent ==
    /\ composedOnce /\ health = "Ok" /\ pc # "render"
    /\ ~changed \/ pc \in {"publish", "return"}
    => Renders(disk, config.compat, FileRoots(composed))

HealthInv == TypeOK /\ RenderCall /\ RenderProgress /\ Memory /\ FilesCurrent

\* Before the first start nothing is composed, rendered or called healthy.
LEMMA InitHealth == Init => HealthInv
BY InitTyped DEF Init, StoreInit, HealthInv, RenderCall, RenderProgress, Memory,
                 FilesCurrent, Loading, Resting

\* Steps that touch neither the files nor the daemon's own state.
LEMMA BystanderHealth ==
  ASSUME HealthInv, UNCHANGED <<stateVars, pc, caller, changed, storeVars>>
  PROVE  RenderCall' /\ RenderProgress' /\ Memory' /\ FilesCurrent'
BY DEF HealthInv, RenderCall, RenderProgress, Memory, FilesCurrent, stateVars,
       storeVars

\* The loop's steps render nothing and change no root.
LEMMA LoopHealth ==
  ASSUME HealthInv,
         \/ Boot \/ Poll \/ HandleReload \/ ClientsDone \/ Drain \/ Check
         \/ Resume \/ Crash
  PROVE  RenderCall' /\ RenderProgress' /\ Memory' /\ FilesCurrent'
<1>. USE DEF HealthInv, RenderCall, RenderProgress, Memory, FilesCurrent,
             Loading, Resting, stateVars, storeVars, Call
<1>1. CASE Boot
  <2>1. phase = "idle" /\ ~composedOnce /\ ~changed
    BY <1>1 DEF Boot
  <2>. QED  BY <1>1, <2>1 DEF Boot, Prepare
<1>2. CASE Poll
  BY <1>2 DEF Poll
<1>3. CASE HandleReload
  BY <1>3 DEF HandleReload
<1>4. CASE ClientsDone
  BY <1>4 DEF ClientsDone
<1>5. CASE Drain
  BY <1>5 DEF Drain
<1>6. CASE Check
  BY <1>6 DEF Check
<1>7. CASE Resume
  BY <1>7 DEF Resume
<1>8. CASE Crash
  BY <1>8 DEF Crash, FreshState
<1>. QED  BY <1>1, <1>2, <1>3, <1>4, <1>5, <1>6, <1>7, <1>8

\* Loading and reading: the configuration is taken, or health is lost.
LEMMA LoadHealth ==
  ASSUME HealthInv,
         \/ LoadRoot \/ LoadAdd \/ LoadDistrust \/ LoadFails \/ Start \/ Adopt
         \/ Read \/ ReadFails \/ ComposeFails
  PROVE  RenderCall' /\ RenderProgress' /\ Memory' /\ FilesCurrent'
<1>. USE DEF HealthInv, RenderCall, RenderProgress, Memory, FilesCurrent,
             Loading, Resting, stateVars, storeVars, Call, Degrade
<1>1. CASE LoadRoot
  BY <1>1 DEF LoadRoot
<1>2. CASE LoadAdd
  BY <1>2 DEF LoadAdd
<1>3. CASE LoadDistrust
  BY <1>3 DEF LoadDistrust
<1>4. CASE LoadFails
  BY <1>4 DEF LoadFails
<1>5. CASE Start
  BY <1>5 DEF Start, FreshState
<1>6. CASE Adopt
  BY <1>6 DEF Adopt
<1>7. CASE Read
  BY <1>7 DEF Read
<1>8. CASE ReadFails
  BY <1>8 DEF ReadFails
<1>9. CASE ComposeFails
  BY <1>9 DEF ComposeFails
<1>. QED  BY <1>1, <1>2, <1>3, <1>4, <1>5, <1>6, <1>7, <1>8, <1>9

\* A composition either changes nothing, and the files are current by what
\* was known before, or starts a render call.
LEMMA AcceptHealth ==
  ASSUME HealthInv, Accept
  PROVE  RenderCall' /\ RenderProgress' /\ Memory' /\ FilesCurrent'
<1>1. NewRoots # {} /\ composed' = NewRoots /\ composedOnce' /\ health' = "Ok"
  BY DEF Accept, Composes
<1>2. phase = "idle"
  BY DEF HealthInv, RenderCall, Accept
<1>3. Memory'
  BY <1>1 DEF Accept, Memory, Loading, Resting
<1>4. CASE Unchanged /\ ~changed
  <2>1. composed = NewRoots /\ health = "Ok" /\ composedOnce
    BY <1>1, <1>4 DEF Unchanged, HealthInv, Memory
  <2>2. Renders(disk, config.compat, FileRoots(composed))
    BY <2>1, <1>4 DEF HealthInv, FilesCurrent, Accept
  <2>3. /\ UNCHANGED <<disk, phase, job, config, changed>> /\ composed' = composed
        /\ pc' = "return"
    BY <1>1, <1>4, <2>1 DEF Accept, storeVars
  <2>. QED  BY <1>2, <1>3, <2>2, <2>3
            DEF HealthInv, RenderCall, RenderProgress, FilesCurrent
<1>5. CASE ~(Unchanged /\ ~changed)
  <2>1. Begin(config.compat, FileRoots(NewRoots)) /\ pc' = "render"
    BY <1>5 DEF Accept
  <2>2. RenderCall'
    BY <1>1, <2>1 DEF RenderCall, Begin, Accept
  <2>3. RenderProgress'
    BY <2>1 DEF RenderProgress, Begin
  <2>. QED  BY <1>3, <2>1, <2>2, <2>3 DEF FilesCurrent
<1>. QED  BY <1>4, <1>5

\* The render call makes the files current, or health is lost.
LEMMA RenderHealth ==
  ASSUME HealthInv, Rendering \/ Rendered \/ Publish
  PROVE  RenderCall' /\ RenderProgress' /\ Memory' /\ FilesCurrent'
<1>1. CASE Rendering
  <2>1. pc = "render" /\ UNCHANGED <<stateVars, localVars>>
    BY <1>1 DEF Rendering
  <2>2. Memory' /\ FilesCurrent'
    BY <2>1 DEF HealthInv, Memory, FilesCurrent, stateVars, localVars
  <2>3. phase' # "idle" /\ job' = job
    BY <1>1 DEF Rendering, RemovePem, Shrink, Emptied, Install, WritePem,
                SetAside, Fail, Restore
  <2>4. RenderCall'
    BY <2>1, <2>3 DEF HealthInv, RenderCall, stateVars, localVars
  <2>5. RenderProgress'
    <3>. USE DEF HealthInv, RenderProgress
    <3>t. disk \in Disk /\ job \in Job
      BY DEF TypeOK, StoreTypeOK
    <3>1. CASE RemovePem
      BY <3>1, <3>t DEF RemovePem, Disk
    <3>2. CASE Shrink
      BY <3>2, <3>t DEF Shrink, Disk
    <3>3. CASE Emptied
      BY <3>3 DEF Emptied, Renders
    <3>4. CASE Install
      BY <3>4, <3>t DEF Install, Disk
    <3>5. CASE WritePem
      BY <3>5, <3>t DEF WritePem, Disk, Renders
    <3>6. CASE SetAside
      BY <3>6 DEF SetAside
    <3>7. CASE Fail \/ Restore
      BY <3>7 DEF Fail, Restore
    <3>. QED  BY <1>1, <3>1, <3>2, <3>3, <3>4, <3>5, <3>6, <3>7 DEF Rendering
  <2>. QED  BY <2>2, <2>4, <2>5
<1>2. CASE Rendered
  <2>1. /\ phase \in {"done", "failed"} /\ phase' = "idle" /\ UNCHANGED <<disk, job>>
        /\ pc = "render" /\ pc' = "publish"
        /\ UNCHANGED <<config, composed, composedOnce, changed>>
        /\ health' = IF phase = "failed" THEN "Degraded" ELSE health
    BY <1>2 DEF Rendered, Return
  <2>2. RenderCall' /\ RenderProgress' /\ Memory'
    BY <2>1 DEF HealthInv, RenderCall, RenderProgress, Memory, Loading, Resting
  <2>3. FilesCurrent'
    BY <2>1 DEF HealthInv, RenderCall, RenderProgress, FilesCurrent
  <2>. QED  BY <2>2, <2>3
<1>3. CASE Publish
  BY <1>3 DEF Publish, HealthInv, RenderCall, RenderProgress, Memory,
              FilesCurrent, stateVars, storeVars, Loading, Resting
<1>. QED  BY <1>1, <1>2, <1>3

\* The invariant is inductive.
LEMMA HealthInductive == HealthInv /\ [Next]_vars => HealthInv'
<1>. SUFFICES ASSUME HealthInv, [Next]_vars PROVE HealthInv'
  OBVIOUS
<1>1. TypeOK'
  <2>1. CASE UNCHANGED vars
    BY <2>1, UnchangedTyped DEF vars, TypeOK, HealthInv
  <2>2. CASE Next
    BY <2>2, OutsideTyped, LoopTyped, RefreshTyped DEF Next, Daemon, HealthInv
  <2>. QED  BY <2>1, <2>2
<1>2. RenderCall' /\ RenderProgress' /\ Memory' /\ FilesCurrent'
  <2>1. CASE UNCHANGED vars
    BY <2>1, BystanderHealth DEF vars, localVars
  <2>2. CASE Outside \/ Serve
    <3>1. UNCHANGED <<stateVars, pc, caller, changed, storeVars>>
      BY <2>2 DEF Outside, WriteRegistry, ReplaceBundle, Expire, Hup, Ask,
                  BreakWatch, Serve, localVars
    <3>. QED  BY <3>1, BystanderHealth
  <2>3. CASE Daemon \/ Crash
    BY <2>3, LoopHealth, LoadHealth, AcceptHealth, RenderHealth DEF Daemon
  <2>. QED  BY <2>1, <2>2, <2>3 DEF Next
<1>. QED  BY <1>1, <1>2 DEF HealthInv

\* What a render call writes, what the daemon remembers and what is on disk
\* keep fitting together in every reachable state.
THEOREM HealthInvariant == Spec => []HealthInv
BY InitHealth, HealthInductive, PTL DEF Spec

\* Status never reports ok over files that are not the rendering of the
\* served set in the configured mode: not after a failed load, read,
\* composition or render, nor after a restart.
THEOREM HealthyMeansRendered == Spec => []HealthyStoreIsRendered
<1>1. HealthInv => HealthyStoreIsRendered
  BY DEF HealthInv, Memory, FilesCurrent, HealthyStoreIsRendered, Resting
<1>. QED  BY <1>1, HealthInvariant, PTL

-----------------------------------------------------------------------------
(***************************************************************************)
(* The root events.                                                        *)
(***************************************************************************)

\* Replaying the changes between two sets of entries turns the fingerprints
\* of the one into those of the other.
LEMMA ReplayChanges ==
  ASSUME NEW old, NEW new, NEW distrust
  PROVE  Replay(FingerprintsOf(old), Changes(old, new, distrust)) = FingerprintsOf(new)
<1>. DEFINE before == FingerprintsOf(old)
            after == FingerprintsOf(new)
            ch == Changes(old, new, distrust)
<1>. DEFINE came == {[change |-> "Added", fp |-> f] : f \in after \ before}
            left == {[change |-> IF f \in distrust THEN "Distrusted" ELSE "Removed",
                      fp |-> f] : f \in before \ after}
<1>4. ch = came \cup left
  BY DEF Changes
<1>5. \A c \in came : c.change = "Added" /\ c.fp \in after \ before
  OBVIOUS
<1>6. \A c \in left : c.change # "Added" /\ c.fp \in before \ after
  OBVIOUS
<1>7. ASSUME NEW f \in after \ before
      PROVE  \E c \in came : c.fp = f
  <2>1. [change |-> "Added", fp |-> f] \in came
    OBVIOUS
  <2>. QED  BY <2>1
<1>8. ASSUME NEW f \in before \ after
      PROVE  \E c \in left : c.fp = f
  <2>1. [change |-> IF f \in distrust THEN "Distrusted" ELSE "Removed",
         fp |-> f] \in left
    OBVIOUS
  <2>. QED  BY <2>1
<1>. HIDE DEF came, left, before, after, ch
<1>1. {c.fp : c \in {d \in ch : d.change = "Added"}} = after \ before
  BY <1>4, <1>5, <1>6, <1>7
<1>2. {c.fp : c \in {d \in ch : d.change # "Added"}} = before \ after
  BY <1>4, <1>5, <1>6, <1>8
<1>3. (before \cup (after \ before)) \ (before \ after) = after
  OBVIOUS
<1>. QED  BY <1>1, <1>2, <1>3 DEF Replay, before, after, ch

\* Each change of the served set is recorded exactly once: the events,
\* replayed from the first composition, give the served set.
THEOREM EventsAreComplete == Spec => []EventsReplay
<1>1. Init => EventsReplay
  BY DEF Init, EventsReplay
<1>2. EventsReplay /\ [Next]_vars => EventsReplay'
  <2>. SUFFICES ASSUME EventsReplay, [Next]_vars PROVE EventsReplay'
    OBVIOUS
  <2>1. CASE Accept
    BY <2>1, ReplayChanges DEF Accept, Record, EventsReplay
  <2>2. CASE Start \/ Crash
    BY <2>2 DEF Start, Crash, FreshState, EventsReplay
  <2>3. CASE ~(Accept \/ Start \/ Crash)
    <3>1. UNCHANGED <<composedOnce, composed, ledger>>
      BY <2>3 DEF Next, Outside, Daemon, vars, stateVars, ghostVars,
           WriteRegistry, ReplaceBundle, Expire, Hup, Ask, BreakWatch, Boot,
           Poll, HandleReload, ClientsDone, Drain, Check, Resume, LoadRoot,
           LoadAdd, LoadDistrust, LoadFails, Adopt, Read, ReadFails,
           ComposeFails, Rendering, Rendered, Publish, Serve
    <3>. QED  BY <3>1 DEF EventsReplay
  <2>. QED  BY <2>1, <2>2, <2>3
<1>. QED  BY <1>1, <1>2, PTL DEF Spec

-----------------------------------------------------------------------------
(***************************************************************************)
(* Clients: what a snapshot a client holds says about the served set.      *)
(***************************************************************************)

\* A subscriber held by the daemon has the served set, but for the time
\* between a new composition and its publication; a snapshot of this process
\* is of an earlier generation or is the served set.
ClientInv ==
    /\ pc = "off" \/ (pc \in Loading /\ caller = "boot") =>
         ~consumer.live /\ ~consumer.current
    /\ consumer.live /\ pc \notin {"render", "publish"} =>
         consumer.generation = generation /\ consumer.roots = composed
    /\ consumer.current =>
         /\ consumer.generation <= generation
         /\ consumer.generation = generation => consumer.roots = composed

\* Serving, publishing, composing and dying keep what a client knows in step.
LEMMA ClientInductive ==
  ASSUME TypeOK, ClientInv, [Next]_vars
  PROVE  ClientInv'
<1>t. generation \in Nat /\ consumer \in Consumer
  BY DEF TypeOK, StateTypeOK, GhostTypeOK
<1>. USE DEF ClientInv, Loading
<1>1. CASE Serve
  BY <1>1, <1>t DEF Serve, localVars, stateVars
<1>2. CASE Publish
  <2>1. UNCHANGED <<generation, composed>> /\ pc' = "return" /\ pc = "publish"
    BY <1>2 DEF Publish, stateVars
  <2>2. CASE UNCHANGED consumer /\ ~consumer.live
    BY <2>1, <2>2
  <2>3. CASE consumer' = [consumer EXCEPT !.generation = generation,
                                          !.roots = composed]
    <3>1. consumer'.generation = generation /\ consumer'.roots = composed
      BY <2>3, <1>t DEF Consumer
    <3>. QED  BY <1>t, <2>1, <3>1
  <2>4. CASE consumer' = [consumer EXCEPT !.live = FALSE]
    <3>1. /\ consumer'.live = FALSE /\ consumer'.current = consumer.current
          /\ consumer'.generation = consumer.generation
          /\ consumer'.roots = consumer.roots
      BY <2>4, <1>t DEF Consumer
    <3>. QED  BY <2>1, <3>1
  <2>. QED  BY <1>2, <2>2, <2>3, <2>4 DEF Publish
<1>3. CASE Crash
  <2>1. consumer' = [consumer EXCEPT !.live = FALSE, !.current = FALSE]
    BY <1>3 DEF Crash
  <2>2. consumer'.live = FALSE /\ consumer'.current = FALSE
    BY <2>1, <1>t DEF Consumer
  <2>. QED  BY <2>2
<1>4. CASE Accept
  <2>1. CASE Unchanged /\ ~changed
    <3>1. composed' = composed /\ UNCHANGED <<generation, consumer>> /\ pc' = "return"
      BY <1>4, <2>1 DEF Accept, Unchanged
    <3>. QED  BY <1>4, <3>1 DEF Accept
  <2>2. CASE ~(Unchanged /\ ~changed)
    <3>1. generation' = generation + 1 /\ UNCHANGED consumer /\ pc' = "render"
      BY <1>4, <2>2 DEF Accept, NextGeneration
    <3>2. consumer.current => consumer.generation <= generation' /\ consumer.generation # generation'
      BY <1>t, <3>1 DEF Consumer
    <3>. QED  BY <3>1, <3>2
  <2>. QED  BY <2>1, <2>2
<1>5. CASE Start
  BY <1>5 DEF Start, Call
<1>6. CASE Boot
  BY <1>6 DEF Boot, stateVars, ghostVars
<1>7. CASE LoadRoot \/ LoadAdd \/ LoadDistrust \/ LoadFails \/ Adopt \/ Read
           \/ ReadFails \/ ComposeFails
  BY <1>7 DEF LoadRoot, LoadAdd, LoadDistrust, LoadFails, Adopt, Read, ReadFails,
              ComposeFails, Degrade, stateVars, ghostVars
<1>8. CASE Poll \/ HandleReload \/ ClientsDone \/ Drain \/ Check \/ Resume
           \/ Rendering \/ Rendered
  BY <1>8 DEF Poll, HandleReload, ClientsDone, Drain, Check, Resume, Rendering,
              Rendered, Call, stateVars, ghostVars, localVars
<1>9. CASE Outside \/ UNCHANGED vars
  <2>1. UNCHANGED <<stateVars, localVars, consumer>>
    BY <1>9 DEF Outside, WriteRegistry, ReplaceBundle, Expire, Hup, Ask,
                BreakWatch, vars, ghostVars
  <2>. QED  BY <2>1 DEF stateVars, localVars
<1>. QED  BY <1>1, <1>2, <1>3, <1>4, <1>5, <1>6, <1>7, <1>8, <1>9 DEF Next, Daemon

\* A client's snapshot never names a generation the daemon has not reached,
\* and names the served set when it names the served generation.
THEOREM ClientInvariant == Spec => []ClientInv
<1>1. Init => ClientInv
  BY DEF Init, ClientInv, NoConsumer
<1>2. TypeOK /\ ClientInv /\ [Next]_vars => ClientInv'
  BY ClientInductive
<1>. QED  BY <1>1, <1>2, TypeCorrect, PTL DEF Spec

\* A subscriber the daemon still holds is never left behind.
THEOREM SubscribersAreCurrent == Spec => []SubscriberIsCurrent
<1>1. ClientInv => SubscriberIsCurrent
  BY DEF ClientInv, SubscriberIsCurrent, Resting
<1>. QED  BY <1>1, ClientInvariant, PTL

\* Within one process, an equal generation means an equal set of roots.
THEOREM GenerationsNameRoots == Spec => []GenerationNamesRoots
<1>1. ClientInv => GenerationNamesRoots
  BY DEF ClientInv, GenerationNamesRoots
<1>. QED  BY <1>1, ClientInvariant, PTL

-----------------------------------------------------------------------------
(***************************************************************************)
(* Distrust.  The served set respects the distrust of the configuration in *)
(* force, except from its adoption to the end of the composition, and      *)
(* after a failure, when health says so.                                   *)
(***************************************************************************)

DistrustApplied ==
    health = "Ok" /\ pc \notin {"read", "compose"} =>
        config.distrust \cap FingerprintsOf(composed) = {}

\* compose leaves out what is distrusted, whatever the bundle ships and the
\* registry adds.
LEMMA RootsAvoidDistrust ==
  ASSUME NEW S, NEW add, NEW distrust, NEW gone
  PROVE  distrust \cap FingerprintsOf(Roots(S, add, distrust, gone)) = {}
BY DEF FingerprintsOf, Roots

\* What is rendered is served.
LEMMA FilesAreServed ==
  ASSUME NEW roots
  PROVE  FileRoots(roots) \subseteq FingerprintsOf(roots)
BY DEF FileRoots, ForPurpose, FingerprintsOf

\* Every step keeps it: a composition applies the distrust, a failure takes
\* health away, and nothing else touches the set or the configuration.
LEMMA DistrustInductive ==
  ASSUME DistrustApplied, [Next]_vars
  PROVE  DistrustApplied'
<1>1. CASE Accept
  <2>1. composed' = NewRoots /\ config' = config
    BY <1>1 DEF Accept
  <2>2. config.distrust \cap FingerprintsOf(NewRoots) = {}
    BY RootsAvoidDistrust DEF NewRoots
  <2>. QED  BY <2>1, <2>2 DEF DistrustApplied
<1>2. CASE Start \/ Crash
  <2>1. composed' = {}
    BY <1>2 DEF Start, Crash, FreshState
  <2>. QED  BY <2>1 DEF DistrustApplied, FingerprintsOf
<1>3. CASE Adopt \/ Read
  BY <1>3 DEF Adopt, Read, DistrustApplied
<1>4. CASE ReadFails \/ ComposeFails
  BY <1>4 DEF ReadFails, ComposeFails, Degrade, DistrustApplied
<1>5. CASE LoadRoot \/ LoadAdd \/ LoadDistrust \/ LoadFails
  BY <1>5 DEF LoadRoot, LoadAdd, LoadDistrust, LoadFails, Degrade,
              DistrustApplied, stateVars
<1>6. CASE Boot \/ Poll \/ HandleReload \/ ClientsDone \/ Drain \/ Check
           \/ Resume \/ Serve \/ Publish
  BY <1>6 DEF Boot, Poll, HandleReload, ClientsDone, Drain, Check, Resume, Serve,
              Publish, Call, DistrustApplied, stateVars, localVars
<1>7. CASE Rendering \/ Rendered
  BY <1>7 DEF Rendering, Rendered, DistrustApplied, stateVars, localVars
<1>8. CASE Outside \/ UNCHANGED vars
  <2>1. UNCHANGED <<stateVars, localVars>>
    BY <1>8 DEF Outside, WriteRegistry, ReplaceBundle, Expire, Hup, Ask,
                BreakWatch, vars
  <2>. QED  BY <2>1 DEF stateVars, localVars, DistrustApplied
<1>. QED  BY <1>1, <1>2, <1>3, <1>4, <1>5, <1>6, <1>7, <1>8 DEF Next, Daemon

\* While the daemon rests and reports healthy, a root its configuration
\* distrusts is neither served nor in the files nor with a subscriber: the
\* served set avoids it, and files and subscribers follow the served set.
THEOREM DistrustsTakeHold == Spec => []DistrustTakesHold
<1>1. Init => DistrustApplied
  BY DEF Init, DistrustApplied, FingerprintsOf
<1>2. DistrustApplied /\ [Next]_vars => DistrustApplied'
  BY DistrustInductive
<1>3. DistrustApplied /\ HealthInv /\ ClientInv => DistrustTakesHold
  <2>. SUFFICES ASSUME DistrustApplied, HealthInv, ClientInv,
                       pc \in Resting, health = "Ok"
                PROVE  /\ config.distrust \cap FingerprintsOf(composed) = {}
                       /\ consumer.live => config.distrust \cap FingerprintsOf(consumer.roots) = {}
                       /\ disk.certs # Absent => config.distrust \cap disk.certs = {}
                       /\ disk.pem # Absent => config.distrust \cap disk.pem = {}
    BY DEF DistrustTakesHold
  <2>1. config.distrust \cap FingerprintsOf(composed) = {}
    BY DEF DistrustApplied, Resting
  <2>2. consumer.live => consumer.roots = composed
    BY DEF ClientInv, Resting
  <2>3. Renders(disk, config.compat, FileRoots(composed))
    BY DEF HealthInv, Memory, FilesCurrent, Resting
  <2>4. \/ disk.certs \in {Absent, {}} /\ disk.pem = Absent
        \/ disk.certs = FileRoots(composed) /\ disk.pem = FileRoots(composed)
    BY <2>3 DEF Renders
  <2>5. config.distrust \cap FileRoots(composed) = {}
    BY <2>1, FilesAreServed
  <2>. QED  BY <2>1, <2>2, <2>4, <2>5
<1>. QED  BY <1>1, <1>2, <1>3, HealthInvariant, ClientInvariant, PTL DEF Spec

-----------------------------------------------------------------------------
(***************************************************************************)
(* Lost updates and freshness.  Two excuses for a daemon that does not     *)
(* have the registry as it is: a trace of the change is left, or the       *)
(* change came during the refresh.  Each holds key by key while the load   *)
(* reads, then of the configuration adopted.                               *)
(***************************************************************************)

\* A trace of a registry write, and of a bundle's replacement.
RegistryPending == watch = "event" \/ "registry" \in unseen
BundlePending == bundle.stamp # bundleStamp \/ "bundle" \in unseen

\* The places where the configuration in force was read by this refresh, or
\* by an earlier one that ended well.
Adopted ==
    \/ pc \in {"read", "compose"}
    \/ pc \in Resting \cup {"render", "publish", "return"} /\ health = "Ok"

\* What the load has read so far is what the registry holds, unless excused.
ReadSoFar(excuse) ==
    /\ pc \in {"load_add", "load_distrust", "adopt"} =>
          excuse \/ (fresh.compat = registry.compat /\ fresh.security = registry.security)
    /\ pc \in {"load_distrust", "adopt"} => excuse \/ fresh.add = registry.add
    /\ pc = "adopt" => excuse \/ fresh.distrust = registry.distrust

\* A change of the registry or of the bundle that is not applied has left a
\* trace; expiry alone leaves none, and the set is that of an earlier clock.
PendingInv ==
    /\ ReadSoFar(RegistryPending)
    /\ Adopted => RegistryPending \/ config = registry
    /\ pc = "compose" => BundlePending \/ shipped = bundle
    /\ Adopted /\ pc \notin {"read", "compose"} =>
          \/ BundlePending
          \/ \E ex \in SUBSET expired :
                composed = Roots(bundle.roots, config.add, config.distrust, ex)

\* A refresh during which nothing changed applies what there is; the control
\* object always has the descriptor of the configuration in force.
SteadyInv ==
    /\ control = config.security
    /\ steady => pc \notin Resting
    /\ ReadSoFar(~steady)
    /\ Adopted => ~steady \/ config = registry
    /\ pc = "compose" => ~steady \/ shipped = bundle
    /\ Adopted /\ pc \notin {"read", "compose"} =>
          \/ ~steady
          \/ composed = Roots(bundle.roots, config.add, config.distrust, expired)

\* Two configurations that agree value by value are one.
LEMMA SameConfig ==
  ASSUME NEW a \in Config, NEW b \in Config,
         a.compat = b.compat, a.security = b.security, a.add = b.add,
         a.distrust = b.distrust
  PROVE  a = b
BY DEF Config

\* The steps of the load read one key each.
LEMMA LoadReads ==
  ASSUME TypeOK
  PROVE  /\ LoadRoot => fresh'.compat = registry.compat /\ fresh'.security = registry.security
         /\ LoadAdd => /\ fresh'.compat = fresh.compat /\ fresh'.security = fresh.security
                       /\ fresh'.add = registry.add
         /\ LoadDistrust => /\ fresh'.compat = fresh.compat
                            /\ fresh'.security = fresh.security
                            /\ fresh'.add = fresh.add
                            /\ fresh'.distrust = registry.distrust
<1>1. fresh \in Config
  BY DEF TypeOK, LocalTypeOK
<1>. QED  BY <1>1, DefaultIsConfig DEF LoadRoot, LoadAdd, LoadDistrust, Config

\* Nothing is read or composed before the first start.
LEMMA InitFresh == Init => PendingInv /\ SteadyInv
BY DEF Init, PendingInv, SteadyInv, ReadSoFar, Adopted, Resting, DefaultConfig

\* A change outside leaves a trace, and ends the steadiness.
LEMMA OutsideFresh ==
  ASSUME TypeOK, PendingInv, SteadyInv, Outside
  PROVE  PendingInv' /\ SteadyInv'
<1>. USE DEF PendingInv, SteadyInv, ReadSoFar, Adopted, RegistryPending,
             BundlePending
<1>1. CASE WriteRegistry
  <2>1. RegistryPending' /\ ~steady'
    BY <1>1 DEF WriteRegistry
  <2>2. UNCHANGED <<bundle, expired, stateVars, localVars>> /\ unseen \subseteq unseen'
    BY <1>1 DEF WriteRegistry
  <2>. QED  BY <2>1, <2>2 DEF stateVars, localVars
<1>2. CASE ReplaceBundle
  <2>1. BundlePending' /\ ~steady'
    BY <1>2 DEF ReplaceBundle, stateVars
  <2>2. UNCHANGED <<registry, inputVars, stateVars, localVars>> /\ unseen \subseteq unseen'
    BY <1>2 DEF ReplaceBundle
  <2>. QED  BY <2>1, <2>2 DEF stateVars, localVars, inputVars
<1>3. CASE Expire
  <2>1. ~steady' /\ expired \subseteq expired'
    BY <1>3 DEF Expire
  <2>2. UNCHANGED <<registry, bundle, unseen, inputVars, stateVars, localVars>>
    BY <1>3 DEF Expire
  <2>. QED  BY <2>1, <2>2 DEF stateVars, localVars, inputVars
<1>4. CASE Hup \/ Ask
  BY <1>4 DEF Hup, Ask, outsideVars, stateVars, localVars, ghostVars
<1>5. CASE BreakWatch
  <2>1. (RegistryPending <=> RegistryPending') /\ ("bundle" \in unseen <=> "bundle" \in unseen')
    BY <1>5 DEF BreakWatch
  <2>2. UNCHANGED <<registry, bundle, expired, stateVars, localVars, steady>>
    BY <1>5 DEF BreakWatch, outsideVars
  <2>. QED  BY <2>1, <2>2 DEF stateVars, localVars
<1>. QED  BY <1>1, <1>2, <1>3, <1>4, <1>5 DEF Outside

\* The loop takes an event off the watch only to refresh.
LEMMA LoopFresh ==
  ASSUME TypeOK, PendingInv, SteadyInv,
         \/ Boot \/ Poll \/ HandleReload \/ Serve \/ ClientsDone \/ Drain
         \/ Check \/ Resume \/ Crash \/ UNCHANGED vars
  PROVE  PendingInv' /\ SteadyInv'
<1>. USE DEF PendingInv, SteadyInv, ReadSoFar, Adopted, RegistryPending,
             BundlePending, Resting
<1>1. CASE Boot
  BY <1>1 DEF Boot, stateVars
<1>2. CASE Poll \/ ClientsDone \/ Serve
  BY <1>2 DEF Poll, ClientsDone, Serve, outsideVars, inputVars, stateVars,
              localVars, ghostVars
<1>3. CASE HandleReload
  BY <1>3 DEF HandleReload, Call, outsideVars, stateVars
<1>4. CASE Drain
  <2>1. UNCHANGED <<registry, bundle, expired, unseen, stateVars>>
    BY <1>4 DEF Drain, outsideVars
  <2>2. \/ pc' = "load"
        \/ /\ pc' = "check" /\ pc = "drain" /\ UNCHANGED steady
           /\ watch = "event" => watch' = "event"
    BY <1>4 DEF Drain, Call
  <2>. QED  BY <2>1, <2>2 DEF stateVars
<1>5. CASE Check
  BY <1>5 DEF Check, Call, outsideVars, inputVars, stateVars
<1>6. CASE Resume
  BY <1>6 DEF Resume, outsideVars, inputVars, stateVars
<1>7. CASE Crash
  BY <1>7 DEF Crash, FreshState, DefaultConfig
<1>8. CASE UNCHANGED vars
  BY <1>8 DEF vars, outsideVars, inputVars, stateVars, localVars, ghostVars
<1>. QED  BY <1>1, <1>2, <1>3, <1>4, <1>5, <1>6, <1>7, <1>8

\* Loading, adopting and reading pass on what was read; failing degrades.
LEMMA LoadFresh ==
  ASSUME TypeOK, PendingInv, SteadyInv,
         \/ LoadRoot \/ LoadAdd \/ LoadDistrust \/ LoadFails \/ Start \/ Adopt
         \/ Read \/ ReadFails \/ ComposeFails
  PROVE  PendingInv' /\ SteadyInv'
<1>. USE DEF PendingInv, SteadyInv, ReadSoFar, Adopted, RegistryPending,
             BundlePending, Resting
<1>1. CASE LoadRoot
  BY <1>1, LoadReads DEF LoadRoot, outsideVars, inputVars, stateVars
<1>2. CASE LoadAdd
  BY <1>2, LoadReads DEF LoadAdd, outsideVars, inputVars, stateVars, ghostVars
<1>3. CASE LoadDistrust
  BY <1>3, LoadReads DEF LoadDistrust, outsideVars, inputVars, stateVars, ghostVars
<1>4. CASE LoadFails
  BY <1>4 DEF LoadFails, Degrade, outsideVars, ghostVars
<1>5. CASE Start
  BY <1>5 DEF Start, Call, outsideVars
<1>6. CASE Adopt
  <2>1. fresh \in Config /\ registry \in Config
    BY DEF TypeOK, LocalTypeOK, OutsideTypeOK
  <2>2. RegistryPending \/ fresh = registry
    BY <1>6, <2>1, SameConfig DEF Adopt
  <2>3. ~steady \/ fresh = registry
    BY <1>6, <2>1, SameConfig DEF Adopt
  <2>4. /\ pc' = "read" /\ config' = fresh
        /\ UNCHANGED <<registry, watch, steady>>
        /\ "registry" \in unseen' <=> "registry" \in unseen
    BY <1>6 DEF Adopt, outsideVars, inputVars
  <2>5. control' = fresh.security
    BY <1>6 DEF Adopt
  <2>. QED  BY <2>2, <2>3, <2>4, <2>5
<1>7. CASE Read
  BY <1>7 DEF Read, outsideVars, inputVars, stateVars, ghostVars
<1>8. CASE ReadFails \/ ComposeFails
  BY <1>8 DEF ReadFails, ComposeFails, Degrade
<1>. QED  BY <1>1, <1>2, <1>3, <1>4, <1>5, <1>6, <1>7, <1>8

\* Composition takes the bundle that was read; rendering and publishing
\* change neither the configuration nor the set.
LEMMA ComposeFresh ==
  ASSUME TypeOK, PendingInv, SteadyInv,
         Accept \/ Rendering \/ Rendered \/ Publish
  PROVE  PendingInv' /\ SteadyInv'
<1>. USE DEF PendingInv, SteadyInv, ReadSoFar, Adopted, RegistryPending,
             BundlePending, Resting
<1>1. CASE Accept
  <2>1. /\ pc = "compose" /\ pc' \in {"render", "return"}
        /\ composed' = NewRoots
        /\ UNCHANGED <<registry, bundle, expired, watch, config, control,
                       bundleStamp, fresh, steady, unseen>>
    BY <1>1 DEF Accept, outsideVars, inputVars
  <2>2. shipped = bundle =>
          composed' = Roots(bundle.roots, config.add, config.distrust, expired)
    BY <2>1 DEF NewRoots
  <2>3. expired \in SUBSET expired
    OBVIOUS
  <2>. QED  BY <2>1, <2>2, <2>3
<1>2. CASE Rendering
  BY <1>2 DEF Rendering, outsideVars, inputVars, stateVars, localVars, ghostVars
<1>3. CASE Rendered
  BY <1>3 DEF Rendered, outsideVars, inputVars, ghostVars
<1>4. CASE Publish
  BY <1>4 DEF Publish, outsideVars, inputVars, stateVars
<1>. QED  BY <1>1, <1>2, <1>3, <1>4

\* What is not applied is pending, and what is steady is applied, in every
\* reachable state and at every place of a refresh.
THEOREM FreshInvariant == Spec => [](PendingInv /\ SteadyInv)
<1>1. TypeOK /\ (PendingInv /\ SteadyInv) /\ [Next]_vars
        => (PendingInv /\ SteadyInv)'
  BY OutsideFresh, LoopFresh, LoadFresh, ComposeFresh DEF Next, Daemon
<1>. QED  BY <1>1, InitFresh, TypeCorrect, PTL DEF Spec

\* No update is lost: a write or a bundle that fell between any two reads of
\* the refresh that just ended has left an event or a stamp that starts the
\* next one.
THEOREM NoUpdateIsLost == Spec => []ChangeIsPending
<1>1. PendingInv => ChangeIsPending
  BY DEF PendingInv, ChangeIsPending, Adopted, RegistryPending, BundlePending,
         Resting
<1>. QED  BY <1>1, FreshInvariant, PTL

\* A reload that is answered Ok, and during which nothing changed, has applied
\* the registry and the bundle as they are, down to the files.
THEOREM RefreshesAreFresh == Spec => []RefreshIsFresh
<1>1. SteadyInv /\ HealthInv => RefreshIsFresh
  BY DEF SteadyInv, HealthInv, Memory, FilesCurrent, RefreshIsFresh, Adopted,
         Resting
<1>. QED  BY <1>1, FreshInvariant, HealthInvariant, PTL

=============================================================================
