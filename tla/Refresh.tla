------------------------------ MODULE Refresh ------------------------------
(***************************************************************************)
(* trustd's main loop and Trustd::refresh: the registry, the shipped       *)
(* bundle, SIGHUP and reload requests on one side; the composed set, its   *)
(* generation, the rendered files, the root events and what clients were   *)
(* told on the other.                                                      *)
(*                                                                         *)
(* The daemon is one thread, but every read of the registry, the bundle    *)
(* and the socket is a moment at which the outside may have changed, and   *)
(* the process may die at any of them.  Each such moment is a step here.   *)
(***************************************************************************)
EXTENDS CompatStore

CONSTANTS
    Floor,              \* MINIMUM_SHIPPED
    Bundles,            \* what a package may install as the shipped bundle
    AddChoices,         \* what an administrator may write under Add\
    DistrustChoices,    \* ... under Distrust\
    CompatChoices,      \* ... as GenerateLinuxTrustFiles
    SecurityChoices,    \* ... as the control object's descriptor
    Expiring,           \* certificates whose not-after may pass
    Faults,             \* what may go wrong
    MaxEvents           \* bound: outside changes, requests and faults

AllFaults == {"load", "read", "render", "fallback", "watch", "stamp",
              "subscriber", "crash"}

ASSUME RefreshAssumption ==
    /\ Floor \in Nat /\ MaxEvents \in Nat
    /\ Bundles \subseteq [blocks : Nat, roots : SUBSET Fingerprints]
    /\ AddChoices \subseteq Additions
    /\ DistrustChoices \subseteq SUBSET Fingerprints
    /\ CompatChoices \subseteq Compats
    /\ SecurityChoices \subseteq {"open", "closed"}
    /\ Expiring \subseteq Fingerprints
    /\ Faults \subseteq AllFaults

VARIABLES
    \* The outside.
    registry,       \* Machine\System\Trust
    bundle,         \* the shipped bundle and its (length, mtime) stamp
    expired,        \* certificates whose not-after has passed
    watch,          \* the registry watch: none, quiet, event queued, broken
    hup,            \* SIGHUP queued
    asked,          \* a client's reload request is readable
    events,         \* how much of the bound is used
    \* The daemon between calls (struct Trustd).
    config, control, composed, generation, health, bundleStamp, composedOnce,
    \* The daemon within a call.
    pc, caller, ready, fresh, changed, shipped,
    \* Ghosts: the set a reader of the root events would have; whether no
    \* input changed since the refresh began; the inputs that changed without
    \* a trace the daemon could notice; and one client's snapshot.
    ledger, steady, unseen, consumer

outsideVars == <<registry, bundle, expired>>
inputVars == <<watch, hup, asked>>
stateVars == <<config, control, composed, generation, health, bundleStamp,
               composedOnce>>
localVars == <<pc, caller, ready, fresh, changed, shipped>>
ghostVars == <<ledger, steady, unseen, consumer>>
vars == <<outsideVars, inputVars, events, stateVars, localVars, ghostVars,
          storeVars>>

Config == [compat : Compats, security : {"open", "closed"}, add : Additions,
           distrust : SUBSET Fingerprints]
NoAdditions == [f \in {} |-> ServerAuth]
DefaultConfig == [compat |-> "Files", security |-> "open",
                  add |-> NoAdditions, distrust |-> {}]

\* Stamp 0 is no bundle at all.
Bundle == [stamp : Nat, blocks : Nat, roots : SUBSET Fingerprints]
NoBundle == [stamp |-> 0, blocks |-> 0, roots |-> {}]

Consumer == [known : BOOLEAN, live : BOOLEAN, current : BOOLEAN,
             generation : Nat, roots : SUBSET Entry]
NoConsumer == [known |-> FALSE, live |-> FALSE, current |-> FALSE,
               generation |-> 0, roots |-> {}]

\* ControlObject::permits for the client that asks for a reload.
Permits(security) == security = "open"

-----------------------------------------------------------------------------
\* The daemon's state as main builds it after loading the configuration.
FreshState ==
    /\ composed' = {}
    /\ generation' = 0
    /\ health' = "Ok"
    /\ bundleStamp' = 0
    /\ composedOnce' = FALSE
    /\ ledger' = {}

Init ==
    /\ registry = DefaultConfig
    /\ \E b \in Bundles :
          bundle = [stamp |-> 1, blocks |-> b.blocks, roots |-> b.roots]
    /\ expired = {}
    /\ watch = "none" /\ hup = FALSE /\ asked = FALSE
    /\ events = 0
    /\ config = DefaultConfig /\ control = "open" /\ composed = {}
    /\ generation = 0 /\ health = "Ok" /\ bundleStamp = 0
    /\ composedOnce = FALSE
    /\ pc = "off" /\ caller = "boot" /\ ready = {} /\ fresh = DefaultConfig
    /\ changed = FALSE /\ shipped = NoBundle
    /\ ledger = {} /\ steady = FALSE /\ unseen = {}
    /\ consumer = NoConsumer
    /\ StoreInit

(***************************************************************************)
(* The outside.                                                            *)
(***************************************************************************)
Event == events < MaxEvents /\ events' = events + 1

\* A registry write queues an event on an armed watch.
WriteRegistry ==
    /\ Event
    /\ \/ \E v \in AddChoices : registry' = [registry EXCEPT !.add = v]
       \/ \E v \in DistrustChoices : registry' = [registry EXCEPT !.distrust = v]
       \/ \E v \in CompatChoices : registry' = [registry EXCEPT !.compat = v]
       \/ \E v \in SecurityChoices : registry' = [registry EXCEPT !.security = v]
    /\ registry' # registry
    /\ watch' = IF watch = "quiet" THEN "event" ELSE watch
    /\ steady' = FALSE
    /\ unseen' = IF watch' = "event" THEN unseen ELSE unseen \cup {"registry"}
    /\ UNCHANGED <<bundle, expired, hup, asked, stateVars, localVars, ledger,
                   consumer, storeVars>>

\* A package upgrade.  The stamp is a new one unless the replacement has the
\* same length and the same second.
ReplaceBundle ==
    /\ Event
    /\ \/ \E b \in Bundles, s \in {events + 2, bundle.stamp} :
            /\ s = events + 2 \/ ("stamp" \in Faults /\ s # 0)
            /\ bundle' = [stamp |-> s, blocks |-> b.blocks, roots |-> b.roots]
       \/ bundle' = NoBundle
    /\ bundle' # bundle
    /\ steady' = FALSE
    /\ unseen' = IF bundle'.stamp = bundleStamp THEN unseen \cup {"bundle"}
                                                ELSE unseen
    /\ UNCHANGED <<registry, expired, inputVars, stateVars, localVars, ledger,
                   consumer, storeVars>>

Expire ==
    /\ Event
    /\ \E f \in Expiring \ expired : expired' = expired \cup {f}
    /\ steady' = FALSE
    /\ UNCHANGED <<registry, bundle, inputVars, stateVars, localVars, ledger,
                   unseen, consumer, storeVars>>

Hup ==
    /\ Event
    /\ pc # "off" /\ ~hup
    /\ hup' = TRUE
    /\ UNCHANGED <<outsideVars, watch, asked, stateVars, localVars, ghostVars,
                   storeVars>>

Ask ==
    /\ Event
    /\ pc # "off" /\ ~asked
    /\ asked' = TRUE
    /\ UNCHANGED <<outsideVars, watch, hup, stateVars, localVars, ghostVars,
                   storeVars>>

\* The watch fails; events it held are lost with it.
BreakWatch ==
    /\ Event
    /\ "watch" \in Faults
    /\ watch \in {"quiet", "event"}
    /\ watch' = "broken"
    /\ unseen' = IF watch = "event" THEN unseen \cup {"registry"} ELSE unseen
    /\ UNCHANGED <<outsideVars, hup, asked, stateVars, localVars, ledger, steady,
                   consumer, storeVars>>

-----------------------------------------------------------------------------
(***************************************************************************)
(* main: start, and the loop's phases.                                     *)
(***************************************************************************)
\* The watch is armed before the configuration is read.
Boot ==
    /\ pc = "off"
    /\ pc' = "load" /\ caller' = "boot"
    /\ watch' \in {"quiet"} \cup IF "watch" \in Faults THEN {"none"} ELSE {}
    /\ Prepare
    /\ UNCHANGED <<outsideVars, hup, asked, events, stateVars, ready, fresh,
                   changed, shipped, ghostVars>>

\* refresh is called.
Call(from) ==
    /\ pc' = "load" /\ caller' = from
    /\ steady' = TRUE

Poll ==
    /\ pc = "poll"
    /\ pc' = "clients"
    /\ ready' = {s \in {"asked", "hup", "watch"} :
                    \/ s = "asked" /\ asked
                    \/ s = "hup" /\ hup
                    \/ s = "watch" /\ watch \in {"event", "broken"}}
    /\ UNCHANGED <<outsideVars, inputVars, events, stateVars, caller, fresh,
                   changed, shipped, ghostVars, storeVars>>

HandleReload ==
    /\ pc = "clients"
    /\ "asked" \in ready
    /\ asked' = FALSE
    /\ ready' = ready \ {"asked"}
    /\ IF Permits(control) THEN Call("reload")
                           ELSE UNCHANGED <<pc, caller, steady>>
    /\ UNCHANGED <<outsideVars, watch, hup, events, stateVars, fresh, changed,
                   shipped, ledger, unseen, consumer, storeVars>>

\* A client fetches the roots, or subscribes and stays.
Serve ==
    /\ pc = "clients"
    /\ \E stays \in BOOLEAN :
          consumer' = [known |-> TRUE, live |-> stays, current |-> TRUE,
                       generation |-> generation, roots |-> composed]
    /\ UNCHANGED <<outsideVars, inputVars, events, stateVars, localVars, ledger,
                   steady, unseen, storeVars>>

ClientsDone ==
    /\ pc = "clients"
    /\ "asked" \notin ready
    /\ pc' = "drain"
    /\ UNCHANGED <<outsideVars, inputVars, events, stateVars, caller, ready,
                   fresh, changed, shipped, ghostVars, storeVars>>

\* SIGHUP and the watch are drained; either calls for one refresh.  A broken
\* watch is armed again, or given up, and calls for none.
Drain ==
    /\ pc = "drain"
    /\ hup' = (hup /\ "hup" \notin ready)
    /\ LET wanted == "hup" \in ready \/ ("watch" \in ready /\ watch = "event")
       IN IF wanted THEN Call("loop")
                    ELSE pc' = "check" /\ UNCHANGED <<caller, steady>>
    /\ IF "watch" \notin ready THEN UNCHANGED watch
       ELSE watch' \in {"quiet"} \cup IF watch = "broken" THEN {"none"} ELSE {}
    /\ ready' = {}
    /\ UNCHANGED <<outsideVars, asked, events, stateVars, fresh, changed,
                   shipped, ledger, unseen, consumer, storeVars>>

\* Mutant of Check: only whether there is a bundle is compared.
CheckPresence ==
    /\ pc = "check"
    /\ IF (bundle.stamp = 0) # (bundleStamp = 0)
       THEN Call("loop")
       ELSE pc' = "poll" /\ UNCHANGED <<caller, steady>>
    /\ UNCHANGED <<outsideVars, inputVars, events, stateVars, ready, fresh,
                   changed, shipped, ledger, unseen, consumer, storeVars>>

Check ==
    /\ pc = "check"
    /\ IF bundle.stamp # bundleStamp
       THEN Call("loop")
       ELSE pc' = "poll" /\ UNCHANGED <<caller, steady>>
    /\ UNCHANGED <<outsideVars, inputVars, events, stateVars, ready, fresh,
                   changed, shipped, ledger, unseen, consumer, storeVars>>

\* Mutant of Resume: the watch is drained after the refresh, not before.
ResumeDrains ==
    /\ pc = "return"
    /\ pc' = IF caller = "reload" THEN "clients" ELSE "poll"
    /\ steady' = FALSE /\ changed' = FALSE
    /\ watch' = IF watch = "event" THEN "quiet" ELSE watch
    /\ UNCHANGED <<outsideVars, hup, asked, events, stateVars, caller, ready,
                   fresh, shipped, ledger, unseen, consumer, storeVars>>

\* The caller goes on: a reload is answered by what health is now.
Resume ==
    /\ pc = "return"
    /\ pc' = IF caller = "reload" THEN "clients" ELSE "poll"
    /\ steady' = FALSE /\ changed' = FALSE
    /\ UNCHANGED <<outsideVars, inputVars, events, stateVars, caller, ready,
                   fresh, shipped, ledger, unseen, consumer, storeVars>>

\* The process dies or exits.
Crash ==
    /\ Event
    /\ "crash" \in Faults
    /\ pc # "off"
    /\ pc' = "off"
    /\ watch' = "none" /\ hup' = FALSE /\ asked' = FALSE
    /\ ready' = {} /\ fresh' = DefaultConfig /\ changed' = FALSE
    /\ shipped' = NoBundle /\ caller' = "boot"
    /\ config' = DefaultConfig /\ control' = "open"
    /\ FreshState
    /\ steady' = FALSE /\ unseen' = {}
    /\ consumer' = [consumer EXCEPT !.live = FALSE, !.current = FALSE]
    /\ phase' = "idle"
    /\ UNCHANGED <<outsideVars, disk, job>>

-----------------------------------------------------------------------------
(***************************************************************************)
(* config::load, one registry key at a time.                               *)
(***************************************************************************)
LoadRoot ==
    /\ pc = "load"
    /\ pc' = "load_add"
    /\ fresh' = [DefaultConfig EXCEPT !.compat = registry.compat,
                                      !.security = registry.security]
    /\ unseen' = unseen \ {"registry"}
    /\ UNCHANGED <<outsideVars, inputVars, events, stateVars, caller, ready,
                   changed, shipped, ledger, steady, consumer, storeVars>>

\* Mutant of LoadAdd: an entry that has no certificate yet is not skipped.
LoadAddIncomplete ==
    /\ pc = "load_add"
    /\ pc' = "load_distrust"
    /\ fresh' = [fresh EXCEPT !.add = [f \in Fingerprints |->
                    IF f \in DOMAIN registry.add THEN registry.add[f] ELSE "none"]]
    /\ UNCHANGED <<outsideVars, inputVars, events, stateVars, caller, ready,
                   changed, shipped, ghostVars, storeVars>>

LoadAdd ==
    /\ pc = "load_add"
    /\ pc' = "load_distrust"
    /\ fresh' = [fresh EXCEPT !.add = registry.add]
    /\ UNCHANGED <<outsideVars, inputVars, events, stateVars, caller, ready,
                   changed, shipped, ghostVars, storeVars>>

LoadDistrust ==
    /\ pc = "load_distrust"
    /\ pc' = "adopt"
    /\ fresh' = [fresh EXCEPT !.distrust = registry.distrust]
    /\ UNCHANGED <<outsideVars, inputVars, events, stateVars, caller, ready,
                   changed, shipped, ghostVars, storeVars>>

\* Mutant of Degrade: the failure is logged and no more.
DegradeSilently ==
    /\ health' = health
    /\ pc' = "return"

Degrade ==
    /\ health' = "Degraded"
    /\ pc' = "return"

\* An unreadable registry: at start the daemon exits, later it degrades.
LoadFails ==
    /\ Event
    /\ "load" \in Faults
    /\ pc \in {"load", "load_add", "load_distrust"}
    /\ IF caller = "boot"
       THEN pc' = "off" /\ watch' = "none" /\ UNCHANGED <<health, hup, asked>>
       ELSE Degrade /\ UNCHANGED inputVars
    /\ fresh' = DefaultConfig
    /\ UNCHANGED <<outsideVars, config, control, composed, generation,
                   bundleStamp, composedOnce, caller, ready, changed, shipped,
                   ghostVars, storeVars>>

\* main's own load: the state is built and refresh("start") called.
Start ==
    /\ pc = "adopt"
    /\ caller = "boot"
    /\ config' = fresh /\ control' = fresh.security
    /\ FreshState
    /\ Call("start")
    /\ fresh' = DefaultConfig
    /\ UNCHANGED <<outsideVars, inputVars, events, ready, changed, shipped,
                   unseen, consumer, storeVars>>

\* Mutant of Adopt: the control object keeps its old descriptor.
AdoptKeepsControl ==
    /\ pc = "adopt"
    /\ caller # "boot"
    /\ pc' = "read"
    /\ changed' = (fresh # config)
    /\ config' = fresh
    /\ bundleStamp' = bundle.stamp
    /\ unseen' = unseen \ {"bundle"}
    /\ fresh' = DefaultConfig
    /\ UNCHANGED <<outsideVars, inputVars, events, control, composed, generation,
                   health, composedOnce, caller, ready, shipped, ledger, steady,
                   consumer, storeVars>>

\* refresh takes the configuration, then the bundle's stamp.
Adopt ==
    /\ pc = "adopt"
    /\ caller # "boot"
    /\ pc' = "read"
    /\ changed' = (fresh # config)
    /\ control' = IF fresh # config THEN fresh.security ELSE control
    /\ config' = fresh
    /\ bundleStamp' = bundle.stamp
    /\ unseen' = unseen \ {"bundle"}
    /\ fresh' = DefaultConfig
    /\ UNCHANGED <<outsideVars, inputVars, events, composed, generation, health,
                   composedOnce, caller, ready, shipped, ledger, steady,
                   consumer, storeVars>>

Read ==
    /\ pc = "read"
    /\ bundle.stamp # 0
    /\ pc' = "compose"
    /\ shipped' = bundle
    /\ UNCHANGED <<outsideVars, inputVars, events, stateVars, caller, ready,
                   fresh, changed, ghostVars, storeVars>>

ReadFails ==
    /\ pc = "read"
    /\ \/ bundle.stamp = 0 /\ UNCHANGED events
       \/ "read" \in Faults /\ Event
    /\ Degrade
    /\ UNCHANGED <<outsideVars, inputVars, config, control, composed,
                   generation, bundleStamp, composedOnce, caller, ready, fresh,
                   changed, shipped, ghostVars, storeVars>>

-----------------------------------------------------------------------------
(***************************************************************************)
(* Composition, root events, rendering and publication.                    *)
(***************************************************************************)
NewRoots == Roots(shipped.roots, config.add, config.distrust, expired)

ComposeFails ==
    /\ pc = "compose"
    /\ ~Composes(shipped.blocks, Floor, NewRoots)
    /\ Degrade
    /\ shipped' = NoBundle
    /\ UNCHANGED <<outsideVars, inputVars, events, config, control, composed,
                   generation, bundleStamp, composedOnce, caller, ready, fresh,
                   changed, ghostVars, storeVars>>

\* audit::changes: a root that came, and why one that left did.
Changes(old, new, distrust) ==
    LET before == FingerprintsOf(old)
        after == FingerprintsOf(new)
    IN {[change |-> "Added", fp |-> f] : f \in after \ before}
       \cup
       {[change |-> IF f \in distrust THEN "Distrusted" ELSE "Removed", fp |-> f] :
           f \in before \ after}

\* What the events make of a set that is kept from them.
Replay(set, changes) ==
    (set \cup {c.fp : c \in {d \in changes : d.change = "Added"}})
        \ {c.fp : c \in {d \in changes : d.change # "Added"}}

\* Mutant of Record: what a degraded daemon composes is not recorded.
RecordWhenHealthy ==
    ledger' = IF ~composedOnce THEN FingerprintsOf(NewRoots)
              ELSE IF health = "Ok"
              THEN Replay(ledger, Changes(composed, NewRoots, config.distrust))
              ELSE ledger

\* The first composition is the baseline; later ones are recorded.
Record ==
    ledger' = IF composedOnce
              THEN Replay(ledger, Changes(composed, NewRoots, config.distrust))
              ELSE FingerprintsOf(NewRoots)

\* Mutant of Unchanged: a failed render is forgotten.
UnchangedRoots == NewRoots = composed

\* Nothing to render: the same roots, and the last attempt had succeeded.
Unchanged == NewRoots = composed /\ health = "Ok"

\* Mutant of NextGeneration: only a new configuration counts.
ConfigGeneration == IF changed THEN generation + 1 ELSE generation

NextGeneration == generation + 1

Accept ==
    /\ pc = "compose"
    /\ Composes(shipped.blocks, Floor, NewRoots)
    /\ Record
    /\ composedOnce' = TRUE
    /\ composed' = NewRoots
    /\ health' = "Ok"
    /\ IF Unchanged /\ ~changed
       THEN /\ pc' = "return"
            /\ UNCHANGED <<generation, storeVars>>
       ELSE /\ generation' = NextGeneration
            /\ Begin(config.compat, FileRoots(NewRoots))
            /\ pc' = "render"
    /\ shipped' = NoBundle
    /\ UNCHANGED <<outsideVars, inputVars, events, config, control, bundleStamp,
                   caller, ready, fresh, changed, steady, unseen, consumer>>

\* The renderer at work (module Render gives its file operations).
Rendering ==
    /\ pc = "render"
    /\ \/ (RemovePem \/ Shrink \/ Emptied \/ Install \/ WritePem)
          /\ UNCHANGED events
       \/ SetAside /\ "fallback" \in Faults /\ Event
       \/ (Fail \/ Restore) /\ "render" \in Faults /\ Event
    /\ UNCHANGED <<outsideVars, inputVars, stateVars, localVars, ghostVars>>

\* Mutant of Rendered: a render that failed is not published.
RenderedSkipsPublish ==
    /\ pc = "render"
    /\ Return
    /\ health' = IF phase = "failed" THEN "Degraded" ELSE health
    /\ pc' = IF phase = "failed" THEN "return" ELSE "publish"
    /\ UNCHANGED <<outsideVars, inputVars, events, config, control, composed,
                   generation, bundleStamp, composedOnce, caller, ready, fresh,
                   changed, shipped, ghostVars>>

\* Trustd::render takes the result.
Rendered ==
    /\ pc = "render"
    /\ Return
    /\ health' = IF phase = "failed" THEN "Degraded" ELSE health
    /\ pc' = "publish"
    /\ UNCHANGED <<outsideVars, inputVars, events, config, control, composed,
                   generation, bundleStamp, composedOnce, caller, ready, fresh,
                   changed, shipped, ghostVars>>

\* A subscriber that cannot take the set is dropped.
Publish ==
    /\ pc = "publish"
    /\ pc' = "return"
    /\ IF ~consumer.live THEN UNCHANGED <<consumer, events>>
       ELSE \/ /\ consumer' = [consumer EXCEPT !.generation = generation,
                                               !.roots = composed]
               /\ UNCHANGED events
            \/ /\ "subscriber" \in Faults /\ Event
               /\ consumer' = [consumer EXCEPT !.live = FALSE]
    /\ UNCHANGED <<outsideVars, inputVars, stateVars, caller, ready, fresh,
                   changed, shipped, ledger, steady, unseen, storeVars>>

-----------------------------------------------------------------------------
Outside == WriteRegistry \/ ReplaceBundle \/ Expire \/ Hup \/ Ask \/ BreakWatch

Daemon ==
    \/ Boot \/ Poll \/ HandleReload \/ ClientsDone \/ Drain \/ Check \/ Resume
    \/ LoadRoot \/ LoadAdd \/ LoadDistrust \/ LoadFails \/ Start \/ Adopt
    \/ Read \/ ReadFails \/ ComposeFails \/ Accept \/ Rendering \/ Rendered
    \/ Publish

Next == Outside \/ Daemon \/ Serve \/ Crash

Spec == Init /\ [][Next]_vars

\* The daemon's thread keeps running: poll returns at the latest after
\* BUNDLE_POLL, and no step waits for the outside.
FairSpec == Spec /\ WF_vars(Daemon)

-----------------------------------------------------------------------------
Loading == {"load", "load_add", "load_distrust", "adopt"}
Resting == {"poll", "clients", "drain", "check"}
Places == Loading \cup Resting
          \cup {"off", "read", "compose", "render", "publish", "return"}

OutsideTypeOK ==
    /\ registry \in Config /\ bundle \in Bundle /\ expired \subseteq Fingerprints

InputTypeOK ==
    /\ watch \in {"none", "quiet", "event", "broken"}
    /\ hup \in BOOLEAN /\ asked \in BOOLEAN

StateTypeOK ==
    /\ config \in Config /\ control \in {"open", "closed"}
    /\ composed \subseteq Entry /\ generation \in Nat
    /\ health \in {"Ok", "Degraded"}
    /\ bundleStamp \in Nat /\ composedOnce \in BOOLEAN

LocalTypeOK ==
    /\ pc \in Places /\ caller \in {"boot", "start", "reload", "loop"}
    /\ ready \subseteq {"asked", "hup", "watch"}
    /\ fresh \in Config /\ changed \in BOOLEAN /\ shipped \in Bundle

GhostTypeOK ==
    /\ ledger \subseteq Fingerprints /\ steady \in BOOLEAN
    /\ unseen \subseteq {"registry", "bundle"}
    /\ consumer \in Consumer

TypeOK ==
    /\ OutsideTypeOK /\ InputTypeOK /\ events \in 0..MaxEvents
    /\ StateTypeOK /\ LocalTypeOK /\ GhostTypeOK /\ StoreTypeOK

\* Health is never Ok over stale or half-written files: whenever the loop is
\* between refreshes and status says ok, certs/ and cert.pem are the rendering
\* of the composed set in the configured mode.  A failed render, a failed load
\* and a mode changed while the bundle was unreadable must all be made good.
HealthyStoreIsRendered ==
    pc \in Resting /\ health = "Ok" =>
        composedOnce /\ Renders(disk, config.compat, FileRoots(composed))

\* No update is lost: when the loop goes back to poll, a configuration or a
\* bundle that is not the one composed has left a queued watch event or a
\* different stamp behind, however its change interleaved with the refresh
\* that just ran.  Excepted are changes that left no trace: a write to an
\* unwatched registry, and a bundle whose stamp is the one last taken.
ChangeIsPending ==
    pc = "poll" /\ health = "Ok" =>
        /\ config = registry \/ watch = "event" \/ "registry" \in unseen
        /\ \/ \E ex \in SUBSET expired :
                 composed = Roots(bundle.roots, config.add, config.distrust, ex)
           \/ bundle.stamp # bundleStamp \/ "bundle" \in unseen

\* A refresh that ends well during which nothing changed has applied the
\* registry and the bundle as they are; so a reload answered Ok has.
RefreshIsFresh ==
    pc = "return" /\ health = "Ok" /\ steady =>
        /\ config = registry /\ control = registry.security
        /\ composed = Roots(bundle.roots, registry.add, registry.distrust, expired)
        /\ Renders(disk, registry.compat, FileRoots(composed))

\* The root events, replayed from the first composition, give the served set,
\* across failed refreshes too: each change is recorded once, and none is
\* lost.
EventsReplay == composedOnce => ledger = FingerprintsOf(composed)

\* A subscriber still held has been sent the served set under its generation
\* whenever the loop is between refreshes.
SubscriberIsCurrent ==
    pc \in Resting /\ consumer.live =>
        consumer.generation = generation /\ consumer.roots = composed

\* Within one process a generation names one set: a client that finds the
\* generation it knows need not fetch the roots again.
GenerationNamesRoots ==
    pc \in Resting /\ consumer.current /\ consumer.generation = generation =>
        consumer.roots = composed

\* The daemon and the files agree with the registry and the bundle.
InSync ==
    /\ health = "Ok"
    /\ config = registry
    /\ composed = Roots(bundle.roots, registry.add, registry.distrust, expired)
    /\ Renders(disk, registry.compat, FileRoots(composed))

\* The bundle and the registry in place can be composed.
Composable ==
    Composes(bundle.blocks, Floor,
             Roots(bundle.roots, registry.add, registry.distrust, expired))

\* When changes stop, the daemon's set, its configuration and the files come
\* to agree with the registry and the bundle and stay so, whatever order the
\* changes, the signals and the requests came in.
EventuallyInSync == <>[](Composable => InSync)

\* A distrust that is in force is in force everywhere: while the daemon is
\* between refreshes and reports healthy, no root that the configuration
\* distrusts is served, is in the files, or is what a subscriber was last
\* sent.  A configuration is adopted before the bundle is read (main.rs:116),
\* so a refresh that fails after it must not look healthy.
DistrustTakesHold ==
    pc \in Resting /\ health = "Ok" =>
        /\ config.distrust \cap FingerprintsOf(composed) = {}
        /\ consumer.live => config.distrust \cap FingerprintsOf(consumer.roots) = {}
        /\ disk.certs # Absent => config.distrust \cap disk.certs = {}
        /\ disk.pem # Absent => config.distrust \cap disk.pem = {}
=============================================================================
