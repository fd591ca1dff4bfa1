---------------------------- MODULE ControlLoop ----------------------------
(***************************************************************************)
(* One iteration after another of main's poll loop as the connections see  *)
(* it: the descriptor table is built and polled, connections are accepted, *)
(* each readable client is read and its request handled, subscribers that  *)
(* closed are removed, a refresh may publish, and clients that were silent *)
(* too long are dropped.  Peers send, close and stop reading at any moment *)
(* in between.  What refresh composes is the business of module Refresh:   *)
(* here it publishes a new generation or not.                              *)
(***************************************************************************)
EXTENDS Naturals, FiniteSets, SequencesExt, Kept

CONSTANTS
    Conns,          \* connections peers may open
    MaxClients,     \* MAX_CLIENTS
    MaxGeneration   \* bound: generations published

ASSUME LoopAssumption ==
    IsFiniteSet(Conns) /\ MaxClients \in Nat /\ MaxGeneration \in Nat \ {0}

\* A request whole, by what handling it does (status and roots are queries).
Requests == {"query", "subscribe", "reload"}

VARIABLES
    place,          \* where the daemon holds each connection
    sent,           \* what each peer has delivered of a request
    open,           \* connections whose peer has not closed
    late,           \* clients accepted CLIENT_TIMEOUT ago or more
    got,            \* the generation each subscriber was last sent
    subscribers,    \* the table of subscribers, in order
    generation,
    pc,             \* the phase of the iteration
    slots,          \* what was polled: listener, clients, subscribers
    ready,          \* ... the connections with revents
    overdue,        \* clients too old at the iteration's `now`
    punctual,       \* ghost: whole requests delivered within CLIENT_TIMEOUT
    dropped         \* ghost: open connections dropped as silent or as closed

peerVars == <<sent, open, late, punctual>>
tableVars == <<place, subscribers>>
sentVars == <<got, generation>>
roundVars == <<slots, ready, overdue>>
vars == <<peerVars, tableVars, sentVars, roundVars, pc, dropped>>

Clients == {c \in Conns : place[c] = "client"}
Backlog == {c \in Conns : place[c] = "backlog"}
NoSlots == [listener |-> FALSE, clients |-> {}, subscribers |-> <<>>]

Init ==
    /\ place = [c \in Conns |-> "new"]
    /\ sent = [c \in Conns |-> "nothing"]
    /\ open = {} /\ late = {} /\ punctual = {}
    /\ got = [c \in Conns |-> 0]
    /\ subscribers = <<>> /\ generation = 1
    /\ pc = "poll" /\ slots = NoSlots /\ ready = {} /\ overdue = {}
    /\ dropped = [c \in Conns |-> "no"]

Move(set, to) == [c \in Conns |-> IF c \in set THEN to ELSE place[c]]

\* Connections let go for a reason although their peer had them open.
LetGo(set, why) ==
    [c \in Conns |-> IF c \in set \cap open THEN why ELSE dropped[c]]

-----------------------------------------------------------------------------
(***************************************************************************)
(* Peers, and time.                                                        *)
(***************************************************************************)
Connect(c) ==
    /\ place[c] = "new"
    /\ place' = Move({c}, "backlog")
    /\ open' = open \cup {c}
    /\ UNCHANGED <<sent, late, punctual, subscribers, sentVars, roundVars, pc,
                   dropped>>

\* A whole request, part of one, or bytes that are none.
Send(c) ==
    /\ c \in open /\ place[c] \in {"backlog", "client"}
    /\ sent[c] \in {"nothing", "part", "part read"}
    /\ \E s \in (Requests \cup {"part", "garbage"}) \ {sent[c]} :
          /\ sent' = [sent EXCEPT ![c] = s]
          /\ punctual' = IF s \in Requests /\ c \notin late
                         THEN punctual \cup {c} ELSE punctual
    /\ UNCHANGED <<open, late, tableVars, sentVars, roundVars, pc, dropped>>

Close(c) ==
    /\ c \in open /\ place[c] # "gone"
    /\ open' = open \ {c}
    /\ UNCHANGED <<sent, late, punctual, tableVars, sentVars, roundVars, pc,
                   dropped>>

\* CLIENT_TIMEOUT passes for clients.
Age ==
    /\ \E some \in (SUBSET (Clients \ late)) \ {{}} : late' = late \cup some
    /\ UNCHANGED <<sent, open, punctual, tableVars, sentVars, roundVars, pc,
                   dropped>>

-----------------------------------------------------------------------------
(***************************************************************************)
(* The iteration.                                                          *)
(***************************************************************************)
\* Bytes not read yet, or the end of the stream.  A subscriber's request was
\* read and it sends nothing more.
Readable(c) ==
    \/ c \notin open
    \/ place[c] = "client" /\ sent[c] \notin {"nothing", "part read"}

\* The descriptors are collected and polled.  poll returns for them, for a
\* signal or a watch event, or after BUNDLE_POLL, longer than CLIENT_TIMEOUT.
Poll ==
    /\ pc = "poll"
    /\ pc' = "accept"
    /\ slots' = [listener |-> Backlog # {}, clients |-> Clients,
                 subscribers |-> subscribers]
    /\ ready' = {c \in Clients \cup ToSet(subscribers) : Readable(c)}
    /\ \/ UNCHANGED late
       \/ ready' = {} /\ Backlog = {} /\ late' = late \cup Clients
    /\ overdue' = late' \cap Clients
    /\ UNCHANGED <<sent, open, punctual, tableVars, sentVars, dropped>>

\* Mutant of Room: one client too many.
RoomForOneMore == MaxClients + 1 - Cardinality(Clients)

Room == MaxClients - Cardinality(Clients)

\* Every connection waiting, or those before an accept that fails; the ones
\* for which the table has no room are closed at once.
Accept ==
    /\ pc = "accept"
    /\ pc' = "clients"
    /\ IF ~slots.listener THEN UNCHANGED place
       ELSE \E taken \in SUBSET Backlog, admitted \in SUBSET Backlog :
               /\ admitted \subseteq taken
               /\ \/ Cardinality(admitted) = Room
                  \/ Cardinality(admitted) < Room /\ admitted = taken
               /\ place' = [c \in Conns |->
                              CASE c \in admitted -> "client"
                                [] c \in taken \ admitted -> "gone"
                                [] OTHER -> place[c]]
    /\ UNCHANGED <<peerVars, subscribers, sentVars, roundVars, dropped>>

\* publish: who takes the new set stays.  A closed peer cannot take it; an
\* open one may fail to in time.
Publish(kept) ==
    /\ kept \subseteq open \cap ToSet(subscribers)
    /\ subscribers' = Keep(subscribers, kept)
    /\ got' = [c \in Conns |-> IF c \in kept THEN generation' ELSE got[c]]

\* refresh as connections see it: it publishes a new generation, or nothing.
Refreshed(also) ==
    \/ /\ generation < MaxGeneration
       /\ generation' = generation + 1
       /\ \E kept \in SUBSET ToSet(subscribers) :
             /\ Publish(kept)
             /\ place' = Move((ToSet(subscribers) \ kept) \cup also, "gone")
    \/ /\ place' = Move(also, "gone")
       /\ UNCHANGED <<subscribers, got, generation>>

\* A readable client, in any order: its bytes are read.
Turn(c) ==
    /\ pc = "clients"
    /\ c \in ready \cap slots.clients
    /\ ready' = ready \ {c}
    /\ sent' = [sent EXCEPT ![c] = IF @ = "part" THEN "part read" ELSE "nothing"]
    /\ UNCHANGED <<open, late, punctual, slots, overdue, pc, dropped>>

\* Client::read finds the end of the stream, whatever came before it.
ReadEnd(c) ==
    /\ Turn(c)
    /\ c \notin open
    /\ place' = Move({c}, "gone")
    /\ UNCHANGED <<subscribers, sentVars>>

ReadIncomplete(c) ==
    /\ Turn(c)
    /\ c \in open /\ sent[c] = "part"
    /\ UNCHANGED <<tableVars, sentVars>>

\* What is no request, and what the control object does not permit, is
\* answered with an error and closed.
Refuse(c) ==
    /\ Turn(c)
    /\ c \in open /\ sent[c] \in Requests \cup {"garbage"}
    /\ place' = Move({c}, "gone")
    /\ UNCHANGED <<subscribers, sentVars>>

\* Status and Roots: one answer, and the connection is closed.
HandleQuery(c) ==
    /\ Turn(c)
    /\ c \in open /\ sent[c] = "query"
    /\ place' = Move({c}, "gone")
    /\ UNCHANGED <<subscribers, sentVars>>

\* Mutant of HandleSubscribe: held without being sent the set.
HandleSubscribeUnsent(c) ==
    /\ Turn(c)
    /\ c \in open /\ sent[c] = "subscribe"
    /\ subscribers' = Append(subscribers, c)
    /\ place' = Move({c}, "subscriber")
    /\ UNCHANGED sentVars

\* Subscribe: held at the end of the table if it took the set.
HandleSubscribe(c) ==
    /\ Turn(c)
    /\ c \in open /\ sent[c] = "subscribe"
    /\ \/ /\ got' = [got EXCEPT ![c] = generation]
          /\ subscribers' = Append(subscribers, c)
          /\ place' = Move({c}, "subscriber")
       \/ /\ place' = Move({c}, "gone")
          /\ UNCHANGED <<got, subscribers>>
    /\ UNCHANGED generation

\* Reload: a refresh in the middle of the iteration, then the answer.
HandleReload(c) ==
    /\ Turn(c)
    /\ c \in open /\ sent[c] = "reload"
    /\ Refreshed({c})

ClientsDone ==
    /\ pc = "clients"
    /\ ready \cap slots.clients = {}
    /\ pc' = "reap"
    /\ UNCHANGED <<peerVars, tableVars, sentVars, roundVars, dropped>>

\* The positions, in the table that was polled, of the subscribers that were
\* readable; they are removed from the table there is now.
Positions == {i \in DOMAIN slots.subscribers : slots.subscribers[i] \in ready}

Reap ==
    /\ pc = "reap"
    /\ Positions \subseteq DOMAIN subscribers
    /\ pc' = "refresh"
    /\ LET out == {subscribers[i] : i \in Positions}
       IN  /\ subscribers' = Keep(subscribers, Conns \ out)
           /\ place' = Move(out, "gone")
           /\ dropped' = LetGo(out, "reaped")
    /\ UNCHANGED <<peerVars, sentVars, roundVars>>

\* Vec::remove past the end of the table: the process aborts.
ReapPanics ==
    /\ pc = "reap"
    /\ ~(Positions \subseteq DOMAIN subscribers)
    /\ pc' = "down"
    /\ place' = Move(Clients \cup Backlog \cup ToSet(subscribers), "gone")
    /\ subscribers' = <<>> /\ slots' = NoSlots /\ ready' = {} /\ overdue' = {}
    /\ UNCHANGED <<peerVars, sentVars, dropped>>

\* SIGHUP, the registry watch or a new bundle may call for a refresh.
Refresh ==
    /\ pc = "refresh"
    /\ pc' = "retain"
    /\ Refreshed({})
    /\ UNCHANGED <<peerVars, roundVars, dropped>>

\* Mutant of Retain: the clock is read again after the refresh.
RetainByNewClock ==
    /\ pc = "retain"
    /\ pc' = "poll"
    /\ LET silent == late \cap Clients
       IN  place' = Move(silent, "gone") /\ dropped' = LetGo(silent, "silent")
    /\ slots' = NoSlots /\ ready' = {} /\ overdue' = {}
    /\ UNCHANGED <<peerVars, subscribers, sentVars>>

\* Mutant of Retain: silent clients are kept.
RetainAll ==
    /\ pc = "retain"
    /\ pc' = "poll"
    /\ slots' = NoSlots /\ ready' = {} /\ overdue' = {}
    /\ UNCHANGED <<peerVars, tableVars, sentVars, dropped>>

\* Clients too old at the iteration's `now` are dropped.
Retain ==
    /\ pc = "retain"
    /\ pc' = "poll"
    /\ LET silent == overdue \cap Clients
       IN  place' = Move(silent, "gone") /\ dropped' = LetGo(silent, "silent")
    /\ slots' = NoSlots /\ ready' = {} /\ overdue' = {}
    /\ UNCHANGED <<peerVars, subscribers, sentVars>>

\* RestartPolicy is Always.
Restart ==
    /\ pc = "down"
    /\ pc' = "poll"
    /\ generation' = 1
    /\ UNCHANGED <<peerVars, tableVars, got, roundVars, dropped>>

Peer(c) == Connect(c) \/ Send(c) \/ Close(c)

Handle(c) ==
    \/ ReadEnd(c) \/ ReadIncomplete(c) \/ Refuse(c)
    \/ HandleQuery(c) \/ HandleSubscribe(c) \/ HandleReload(c)

Loop ==
    \/ Poll \/ Accept \/ (\E c \in Conns : Handle(c)) \/ ClientsDone
    \/ Reap \/ ReapPanics \/ Refresh \/ Retain \/ Restart

Next == Loop \/ Age \/ \E c \in Conns : Peer(c)

Spec == Init /\ [][Next]_vars

\* The thread runs on, poll returns, and time passes.
FairSpec == Spec /\ WF_vars(Loop) /\ WF_vars(Age)

-----------------------------------------------------------------------------
TypeOK ==
    /\ place \in [Conns -> {"new", "backlog", "client", "subscriber", "gone"}]
    /\ sent \in [Conns -> Requests \cup {"nothing", "part", "part read", "garbage"}]
    /\ open \subseteq Conns /\ late \subseteq Conns /\ punctual \subseteq Conns
    /\ generation \in 1..MaxGeneration /\ got \in [Conns -> 0..MaxGeneration]
    /\ pc \in {"poll", "accept", "clients", "reap", "refresh", "retain", "down"}
    /\ slots.clients \subseteq Conns /\ ready \subseteq Conns
    /\ overdue \subseteq Conns /\ dropped \in [Conns -> {"no", "silent", "reaped"}]
    /\ Cardinality(Clients) <= MaxClients
    /\ ToSet(subscribers) = {c \in Conns : place[c] = "subscriber"}
    /\ IsInjective(subscribers)

\* "How long a client has to deliver its request" (control.rs:33): a client
\* dropped for its silence had not delivered a whole request within
\* CLIENT_TIMEOUT, however long the refresh, the replies and the requests of
\* others held the loop.
PunctualIsHeard == \A c \in Conns : dropped[c] = "silent" => c \notin punctual

\* "owed a fresh set on every change" (main.rs:50): whatever order requests to
\* subscribe, to reload and refreshes came in, a subscriber held has been sent
\* the generation that is served.
HeldAreCurrent == \A i \in DOMAIN subscribers : got[subscribers[i]] = generation

\* Nobody is held for ever: a client is answered or dropped, and a subscriber
\* that closed leaves the table without waiting for the next change
\* (main.rs:380).
ConnectionsSettle ==
    \A c \in Conns :
        /\ place[c] = "client" ~> place[c] # "client"
        /\ place[c] = "subscriber" /\ c \notin open ~> place[c] = "gone"

\* "A readable subscriber has closed" (main.rs:446): a subscriber is removed
\* as closed only when its peer closed it, and the removal never aborts the
\* daemon.
OpenSubscriberIsKept == pc # "down" /\ \A c \in Conns : dropped[c] # "reaped"
=============================================================================
