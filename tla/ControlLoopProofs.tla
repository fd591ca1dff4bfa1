------------------------- MODULE ControlLoopProofs -------------------------
(***************************************************************************)
(* Theorems about module ControlLoop, for every number of connections and  *)
(* every size of the client table.                                         *)
(***************************************************************************)
EXTENDS ControlLoop, Foundations, FiniteSetTheorems, TLAPS

Sendable == Requests \cup {"nothing", "part", "part read", "garbage"}

\* A peer's request is there until it is read, and nobody ages unaccepted.
Delivered ==
    /\ sent \in [Conns -> Sendable]
    /\ \A c \in Conns :
          /\ place[c] = "new" => c \notin punctual
          /\ c \in punctual /\ c \in open /\ place[c] \in {"backlog", "client"} =>
                sent[c] \in Requests
          /\ c \in late => place[c] \notin {"new", "backlog"}
          /\ dropped[c] = "silent" => place[c] = "gone"

\* A client too old at the iteration's `now` that had delivered its request
\* was readable when the loop polled, and its turn comes before Retain.
TurnComes ==
    /\ overdue \subseteq late
    /\ pc \in {"accept", "clients"} =>
          \A c \in slots.clients : dropped[c] # "silent"
    /\ \A c \in Conns :
          c \in overdue /\ c \in punctual /\ c \in open /\ place[c] = "client" =>
              /\ pc \notin {"reap", "refresh", "retain"}
              /\ pc \in {"accept", "clients"} => c \in ready \cap slots.clients

HeardInv == Delivered /\ TurnComes /\ PunctualIsHeard

\* Nothing is connected, sent or late at the start.
LEMMA InitHeard == Init => HeardInv
BY DEF Init, HeardInv, Delivered, TurnComes, PunctualIsHeard, Sendable

\* What peers do, and time, keep requests accounted for.
LEMMA PeerHeard ==
  ASSUME HeardInv, Age \/ \E c \in Conns : Peer(c)
  PROVE  HeardInv'
<1>. USE DEF HeardInv, Delivered, TurnComes, PunctualIsHeard, tableVars,
             sentVars, roundVars
<1>1. CASE Age
  BY <1>1 DEF Age, Clients
<1>2. CASE \E c \in Conns : Connect(c)
  BY <1>2 DEF Connect, Move
<1>3. ASSUME NEW c \in Conns, Send(c)  PROVE HeardInv'
  <2>1. PICK s \in (Requests \cup {"part", "garbage"}) \ {sent[c]} :
           /\ sent' = [sent EXCEPT ![c] = s]
           /\ punctual' = IF s \in Requests /\ c \notin late
                          THEN punctual \cup {c} ELSE punctual
    BY <1>3 DEF Send
  <2>2. UNCHANGED <<open, late, place, overdue, pc, ready, slots, dropped>>
    BY <1>3 DEF Send
  <2>3. c \in open /\ place[c] \in {"backlog", "client"} /\ sent[c] \notin Requests
    BY <1>3 DEF Send, Requests
  <2>4. c \notin punctual
    BY <2>3
  <2>5. Delivered'
    BY <2>1, <2>2, <2>3, <2>4 DEF Sendable
  <2>6. TurnComes'
    BY <2>1, <2>2
  <2>7. PunctualIsHeard'
    BY <2>1, <2>2, <2>3
  <2>. QED  BY <2>5, <2>6, <2>7
<1>4. CASE \E c \in Conns : Close(c)
  BY <1>4 DEF Close
<1>. QED  BY <1>1, <1>2, <1>3, <1>4 DEF Peer

\* Handling a client's bytes: whoever's turn it was leaves the table, or had
\* no whole request.
LEMMA HandleHeard ==
  ASSUME HeardInv, NEW c \in Conns, Handle(c)
  PROVE  HeardInv'
<1>. USE DEF HeardInv, Delivered, TurnComes, PunctualIsHeard
<1>1. /\ pc = "clients" /\ ready' = ready \ {c}
      /\ sent' = [sent EXCEPT ![c] = IF @ = "part" THEN "part read" ELSE "nothing"]
      /\ UNCHANGED <<open, late, punctual, slots, overdue, pc, dropped>>
  BY DEF Handle, ReadEnd, ReadIncomplete, Refuse, HandleQuery, HandleSubscribe,
         HandleReload, Turn
<1>2. \/ sent[c] = "part" /\ UNCHANGED place
      \/ place'[c] \in {"subscriber", "gone"}
  BY DEF Handle, ReadEnd, ReadIncomplete, Refuse, HandleQuery, HandleSubscribe,
         HandleReload, Refreshed, Move, tableVars
<1>3. \A d \in Conns : place'[d] = place[d] \/ place'[d] = "gone" \/ d = c
  BY DEF Handle, ReadEnd, ReadIncomplete, Refuse, HandleQuery, HandleSubscribe,
         HandleReload, Refreshed, Move, tableVars
<1>4. dropped[c] # "silent"
  BY DEF Handle, ReadEnd, ReadIncomplete, Refuse, HandleQuery, HandleSubscribe,
         HandleReload, Turn
<1>5. sent' \in [Conns -> Sendable]
  BY <1>1 DEF Sendable
<1>6. Delivered'
  BY <1>1, <1>2, <1>3, <1>4, <1>5 DEF Requests
<1>7. TurnComes'
  BY <1>1, <1>2, <1>3 DEF Requests
<1>. QED  BY <1>1, <1>6, <1>7

\* The phases of the iteration.
LEMMA LoopHeard ==
  ASSUME HeardInv,
         \/ Poll \/ Accept \/ ClientsDone \/ Reap \/ ReapPanics \/ Refresh
         \/ Retain \/ Restart
  PROVE  HeardInv'
<1>. USE DEF HeardInv, Delivered, TurnComes, PunctualIsHeard, peerVars,
             tableVars, sentVars, roundVars
<1>1. CASE Poll
  BY <1>1 DEF Poll, Readable, Clients, Requests
<1>2. CASE Accept
  <2>1. \A c \in Conns :
           \/ place'[c] = place[c]
           \/ place[c] = "backlog" /\ place'[c] \in {"client", "gone"}
    BY <1>2 DEF Accept, Backlog
  <2>2. /\ pc = "accept" /\ pc' = "clients"
        /\ UNCHANGED <<sent, open, late, punctual, slots, ready, overdue, dropped>>
    BY <1>2 DEF Accept
  <2>. QED  BY <2>1, <2>2
<1>3. CASE ClientsDone
  BY <1>3 DEF ClientsDone
<1>4. CASE Reap
  BY <1>4 DEF Reap, Move, LetGo
<1>5. CASE ReapPanics
  BY <1>5 DEF ReapPanics, Move
<1>6. CASE Refresh
  BY <1>6 DEF Refresh, Refreshed, Move
<1>7. CASE Retain
  BY <1>7 DEF Retain, Move, LetGo, Clients
<1>8. CASE Restart
  BY <1>8 DEF Restart
<1>. QED  BY <1>1, <1>2, <1>3, <1>4, <1>5, <1>6, <1>7, <1>8

\* No client that delivered its request within CLIENT_TIMEOUT is dropped for
\* its silence (control.rs Client::read, main.rs's retain), with any number
\* of connections.
THEOREM PunctualAreHeard == Spec => []PunctualIsHeard
<1>1. HeardInv /\ [Next]_vars => HeardInv'
  <2>1. HeardInv /\ UNCHANGED vars => HeardInv'
    BY DEF HeardInv, Delivered, TurnComes, PunctualIsHeard, vars, peerVars,
           tableVars, roundVars
  <2>. QED  BY <2>1, PeerHeard, HandleHeard, LoopHeard DEF Next, Loop
<1>2. HeardInv => PunctualIsHeard
  BY DEF HeardInv
<1>. QED  BY InitHeard, <1>1, <1>2, PTL DEF Spec

-----------------------------------------------------------------------------
(***************************************************************************)
(* The tables.                                                             *)
(***************************************************************************)

\* The two library names for what a sequence holds.
LEMMA ToSetIsRange == \A s : ToSet(s) = Range(s)
BY DEF ToSet, Range

Places == {"new", "backlog", "client", "subscriber", "gone"}
Held == {c \in Conns : place[c] = "subscriber"}

\* The client table is within its size; the table of subscribers holds who is
\* a subscriber, each once, and each was sent what is served.
TablesInv ==
    /\ place \in [Conns -> Places]
    /\ generation \in 1..MaxGeneration /\ got \in [Conns -> 0..MaxGeneration]
    /\ Cardinality(Clients) <= MaxClients
    /\ subscribers \in Seq(Conns)
    /\ ToSet(subscribers) = Held
    /\ IsInjective(subscribers)
    /\ \A c \in Held : got[c] = generation

\* A client whose turn is to come is a client still; an aborted process holds
\* nobody.
RoundInv ==
    /\ sent \in [Conns -> Sendable]
    /\ open \subseteq Conns /\ late \subseteq Conns /\ punctual \subseteq Conns
    /\ pc \in {"poll", "accept", "clients", "reap", "refresh", "retain", "down"}
    /\ slots.clients \subseteq Conns /\ ready \subseteq Conns
    /\ overdue \subseteq Conns /\ dropped \in [Conns -> {"no", "silent", "reaped"}]
    /\ pc \in {"accept", "clients"} =>
          \A c \in ready \cap slots.clients : place[c] = "client"
    /\ pc = "down" => subscribers = <<>>

LoopInv == TablesInv /\ RoundInv

\* The invariant says of the table what TypeOK and HeldAreCurrent say.
LEMMA LoopInvSuffices == LoopInv => TypeOK /\ HeldAreCurrent
<1>1. LoopInv => TypeOK
  BY DEF LoopInv, TablesInv, RoundInv, TypeOK, Held, Places, Sendable
<1>2. LoopInv => HeldAreCurrent
  BY DEF LoopInv, TablesInv, HeldAreCurrent, ToSet
<1>. QED  BY <1>1, <1>2

\* Fewer clients need no more room.
LEMMA FewerFit ==
  ASSUME NEW A, NEW B \in SUBSET Conns, A \subseteq B,
         Cardinality(B) <= MaxClients
  PROVE  Cardinality(A) <= MaxClients
<1>1. IsFiniteSet(B)
  BY LoopAssumption, FS_Subset
<1>2. IsFiniteSet(A) /\ Cardinality(A) <= Cardinality(B)
  BY <1>1, FS_Subset
<1>3. Cardinality(A) \in Nat /\ Cardinality(B) \in Nat
  BY <1>1, <1>2, FS_CardinalityType
<1>. QED  BY <1>2, <1>3, LoopAssumption

\* A step by which nobody becomes a client, and after which the table of
\* subscribers is right.
LEMMA TablesStep ==
  ASSUME TablesInv, place' \in [Conns -> Places],
         generation' \in 1..MaxGeneration, got' \in [Conns -> 0..MaxGeneration],
         \A c \in Conns : place'[c] = "client" => place[c] = "client",
         subscribers' \in Seq(Conns), ToSet(subscribers') = Held',
         IsInjective(subscribers'), \A c \in Held' : got'[c] = generation'
  PROVE  TablesInv'
<1>1. Clients' \subseteq Clients /\ Clients \in SUBSET Conns
  BY DEF Clients
<1>2. Cardinality(Clients') <= MaxClients
  BY <1>1, FewerFit DEF TablesInv
<1>. QED  BY <1>2 DEF TablesInv

\* Connections that are no subscribers close or are closed.
LEMMA CloseTables ==
  ASSUME TablesInv, NEW set, NEW to \in {"backlog", "gone"},
         set \cap Held = {}, place' = Move(set, to),
         UNCHANGED <<subscribers, got, generation>>
  PROVE  TablesInv'
<1>1. /\ place' \in [Conns -> Places]
      /\ \A c \in Conns : place'[c] = "client" => place[c] = "client"
      /\ Held' = Held
  BY DEF TablesInv, Move, Places, Held
<1>. QED  BY <1>1, TablesStep DEF TablesInv

\* publish: who took the new set stays, the others leave the table and close.
LEMMA RefreshedTables ==
  ASSUME TablesInv, NEW also, also \cap Held = {}, Refreshed(also)
  PROVE  TablesInv'
<1>1. CASE place' = Move(also, "gone") /\ UNCHANGED <<subscribers, got, generation>>
  BY <1>1, CloseTables
<1>2. ASSUME generation < MaxGeneration, generation' = generation + 1,
             NEW kept \in SUBSET ToSet(subscribers), Publish(kept),
             place' = Move((ToSet(subscribers) \ kept) \cup also, "gone")
      PROVE  TablesInv'
  <2>1. /\ subscribers' \in Seq(Conns)
        /\ ToSet(subscribers') = ToSet(subscribers) \cap kept
        /\ IsInjective(subscribers')
    BY <1>2, KeepFacts, ToSetIsRange DEF TablesInv, Publish
  <2>2. generation' \in 1..MaxGeneration
    BY <1>2, LoopAssumption DEF TablesInv
  <2>3. got' = [c \in Conns |-> IF c \in kept THEN generation' ELSE got[c]]
    BY <1>2 DEF Publish
  <2>4. got' \in [Conns -> 0..MaxGeneration]
    BY <2>2, <2>3 DEF TablesInv
  <2>5. place' \in [Conns -> Places]
    BY <1>2 DEF TablesInv, Move, Places
  <2>6. \A c \in Conns : place'[c] = "client" => place[c] = "client"
    BY <1>2 DEF Move
  <2>7. Held' = kept
    BY <1>2 DEF TablesInv, Move, Held
  <2>8. ToSet(subscribers') = Held'
    BY <1>2, <2>1, <2>7
  <2>9. \A c \in Held' : got'[c] = generation'
    BY <2>3, <2>7, <1>2 DEF TablesInv, Held
  <2>. QED  BY <2>1, <2>2, <2>4, <2>5, <2>6, <2>8, <2>9, TablesStep
<1>. QED  BY <1>1, <1>2 DEF Refreshed

\* Nobody is connected at the start.
LEMMA InitTables == Init => LoopInv
<1>1. SUFFICES ASSUME Init PROVE LoopInv
  OBVIOUS
<1>2. Clients = {} /\ Held = {}
  BY <1>1 DEF Init, Clients, Held
<1>3. Cardinality({}) <= MaxClients
  BY FS_EmptySet, LoopAssumption
<1>4. <<>> \in Seq(Conns) /\ ToSet(<<>>) = {} /\ IsInjective(<<>>)
  BY DEF ToSet, IsInjective
<1>5. TablesInv
  BY <1>1, <1>2, <1>3, <1>4, LoopAssumption DEF Init, TablesInv, Places
<1>6. RoundInv
  BY <1>1 DEF Init, RoundInv, Sendable, NoSlots
<1>. QED  BY <1>5, <1>6 DEF LoopInv

\* A peer connects, sends or closes, or time passes.
LEMMA PeerTables ==
  ASSUME LoopInv, Age \/ \E c \in Conns : Peer(c)
  PROVE  LoopInv'
<1>. USE DEF tableVars, sentVars, roundVars
<1>1. CASE Age
  <2>1. TablesInv'
    BY <1>1 DEF Age, LoopInv, TablesInv, Clients, Held
  <2>2. RoundInv'
    BY <1>1 DEF Age, LoopInv, RoundInv, Clients
  <2>. QED  BY <2>1, <2>2 DEF LoopInv
<1>2. ASSUME NEW c \in Conns, Connect(c)  PROVE LoopInv'
  <2>1. TablesInv'
    BY <1>2, CloseTables DEF Connect, LoopInv, Held
  <2>2. RoundInv'
    BY <1>2 DEF Connect, LoopInv, RoundInv, Move
  <2>. QED  BY <2>1, <2>2 DEF LoopInv
<1>3. ASSUME NEW c \in Conns, Send(c)  PROVE LoopInv'
  <2>1. TablesInv'
    BY <1>3 DEF Send, LoopInv, TablesInv, Clients, Held
  <2>2. sent' \in [Conns -> Sendable] /\ punctual' \subseteq Conns
    <3>1. PICK s \in Requests \cup {"part", "garbage"} :
             /\ sent' = [sent EXCEPT ![c] = s]
             /\ punctual' = punctual \cup {c} \/ punctual' = punctual
      BY <1>3 DEF Send
    <3>2. sent \in [Conns -> Sendable] /\ punctual \subseteq Conns
      BY DEF LoopInv, RoundInv
    <3>3. s \in Sendable
      BY <3>1 DEF Sendable
    <3>4. punctual' \subseteq Conns
      BY <3>1, <3>2
    <3>. QED  BY <3>1, <3>2, <3>3, <3>4
  <2>3. RoundInv'
    BY <1>3, <2>2 DEF Send, LoopInv, RoundInv
  <2>. QED  BY <2>1, <2>3 DEF LoopInv
<1>4. ASSUME NEW c \in Conns, Close(c)  PROVE LoopInv'
  <2>1. TablesInv'
    BY <1>4 DEF Close, LoopInv, TablesInv, Clients, Held
  <2>2. RoundInv'
    BY <1>4 DEF Close, LoopInv, RoundInv
  <2>. QED  BY <2>1, <2>2 DEF LoopInv
<1>. QED  BY <1>1, <1>2, <1>3, <1>4 DEF Peer

\* A client's turn.
LEMMA HandleTables ==
  ASSUME LoopInv, NEW c \in Conns, Handle(c)
  PROVE  LoopInv'
<1>1. /\ pc = "clients" /\ c \in ready \cap slots.clients /\ ready' = ready \ {c}
      /\ sent' = [sent EXCEPT ![c] = IF @ = "part" THEN "part read" ELSE "nothing"]
      /\ UNCHANGED <<open, late, punctual, slots, overdue, pc, dropped>>
  BY DEF Handle, ReadEnd, ReadIncomplete, Refuse, HandleQuery, HandleSubscribe,
         HandleReload, Turn
<1>2. place[c] = "client" /\ {c} \cap Held = {}
  BY <1>1 DEF LoopInv, RoundInv, Held
<1>3. ASSUME ReadEnd(c) \/ Refuse(c) \/ HandleQuery(c)  PROVE TablesInv'
  BY <1>2, <1>3, CloseTables DEF ReadEnd, Refuse, HandleQuery, sentVars, LoopInv
<1>4. ASSUME ReadIncomplete(c)  PROVE TablesInv'
  BY <1>4 DEF ReadIncomplete, tableVars, sentVars, LoopInv, TablesInv, Clients, Held
<1>5. ASSUME HandleReload(c)  PROVE TablesInv'
  BY <1>2, <1>5, RefreshedTables DEF HandleReload, LoopInv
<1>6. ASSUME HandleSubscribe(c)  PROVE TablesInv'
  <2>1. CASE place' = Move({c}, "gone") /\ UNCHANGED <<got, subscribers, generation>>
    BY <1>2, <2>1, CloseTables DEF LoopInv
  <2>2. CASE /\ got' = [got EXCEPT ![c] = generation]
             /\ subscribers' = Append(subscribers, c)
             /\ place' = Move({c}, "subscriber")
             /\ UNCHANGED generation
    <3>1. TablesInv
      BY DEF LoopInv
    <3>2. /\ subscribers' \in Seq(Conns)
          /\ ToSet(subscribers') = ToSet(subscribers) \cup {c}
          /\ IsInjective(subscribers')
      <4>1. c \notin ToSet(subscribers)
        <5>1. ToSet(subscribers) = Held
          BY <3>1 DEF TablesInv
        <5>2. c \notin Held
          BY <1>2
        <5>. QED  BY <5>1, <5>2
      <4>. QED  BY <2>2, <3>1, <4>1, AppendFacts, ToSetIsRange DEF TablesInv
    <3>3. place' \in [Conns -> Places]
      BY <2>2, <3>1 DEF TablesInv, Move, Places
    <3>4. Held' = Held \cup {c}
          /\ \A d \in Conns : place'[d] = "client" => place[d] = "client"
      BY <2>2, <3>1 DEF Held, Move
    <3>5. generation' \in 1..MaxGeneration /\ got' \in [Conns -> 0..MaxGeneration]
      BY <2>2, <3>1, LoopAssumption DEF TablesInv
    <3>6. \A d \in Held' : got'[d] = generation'
      BY <2>2, <3>1, <3>4 DEF TablesInv, Held
    <3>7. ToSet(subscribers') = Held'
      <4>1. ToSet(subscribers) = Held
        BY <3>1 DEF TablesInv
      <4>. QED  BY <3>2, <3>4, <4>1
    <3>. QED  BY <3>1, <3>2, <3>3, <3>4, <3>5, <3>6, <3>7, TablesStep
  <2>. QED  BY <1>6, <2>1, <2>2 DEF HandleSubscribe
<1>7. TablesInv'
  BY <1>3, <1>4, <1>5, <1>6 DEF Handle
<1>8. \A d \in Conns \ {c} : place[d] = "client" => place'[d] = "client"
  <2>1. ToSet(subscribers) = Held
    BY DEF LoopInv, TablesInv
  <2>. QED  BY <2>1 DEF Handle, ReadEnd, ReadIncomplete, Refuse, HandleQuery,
                HandleSubscribe, HandleReload, Refreshed, Move, tableVars, Held
<1>9. sent' \in [Conns -> Sendable]
  BY <1>1 DEF LoopInv, RoundInv, Sendable
<1>10. RoundInv'
  BY <1>1, <1>8, <1>9 DEF LoopInv, RoundInv
<1>. QED  BY <1>7, <1>10 DEF LoopInv

\* Those admitted fill the table at most.
LEMMA AdmittedFit ==
  ASSUME TablesInv, NEW admitted \in SUBSET Backlog, Cardinality(admitted) <= Room
  PROVE  Cardinality(Clients \cup admitted) <= MaxClients
<1>1. Clients \in SUBSET Conns /\ admitted \in SUBSET Conns
      /\ Clients \cap admitted = {}
  BY DEF Clients, Backlog
<1>2. IsFiniteSet(Clients) /\ IsFiniteSet(admitted)
  BY <1>1, LoopAssumption, FS_Subset
<1>3. /\ Cardinality(Clients) \in Nat /\ Cardinality(admitted) \in Nat
      /\ Cardinality(Clients \cap admitted) = 0
  BY <1>1, <1>2, FS_CardinalityType, FS_EmptySet
<1>4. Cardinality(Clients \cup admitted) =
        Cardinality(Clients) + Cardinality(admitted) - Cardinality(Clients \cap admitted)
  BY <1>2, FS_Union
<1>. QED  BY <1>3, <1>4, LoopAssumption DEF Room

\* The phases of the iteration.
LEMMA LoopTables ==
  ASSUME LoopInv,
         \/ Poll \/ Accept \/ ClientsDone \/ Reap \/ ReapPanics \/ Refresh
         \/ Retain \/ Restart
  PROVE  LoopInv'
<1>. USE DEF peerVars, tableVars, sentVars, roundVars
<1>0. TablesInv /\ RoundInv
  BY DEF LoopInv
<1>1. CASE Poll
  <2>1. TablesInv'
    BY <1>0, <1>1 DEF Poll, TablesInv, Clients, Held
  <2>2. ToSet(subscribers) \subseteq Conns
    BY <1>0 DEF TablesInv, Held
  <2>3. slots'.clients = Clients /\ Clients' = Clients
    BY <1>1 DEF Poll, Clients
  <2>4. ready' \subseteq Conns /\ late' \subseteq Conns /\ overdue' \subseteq Conns
    BY <1>0, <1>1, <2>2 DEF Poll, RoundInv, Clients
  <2>5. RoundInv'
    BY <1>0, <1>1, <2>3, <2>4 DEF Poll, RoundInv, Clients
  <2>. QED  BY <2>1, <2>5 DEF LoopInv
<1>2. CASE Accept
  <2>1. /\ pc = "accept" /\ pc' = "clients"
        /\ UNCHANGED <<sent, open, late, punctual, slots, ready, overdue, dropped,
                       subscribers, got, generation>>
    BY <1>2 DEF Accept
  <2>2. TablesInv' /\ \A c \in Clients : place'[c] = "client"
    <3>1. CASE UNCHANGED place
      BY <1>0, <2>1, <3>1 DEF TablesInv, Clients, Held
    <3>2. ASSUME NEW taken \in SUBSET Backlog, NEW admitted \in SUBSET Backlog,
                 admitted \subseteq taken, Cardinality(admitted) <= Room,
                 place' = [c \in Conns |->
                             CASE c \in admitted -> "client"
                               [] c \in taken \ admitted -> "gone"
                               [] OTHER -> place[c]]
          PROVE  TablesInv' /\ \A c \in Clients : place'[c] = "client"
      <4>1. place' = [c \in Conns |-> IF c \in admitted THEN "client"
                        ELSE IF c \in taken THEN "gone" ELSE place[c]]
        BY <3>2
      <4>2. Held' = Held /\ Clients' = Clients \cup admitted
        BY <4>1, <3>2 DEF Held, Clients, Backlog
      <4>3. place' \in [Conns -> Places]
        BY <1>0, <4>1 DEF TablesInv, Places
      <4>4. Cardinality(Clients') <= MaxClients
        BY <1>0, <3>2, <4>2, AdmittedFit
      <4>5. TablesInv'
        BY <1>0, <2>1, <4>2, <4>3, <4>4 DEF TablesInv
      <4>. QED  BY <4>2, <4>5 DEF Clients
    <3>3. \A s \in SUBSET Backlog : Cardinality(s) = Room \/ Cardinality(s) < Room
                                      => Cardinality(s) <= Room
      <4>1. SUFFICES ASSUME NEW s \in SUBSET Backlog
                     PROVE  Cardinality(s) \in Nat /\ Room \in Int
        BY DEF Room
      <4>2. IsFiniteSet(s) /\ IsFiniteSet(Clients)
        BY LoopAssumption, FS_Subset DEF Backlog, Clients
      <4>. QED  BY <4>2, FS_CardinalityType, LoopAssumption DEF Room
    <3>. QED  BY <1>2, <3>1, <3>2, <3>3 DEF Accept
  <2>3. RoundInv'
    BY <1>0, <2>1, <2>2 DEF RoundInv, Clients
  <2>. QED  BY <2>2, <2>3 DEF LoopInv
<1>3. CASE ClientsDone
  <2>1. TablesInv'
    BY <1>0, <1>3 DEF ClientsDone, TablesInv, Clients, Held
  <2>2. RoundInv'
    BY <1>0, <1>3 DEF ClientsDone, RoundInv
  <2>. QED  BY <2>1, <2>2 DEF LoopInv
<1>4. CASE Reap
  <2>. DEFINE out == {subscribers[i] : i \in Positions}
  <2>1. /\ pc = "reap" /\ pc' = "refresh"
        /\ subscribers' = Keep(subscribers, Conns \ out)
        /\ place' = Move(out, "gone")
        /\ dropped' = LetGo(out, "reaped")
        /\ UNCHANGED <<sent, open, late, punctual, slots, ready, overdue, got,
                       generation>>
    BY <1>4 DEF Reap
  <2>2. out \subseteq Held
    BY <1>0, <1>4 DEF Reap, TablesInv, ToSet
  <2>. HIDE DEF out
  <2>3. /\ subscribers' \in Seq(Conns)
        /\ ToSet(subscribers') = ToSet(subscribers) \cap (Conns \ out)
        /\ IsInjective(subscribers')
    BY <1>0, <2>1, KeepFacts, ToSetIsRange DEF TablesInv
  <2>4. /\ place' \in [Conns -> Places]
        /\ Held' = Held \cap (Conns \ out)
        /\ \A c \in Conns : place'[c] = "client" => place[c] = "client"
    BY <1>0, <2>1 DEF TablesInv, Move, Places, Held
  <2>5. TablesInv'
    BY <1>0, <2>1, <2>3, <2>4, TablesStep DEF TablesInv
  <2>6. dropped' \in [Conns -> {"no", "silent", "reaped"}]
    BY <1>0, <2>1 DEF RoundInv, LetGo
  <2>7. RoundInv'
    BY <1>0, <2>1, <2>6 DEF RoundInv
  <2>. QED  BY <2>5, <2>7 DEF LoopInv
<1>5. CASE ReapPanics
  <2>. DEFINE all == Clients \cup Backlog \cup ToSet(subscribers)
  <2>1. /\ pc' = "down" /\ place' = Move(all, "gone") /\ subscribers' = <<>>
        /\ slots' = NoSlots /\ ready' = {} /\ overdue' = {}
        /\ UNCHANGED <<sent, open, late, punctual, got, generation, dropped>>
    BY <1>5 DEF ReapPanics
  <2>2. <<>> \in Seq(Conns) /\ ToSet(<<>>) = {} /\ IsInjective(<<>>)
    BY DEF ToSet, IsInjective
  <2>3. Held \subseteq all
    BY <1>0 DEF TablesInv
  <2>. HIDE DEF all
  <2>4. /\ place' \in [Conns -> Places] /\ Held' = {}
        /\ \A c \in Conns : place'[c] = "client" => place[c] = "client"
    BY <1>0, <2>1, <2>3 DEF TablesInv, Move, Places, Held
  <2>5. TablesInv'
    BY <1>0, <2>1, <2>2, <2>4, TablesStep DEF TablesInv
  <2>6. RoundInv'
    BY <1>0, <2>1 DEF RoundInv, NoSlots
  <2>. QED  BY <2>5, <2>6 DEF LoopInv
<1>6. CASE Refresh
  <2>1. TablesInv'
    BY <1>0, <1>6, RefreshedTables DEF Refresh
  <2>2. RoundInv'
    BY <1>0, <1>6 DEF Refresh, RoundInv
  <2>. QED  BY <2>1, <2>2 DEF LoopInv
<1>7. CASE Retain
  <2>. DEFINE silent == overdue \cap Clients
  <2>1. /\ pc' = "poll" /\ place' = Move(silent, "gone")
        /\ dropped' = LetGo(silent, "silent")
        /\ slots' = NoSlots /\ ready' = {} /\ overdue' = {}
        /\ UNCHANGED <<sent, open, late, punctual, subscribers, got, generation>>
    BY <1>7 DEF Retain
  <2>2. silent \cap Held = {}
    BY DEF Clients, Held
  <2>. HIDE DEF silent
  <2>3. TablesInv'
    BY <1>0, <2>1, <2>2, CloseTables
  <2>4. dropped' \in [Conns -> {"no", "silent", "reaped"}]
    BY <1>0, <2>1 DEF RoundInv, LetGo
  <2>5. RoundInv'
    BY <1>0, <2>1, <2>4 DEF RoundInv, NoSlots
  <2>. QED  BY <2>3, <2>5 DEF LoopInv
<1>8. CASE Restart
  <2>1. subscribers = <<>> /\ ToSet(<<>>) = {}
    BY <1>0, <1>8 DEF Restart, RoundInv, ToSet
  <2>2. Held = {}
    BY <1>0, <2>1 DEF TablesInv
  <2>3. TablesInv'
    BY <1>0, <1>8, <2>2, LoopAssumption DEF Restart, TablesInv, Clients, Held
  <2>4. RoundInv'
    BY <1>0, <1>8 DEF Restart, RoundInv
  <2>. QED  BY <2>3, <2>4 DEF LoopInv
<1>. QED  BY <1>1, <1>2, <1>3, <1>4, <1>5, <1>6, <1>7, <1>8

\* The tables agree with the places of the connections throughout the loop.
THEOREM LoopInvariant == Spec => []LoopInv
<1>1. LoopInv /\ UNCHANGED vars => LoopInv'
  <2>1. TablesInv /\ UNCHANGED vars => TablesInv'
    BY DEF TablesInv, Clients, Held, vars, tableVars, sentVars
  <2>2. RoundInv /\ UNCHANGED vars => RoundInv'
    BY DEF RoundInv, vars, peerVars, tableVars, roundVars
  <2>. QED  BY <2>1, <2>2 DEF LoopInv
<1>2. LoopInv /\ [Next]_vars => LoopInv'
  BY <1>1, PeerTables, HandleTables, LoopTables DEF Next, Loop
<1>. QED  BY InitTables, <1>2, PTL DEF Spec

\* Every variable keeps its type, the clients never outnumber MAX_CLIENTS
\* (main.rs's accept), and the table of subscribers holds exactly the
\* connections that subscribed, each once.
THEOREM TypeCorrect == Spec => []TypeOK
BY LoopInvariant, LoopInvSuffices, PTL

\* A subscriber held has been sent the generation that is served (main.rs's
\* publish, reap and Subscribe), with any number of connections and whatever
\* order requests, refreshes and removals come in.
THEOREM HeldSubscribersAreCurrent == Spec => []HeldAreCurrent
BY LoopInvariant, LoopInvSuffices, PTL
=============================================================================
