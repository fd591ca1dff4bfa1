---------------------------- MODULE Subscription ----------------------------
(***************************************************************************)
(* One connection that asks for roots, from trustd's write to the caller:  *)
(* control::send_roots cuts a set into chunks, one frame each, and writes  *)
(* them under a deadline; the socket holds a bounded amount; the client    *)
(* library (libtrust's subscription and its single exchange, and the       *)
(* bounded call of trust-client-core) reads piece by piece under its own   *)
(* deadlines and puts the snapshot together.                               *)
(*                                                                         *)
(* A frame is two pieces, so that a deadline can pass in the middle of one *)
(* on either side.                                                         *)
(***************************************************************************)
EXTENDS Naturals, SequencesExt

CONSTANTS
    RootSets,       \* sets of roots that may be served, as sequences
    ChunkSize,      \* ROOTS_PER_CHUNK
    MaxSnapshot,    \* MAX_SNAPSHOT_BYTES, in roots
    Capacity,       \* pieces the socket buffer holds
    MaxGeneration,  \* bound: generations
    MaxTimeouts     \* bound: receive deadlines that pass

ASSUME SubscriptionAssumption ==
    /\ ChunkSize \in Nat \ {0} /\ MaxSnapshot \in Nat /\ Capacity \in Nat \ {0}
    /\ MaxGeneration \in Nat \ {0} /\ MaxTimeouts \in Nat
    /\ \A s \in RootSets : s \in Seq(Nat)

VARIABLES
    history,        \* the set served under each generation
    kind,           \* what asks: subscribe, exchange (libtrust), call (core)
    held,           \* the daemon's end of the connection
    outbox,         \* pieces of the reply being written
    wire,           \* pieces in the socket buffer
    channel,        \* the client's end: open, or why it closed
    calling,        \* a receive call is under way
    incoming,       \* Channel.incoming: pieces of the frame being read
    pending,        \* frames of the snapshot being received
    update,         \* the last complete update; generation 0 is none
    timeouts

daemonVars == <<history, held, outbox>>
clientVars == <<kind, channel, calling, incoming, pending, update, timeouts>>
vars == <<daemonVars, wire, clientVars>>

Kinds == {"subscribe", "exchange", "call"}
NoUpdate == [generation |-> 0, roots |-> <<>>]

\* Every set that may be served is served first, to each kind of client.
Init ==
    /\ history \in {<<s>> : s \in RootSets}
    /\ kind \in Kinds
    /\ held = "waiting" /\ outbox = <<>> /\ wire = <<>>
    /\ channel = "open" /\ calling = FALSE
    /\ incoming = <<>> /\ pending = <<>>
    /\ update = NoUpdate /\ timeouts = 0

-----------------------------------------------------------------------------
(***************************************************************************)
(* The daemon.                                                             *)
(***************************************************************************)
ErrorFrame == [reply |-> "error", generation |-> 0, roots |-> <<>>, more |-> FALSE]
RootsFrame(g, roots, more) ==
    [reply |-> "roots", generation |-> g, roots |-> roots, more |-> more]

\* An empty set is one empty chunk.
ChunkCount(roots) ==
    IF roots = <<>> THEN 1 ELSE (Len(roots) + ChunkSize - 1) \div ChunkSize

\* send_roots: the frames of a set under a generation.
Frames(g, roots) ==
    [i \in 1..ChunkCount(roots) |->
        RootsFrame(g, SubSeq(roots, (i - 1) * ChunkSize + 1,
                             IF i * ChunkSize < Len(roots) THEN i * ChunkSize
                                                           ELSE Len(roots)),
                   i < ChunkCount(roots))]

Pieces(frames) ==
    [i \in 1..(2 * Len(frames)) |->
        [part |-> IF i % 2 = 1 THEN "head" ELSE "tail",
         frame |-> frames[(i + 1) \div 2]]]

Generation == Len(history)
Served == history[Generation]

\* The request arrives and is answered, with the set or with an error.
Answer ==
    /\ held = "waiting"
    /\ \/ outbox' = Pieces(Frames(Generation, Served)) /\ held' = "writing"
       \/ outbox' = Pieces(<<ErrorFrame>>) /\ held' = "refusing"
    /\ UNCHANGED <<history, wire, clientVars>>

\* write_frame: some bytes more, while the peer is there.
Write ==
    /\ outbox # <<>>
    /\ channel = "open"
    /\ Len(wire) < Capacity
    /\ wire' = Append(wire, Head(outbox))
    /\ outbox' = Tail(outbox)
    /\ UNCHANGED <<history, held, clientVars>>

\* Mutant of GiveUp: a peer that did not take the set in time is kept.
GiveUpKeeps ==
    /\ outbox # <<>>
    /\ held' = "subscribed"
    /\ outbox' = <<>>
    /\ UNCHANGED <<history, wire, clientVars>>

\* WRITE_TIMEOUT passes, or the peer is gone: the connection is dropped.
GiveUp ==
    /\ outbox # <<>>
    /\ held' = "closed"
    /\ outbox' = <<>>
    /\ UNCHANGED <<history, wire, clientVars>>

\* The reply is out: a subscriber that was not refused is kept.
Written ==
    /\ held \in {"writing", "refusing"} /\ outbox = <<>>
    /\ held' = IF kind = "subscribe" /\ held = "writing" THEN "subscribed"
                                                         ELSE "closed"
    /\ UNCHANGED <<history, outbox, wire, clientVars>>

\* Mutant of Publish: a subscriber with unread bytes is passed over.
PublishIfRead ==
    /\ held \notin {"writing", "refusing"} /\ Generation < MaxGeneration
    /\ \E s \in RootSets :
          /\ history' = Append(history, s)
          /\ IF held = "subscribed" /\ wire = <<>>
             THEN /\ held' = "writing"
                  /\ outbox' = Pieces(Frames(Generation + 1, s))
             ELSE UNCHANGED <<held, outbox>>
    /\ UNCHANGED <<wire, clientVars>>

\* A refresh serves a new generation and sends it to a subscriber.
Publish ==
    /\ held \notin {"writing", "refusing"} /\ Generation < MaxGeneration
    /\ \E s \in RootSets :
          /\ history' = Append(history, s)
          /\ IF held = "subscribed"
             THEN /\ held' = "writing"
                  /\ outbox' = Pieces(Frames(Generation + 1, s))
             ELSE UNCHANGED <<held, outbox>>
    /\ UNCHANGED <<wire, clientVars>>

\* The loop removes a subscriber that closed.
Reap ==
    /\ held = "subscribed" /\ channel # "open"
    /\ held' = "closed"
    /\ UNCHANGED <<history, outbox, wire, clientVars>>

\* The daemon dies; what was written can still be read.
Die ==
    /\ held # "closed"
    /\ held' = "closed" /\ outbox' = <<>>
    /\ UNCHANGED <<history, wire, clientVars>>

-----------------------------------------------------------------------------
(***************************************************************************)
(* The client.                                                             *)
(***************************************************************************)
\* What the frames of a snapshot amount to.
OneGeneration(replies) ==
    \A i \in DOMAIN replies : replies[i].generation = replies[1].generation

\* libtrust: receive_complete has stopped at the first frame without more.
Assembled(replies) == OneGeneration(replies)

\* trust_core::roots_of checks the run of replies again.
RootsOf(replies) ==
    /\ OneGeneration(replies)
    /\ \A i \in DOMAIN replies :
          replies[i].reply = "roots" /\ (replies[i].more <=> i < Len(replies))

RootsIn(replies) == FlattenSeq([i \in DOMAIN replies |-> replies[i].roots])

\* peios_trust_subscription_next, or the one call of the others.
NextCall ==
    /\ channel = "open" /\ ~calling
    /\ calling' = TRUE
    /\ UNCHANGED <<daemonVars, wire, kind, channel, incoming, pending, update,
                   timeouts>>

\* Channel::receive reads no further than the frame it is in.
Read ==
    /\ calling /\ Len(incoming) < 2 /\ wire # <<>>
    /\ incoming' = Append(incoming, Head(wire))
    /\ wire' = Tail(wire)
    /\ UNCHANGED <<daemonVars, kind, channel, calling, pending, update, timeouts>>

\* The call returns; an error other than a timeout closes the channel.
Close(why) ==
    /\ channel' = why
    /\ calling' = FALSE
    /\ pending' = <<>>

\* A whole frame: decoded, and taken by receive_complete or bounded_call.
Take ==
    /\ calling /\ Len(incoming) = 2
    /\ incoming' = <<>>
    /\ LET reply == incoming[2].frame
           replies == Append(pending, reply)
           whole == IF kind = "call" THEN RootsOf(replies) ELSE Assembled(replies)
       IN  \/ /\ reply.reply = "error"
              /\ Close("refused")
              /\ UNCHANGED update
           \/ /\ reply.reply = "roots" /\ Len(RootsIn(replies)) > MaxSnapshot
              /\ Close("too large")
              /\ UNCHANGED update
           \/ /\ reply.reply = "roots" /\ Len(RootsIn(replies)) <= MaxSnapshot
              /\ reply.more
              /\ pending' = replies
              /\ UNCHANGED <<channel, calling, update>>
           \/ /\ reply.reply = "roots" /\ Len(RootsIn(replies)) <= MaxSnapshot
              /\ ~reply.more
              /\ IF whole
                 THEN /\ update' = [generation |-> reply.generation,
                                    roots |-> RootsIn(replies)]
                      /\ Close(IF kind = "subscribe" THEN "open" ELSE "done")
                 ELSE Close("mixed") /\ UNCHANGED update
    /\ UNCHANGED <<daemonVars, wire, kind, timeouts>>

\* The stream ends in or between frames.
ReadEnd ==
    /\ calling /\ Len(incoming) < 2
    /\ wire = <<>> /\ held = "closed"
    /\ Close("ended")
    /\ UNCHANGED <<daemonVars, wire, kind, incoming, update, timeouts>>

\* Mutant of Timeout: the frames received so far are forgotten.
TimeoutForgets ==
    /\ calling /\ timeouts < MaxTimeouts
    /\ timeouts' = timeouts + 1
    /\ Close(IF kind = "subscribe" THEN "open" ELSE "timed out")
    /\ UNCHANGED <<daemonVars, wire, kind, incoming, update>>

\* Mutant of Timeout: the part of a frame received so far is forgotten.
TimeoutDropsFrame ==
    /\ calling /\ timeouts < MaxTimeouts
    /\ timeouts' = timeouts + 1
    /\ calling' = FALSE /\ incoming' = <<>>
    /\ UNCHANGED <<daemonVars, wire, kind, channel, pending, update>>

\* The call's deadline passes, wherever it is: a subscription keeps what it
\* has received; a single exchange is over.
Timeout ==
    /\ calling /\ timeouts < MaxTimeouts
    /\ timeouts' = timeouts + 1
    /\ IF kind = "subscribe"
       THEN calling' = FALSE /\ UNCHANGED <<channel, pending>>
       ELSE Close("timed out")
    /\ UNCHANGED <<daemonVars, wire, kind, incoming, update>>

\* peios_trust_subscription_free.
Free ==
    /\ kind = "subscribe" /\ channel = "open" /\ ~calling
    /\ Close("freed")
    /\ UNCHANGED <<daemonVars, wire, kind, incoming, update, timeouts>>

-----------------------------------------------------------------------------
Sending == Answer \/ Write \/ GiveUp \/ Written
Receiving == NextCall \/ Read \/ Take \/ ReadEnd

Next == Sending \/ Publish \/ Reap \/ Die \/ Receiving \/ Timeout \/ Free

Spec == Init /\ [][Next]_vars

\* The daemon's write ends by its deadline, and the caller keeps calling.
FairSpec == Spec /\ WF_vars(Sending) /\ WF_vars(Receiving)

-----------------------------------------------------------------------------
\* Types; and a client is always at a frame's edge or inside one frame.
TypeOK ==
    /\ Generation \in 1..MaxGeneration
    /\ \A i \in DOMAIN history : history[i] \in RootSets
    /\ kind \in Kinds
    /\ held \in {"waiting", "writing", "refusing", "subscribed", "closed"}
    /\ Len(wire) <= Capacity
    /\ channel \in {"open", "done", "refused", "too large", "mixed", "ended",
                    "timed out", "freed"}
    /\ calling \in BOOLEAN /\ timeouts \in 0..MaxTimeouts
    /\ Len(incoming) <= 2
    /\ \A i \in DOMAIN incoming :
          /\ incoming[i].part = IF i = 1 THEN "head" ELSE "tail"
          /\ incoming[i].frame = incoming[1].frame

\* "A subscription publishes complete generations" (the overview's words): an
\* update handed to the caller is exactly the set that was served under its
\* generation, however deadlines fell on either side and wherever the daemon
\* stopped writing.
UpdatesAreWhole ==
    update # NoUpdate =>
        update.generation \in DOMAIN history
        /\ update.roots = history[update.generation]

\* A client never meets chunks of two generations in one snapshot: a set that
\* was written in part is never followed by another on the same connection.
NeverMixed == channel # "mixed"

\* A subscriber whose caller keeps calling comes to hold the served set, or
\* learns that its connection is over; no silence in between.
CatchesUp ==
    <>[](channel = "open" => held = "subscribed" /\ update.generation = Generation)
=============================================================================
