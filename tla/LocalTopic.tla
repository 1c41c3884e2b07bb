----------------------------- MODULE LocalTopic -----------------------------
(* One program topic of the in-process network: the broker's subscribers,     *)
(* each with a bounded event queue and the flags its handle shares with the   *)
(* broker.  Every broker operation runs under the topics lock and is one      *)
(* step; the flags are read and set outside the lock, so a close is two.      *)
EXTENDS Naturals, FiniteSets, Sequences, SequencesExt

CONSTANTS
    Peers,
    Subs,       \* subscription handles, each used once
    Cap,        \* NEGOTIATION_EVENT_QUEUE_CAP
    MaxFacts,   \* bound: facts published
    MaxEvents   \* bound: events of a subscription that still joins peers

CapAssumption == Cap \in Nat \ {0} /\ MaxFacts \in Nat

VARIABLES
    handle,     \* per subscription: Unused, Open, Closing, Dropping, Shut, Gone
    owner,      \* per subscription: the subscribing peer
    registered, \* the broker's subscribers
    queue,      \* per subscription: undelivered events
    joined, closed, forced, laggedReported, closedReported,  \* LocalTopicState, as sets
    facts,      \* number of facts published
    sent,       \* history: facts published by others while the subscription was registered
    log,        \* history: events its recv returned
    ended       \* subscriptions whose recv has returned TopicClosed

flags == <<joined, closed, forced, laggedReported, closedReported>>
vars == <<handle, owner, registered, queue, flags, facts, sent, log, ended>>

Joined == [kind |-> "Joined"]
Lagged == [kind |-> "Lagged"]
Closed == [kind |-> "Closed"]
Up(p) == [kind |-> "Up", peer |-> p]
Down(p) == [kind |-> "Down", peer |-> p]
Fact(p, n) == [kind |-> "Fact", peer |-> p, n |-> n]

Events == {Joined, Lagged, Closed}
            \cup [kind : {"Up", "Down"}, peer : Peers]
            \cup [kind : {"Fact"}, peer : Peers, n : 1..MaxFacts]

TypeOK ==
    /\ handle \in [Subs -> {"Unused", "Open", "Closing", "Dropping", "Shut", "Gone"}]
    /\ owner \in [Subs -> Peers]
    /\ registered \subseteq Subs
    /\ \A s \in Subs : queue[s] \in Seq(Events) /\ Len(queue[s]) <= Cap
    /\ \A f \in {joined, closed, forced, laggedReported, closedReported, ended} : f \subseteq Subs
    /\ facts \in 0..MaxFacts
    /\ \A s \in Subs : log[s] \in Seq(Events) /\ sent[s] \in Seq(Events)

Init ==
    /\ handle = [s \in Subs |-> "Unused"]
    /\ owner \in [Subs -> Peers]
    /\ registered = {}
    /\ queue = [s \in Subs |-> <<>>]
    /\ joined = {} /\ closed = {} /\ forced = {} /\ laggedReported = {} /\ closedReported = {}
    /\ facts = 0
    /\ sent = [s \in Subs |-> <<>>] /\ log = [s \in Subs |-> <<>>]
    /\ ended = {}

-----------------------------------------------------------------------------
(* The broker                                                               *)

Room(s, events) == Len(queue[s]) + Len(events) <= Cap

\* What fits of the events is queued; a subscriber whose queue overflows is evicted.
Push(s, events) ==
    LET all == queue[s] \o events IN IF Len(all) <= Cap THEN all ELSE SubSeq(all, 1, Cap)

\* push: the events for each subscriber concerned.  Those that overflow are removed and their
\* state is forced closed.
Deliver(push) ==
    LET full == {s \in DOMAIN push : ~Room(s, push[s])} IN
      /\ queue' = [s \in Subs |-> IF s \in DOMAIN push THEN Push(s, push[s]) ELSE queue[s]]
      /\ registered' = registered \ full
      /\ forced' = forced \cup full /\ closed' = closed \cup full

\* enqueue_neighbor_up for each peer of the sequence: Joined comes first, once.
NeighborUps(s, peers) ==
    LET ups == [i \in 1..Len(peers) |-> Up(peers[i])] IN
      IF s \in joined \/ peers = <<>> THEN ups ELSE <<Joined>> \o ups

Present(p) == \E s \in registered : owner[s] = p

\* subscribe_topic: neighbours are the bootstrap peers that are subscribed now.  A subscriber
\* evicted while it joins notifies nobody.
Subscribe(s, bootstrap) ==
    /\ handle[s] = "Unused"
    /\ handle' = [handle EXCEPT ![s] = "Open"]
    /\ LET near == {p \in bootstrap : p # owner[s] /\ Present(p)}
           mine == NeighborUps(s, SetToSeq(near))
           notify == {t \in registered : owner[t] \in near}
       IN IF ~Room(s, mine)
            THEN /\ queue' = [queue EXCEPT ![s] = Push(s, mine)]
                 /\ forced' = forced \cup {s} /\ closed' = closed \cup {s}
                 /\ joined' = joined \cup {s} /\ UNCHANGED registered
            ELSE LET push == [t \in notify \cup {s} |->
                                IF t = s THEN mine ELSE NeighborUps(t, <<owner[s]>>)]
                     full == {t \in notify : ~Room(t, push[t])}
                 IN /\ queue' = [t \in Subs |-> IF t \in DOMAIN push THEN Push(t, push[t]) ELSE queue[t]]
                    /\ registered' = (registered \cup {s}) \ full
                    /\ forced' = forced \cup full /\ closed' = closed \cup full
                    /\ joined' = joined \cup notify \cup (IF near = {} THEN {} ELSE {s})
    /\ UNCHANGED <<owner, laggedReported, closedReported, facts, sent, log, ended>>

\* publish: to every other subscriber, also of the same peer.
Publish(s) ==
    /\ handle[s] = "Open" /\ s \notin closed /\ s \in registered
    /\ facts < MaxFacts
    /\ LET fact == Fact(owner[s], facts + 1) IN
         /\ Deliver([t \in registered \ {s} |-> <<fact>>])
         /\ sent' = [t \in Subs |-> IF t \in registered \ {s} THEN Append(sent[t], fact) ELSE sent[t]]
    /\ facts' = facts + 1
    /\ UNCHANGED <<handle, owner, joined, laggedReported, closedReported, log, ended>>

\* join_peers: only the caller is told; it may overflow its own queue.
JoinPeers(s, peers) ==
    /\ handle[s] = "Open" /\ s \notin closed /\ s \in registered
    /\ Len(log[s]) + Len(queue[s]) < MaxEvents
    /\ LET near == {p \in peers : p # owner[s] /\ Present(p)} IN
         /\ near # {}
         /\ Deliver([t \in {s} |-> NeighborUps(s, SetToSeq(near))])
         /\ joined' = joined \cup {s}
    /\ UNCHANGED <<handle, owner, laggedReported, closedReported, facts, sent, log, ended>>

\* close and Drop set the flag, then take the lock.
Close(s) ==
    /\ handle[s] = "Open" /\ s \notin closed
    /\ closed' = closed \cup {s}
    /\ handle' = [handle EXCEPT ![s] = "Closing"]
    /\ UNCHANGED <<owner, registered, queue, joined, forced, laggedReported, closedReported, facts,
                   sent, log, ended>>

\* Dropping a handle that was closed, or forced closed, touches nothing more.
DropHandle(s) ==
    /\ handle[s] \in {"Open", "Shut"}
    /\ closed' = closed \cup {s}
    /\ handle' = [handle EXCEPT ![s] = IF s \in closed THEN "Gone" ELSE "Dropping"]
    /\ UNCHANGED <<owner, registered, queue, joined, forced, laggedReported, closedReported, facts,
                   sent, log, ended>>

\* close_topic: the subscriber, unless it was evicted meanwhile, is told Closed (when closing, if
\* that fits) and removed; every other subscriber is told that a neighbour is down.
CloseTopic(s) ==
    /\ handle[s] \in {"Closing", "Dropping"}
    /\ handle' = [handle EXCEPT ![s] = IF handle[s] = "Closing" THEN "Shut" ELSE "Gone"]
    /\ IF s \notin registered THEN UNCHANGED <<registered, queue, closed, forced>>
       ELSE LET others == registered \ {s}
                full == {t \in others : ~Room(t, <<Down(owner[s])>>)}
                tell == handle[s] = "Closing"
            IN /\ queue' = [t \in Subs |->
                              IF t \in others THEN Push(t, <<Down(owner[s])>>)
                              ELSE IF t = s /\ tell THEN Push(s, <<Closed>>) ELSE queue[t]]
               /\ registered' = others \ full
               /\ forced' = forced \cup full \cup (IF tell /\ ~Room(s, <<Closed>>) THEN {s} ELSE {})
               /\ closed' = closed \cup full
    /\ UNCHANGED <<owner, joined, laggedReported, closedReported, facts, sent, log, ended>>

-----------------------------------------------------------------------------
(* receive_event                                                            *)

\* An evicted subscription reports Lagged, Closed and the end; what is queued is not read.
RecvForced(s) ==
    /\ handle[s] \in {"Open", "Shut"} /\ s \in forced /\ s \notin ended
    /\ laggedReported' = laggedReported \cup {s}
    /\ closedReported' = IF s \in laggedReported THEN closedReported \cup {s} ELSE closedReported
    /\ log' = [log EXCEPT ![s] = IF s \notin laggedReported THEN Append(@, Lagged)
                                 ELSE IF s \notin closedReported THEN Append(@, Closed) ELSE @]
    /\ ended' = IF s \in closedReported THEN ended \cup {s} ELSE ended
    /\ UNCHANGED <<handle, owner, registered, queue, joined, closed, forced, facts, sent>>

RecvEvent(s) ==
    /\ handle[s] \in {"Open", "Shut"} /\ s \notin forced /\ queue[s] # <<>>
    /\ log' = [log EXCEPT ![s] = Append(@, Head(queue[s]))]
    /\ queue' = [queue EXCEPT ![s] = Tail(@)]
    /\ UNCHANGED <<handle, owner, registered, flags, facts, sent, ended>>

\* The sender of the queue is gone once the subscriber is removed.
RecvEnd(s) ==
    /\ handle[s] \in {"Open", "Shut"} /\ s \notin forced /\ s \notin ended
    /\ queue[s] = <<>> /\ s \notin registered
    /\ ended' = ended \cup {s}
    /\ UNCHANGED <<handle, owner, registered, queue, flags, facts, sent, log>>

Recv(s) == RecvForced(s) \/ RecvEvent(s) \/ RecvEnd(s)

-----------------------------------------------------------------------------
Next == \E s \in Subs :
    \/ \E near \in SUBSET Peers : Subscribe(s, near) \/ JoinPeers(s, near)
    \/ Publish(s) \/ Close(s) \/ DropHandle(s) \/ CloseTopic(s) \/ Recv(s)

Spec == Init /\ [][Next]_vars

\* A holder of a subscription keeps calling recv, and a close that began takes the lock.
Fairness == \A s \in Subs : WF_vars(Recv(s)) /\ WF_vars(CloseTopic(s))

FairSpec == Spec /\ Fairness

-----------------------------------------------------------------------------
(* Properties                                                               *)

FactsOf(events) == SelectSeq(events, LAMBDA e : e.kind = "Fact")

\* Unless it was evicted, a subscription has, delivered or queued, every fact that other
\* subscriptions published while it was registered, in publication order and once.
NoGaps == \A s \in Subs \ forced : FactsOf(log[s] \o queue[s]) = sent[s]

\* A receiver that reads to the end either saw every fact in order or was told Lagged, and what it
\* saw is a prefix in any case; the end is announced last (receive_event).
LossIsReported ==
    \A s \in Subs :
      /\ IsPrefix(FactsOf(log[s]), sent[s])
      /\ s \in ended /\ FactsOf(log[s]) # sent[s] => Contains(log[s], Lagged)
      /\ \A i \in 1..Len(log[s]) :
           /\ log[s][i] = Closed => i = Len(log[s])
           /\ log[s][i] = Lagged => i >= Len(log[s]) - 1

\* The last word a subscriber has of a peer that left without being evicted is not "up", and it
\* heard Joined, once, before the first neighbour.
LeftNeighborsAreDown ==
    \A s \in registered :
      LET heard == log[s] \o queue[s] IN
        /\ \A p \in Peers :
             LET about == SelectSeq(heard, LAMBDA e : e.kind \in {"Up", "Down"} /\ e.peer = p) IN
               (about # <<>> /\ Last(about).kind = "Up")
                 => (Present(p) \/ \E t \in forced : owner[t] = p)
        /\ \A i, j \in 1..Len(heard) :
             heard[i].kind = "Up" /\ heard[j] = Joined => j < i
        /\ Cardinality({i \in 1..Len(heard) : heard[i] = Joined}) <= 1

Removed(s) == (handle[s] = "Open" /\ s \in closed) \/ handle[s] = "Shut"
Finished(s) == s \in ended \/ handle[s] = "Gone"

\* A subscription that the broker no longer has comes to its end at the receiver, whether it was
\* closed or evicted, unless its holder drops it.
RemovedSubscriptionsEnd == \A s \in Subs : Removed(s) ~> Finished(s)
=============================================================================
