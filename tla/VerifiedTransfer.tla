-------------------------- MODULE VerifiedTransfer --------------------------
(***************************************************************************)
(* Two transfers in opposite directions (programs/verified-transfer with   *)
(* the primitive arena0-primitives verified_transfer.rs): direct messages  *)
(* carry leaf values and leaves one at a time, the receiver verifies them  *)
(* and authors the agreed result, and the results are agreed in transfer   *)
(* order.                                                                  *)
(*                                                                         *)
(* Direct messages arrive once and in order, crashes included: that is     *)
(* what the module DirectLane establishes. BLAKE3 values are the data they *)
(* are computed from.                                                      *)
(***************************************************************************)
EXTENDS Naturals, Sequences, SequencesExt

CONSTANTS
  None, Bad,
  InputSender,        \* the participant that sends transfer 0
  LeafCount,          \* leaves of the two objects
  LeavesPerMessage,   \* 63 in the code
  Readable,           \* transfers whose object the sender's Host can read
  StoreFails,         \* whether the receiver's store may refuse a leaf
  Faulty, MaxStrays   \* participants that send direct messages of their own

VerifiedTransferAssumption ==
  /\ InputSender \in {0, 1} /\ LeafCount \in [{0, 1} -> Nat \ {0}]
  /\ LeavesPerMessage \in Nat \ {0} /\ Readable \subseteq {0, 1}
  /\ StoreFails \in BOOLEAN /\ MaxStrays \in Nat

VARIABLES
  log, applied, frozen, shared, local, outgoing, ended, strayed,
  fired,        \* Send timers that have fired, by participant
  lanes,        \* direct messages of a participant, until they settle
  store         \* leaves that a receiver has stored, by transfer

session == <<log, applied, frozen, shared, local, outgoing, ended, strayed>>
vars == <<session, fired, lanes, store>>

Participants == {0, 1}
Transfers == {0, 1}

Sender(t) == IF t = 0 THEN InputSender ELSE 1 - InputSender
Receiver(t) == 1 - Sender(t)

Leaf(t, i) == <<t, i>>
Cv(content, i) == [content |-> content, at |-> i]
Object(t) == [i \in 1..LeafCount[t] |-> Leaf(t, i)]

Batches(t) == (LeafCount[t] + LeavesPerMessage - 1) \div LeavesPerMessage

----------------------------------------------------------------------------
(* Agreed messages: the result of a transfer, from its receiver. *)

InitShared == [t \in Transfers |-> None]

NewProgress == [sent |-> 0, leaves |-> << >>, appended |-> 0, offered |-> FALSE]

InitLocal == [progress |-> [t \in Transfers |-> NewProgress], held |-> None]

NextSender(s) ==
  IF s[0] = None THEN Receiver(0) ELSE IF s[1] = None THEN Receiver(1) ELSE None

OnSessionStarted(me, s, l) == {[shared |-> s, local |-> l, out |-> << >>, end |-> FALSE]}

\* on_message: the held result follows when its turn comes. A message out of
\* turn is rejected; a fault of the primitive's handle (not from the receiver,
\* or the result is set) traps, which the Host also takes for a rejection.
OnMessage(me, s, l, from, m) ==
  IF NextSender(s) # from \/ from # Receiver(m.t) \/ s[m.t] # None THEN {}
  ELSE LET t == [s EXCEPT ![m.t] = m.status]
           due == l.held # None /\ NextSender(t) = me
       IN {[shared |-> t, local |-> IF due THEN [l EXCEPT !.held = None] ELSE l,
            out |-> IF due THEN <<l.held>> ELSE << >>, end |-> NextSender(t) = None]}

Callout(me, s, l) == FALSE
OnInput(me, s, l, a) == {}

S == INSTANCE ProgramSession WITH Answers <- {}, Strays <- {}

----------------------------------------------------------------------------
(* Direct messages *)

DLeaves(t, first, cvs) == [kind |-> "Leaves", t |-> t, first |-> first, cvs |-> cvs]
DChunk(t, content) == [kind |-> "Chunk", t |-> t, content |-> content]
DNext(t) == [kind |-> "Next", t |-> t]
DMissing(t) == [kind |-> "Missing", t |-> t]

Push(lane, m) == Append(lane, [msg |-> m, done |-> FALSE])

\* send_step: what the sender sends as its step-th message, and its count of
\* messages sent; a step that finds nothing to read is not counted.
SendStep(t, step, sent) ==
  IF step >= Batches(t)
    THEN [msg |-> DChunk(t, Leaf(t, step - Batches(t) + 1)), sent |-> step + 1]
  ELSE IF t \notin Readable THEN [msg |-> DMissing(t), sent |-> sent]
  ELSE LET first == step * LeavesPerMessage
           last == IF first + LeavesPerMessage < LeafCount[t]
                     THEN first + LeavesPerMessage ELSE LeafCount[t]
       IN [msg |-> DLeaves(t, first,
                     [i \in 1..last - first |-> Cv(Leaf(t, first + i), first + i)]),
           sent |-> step + 1]

\* What handling a direct message does: progress of its transfer, an answer,
\* a result to agree on, and whether a leaf was stored.
Outcome(pr, answer, result, stored) ==
  [progress |-> pr, answer |-> answer, result |-> result, stored |-> stored]

Offer(pr, t, status, stored) ==
  Outcome([pr EXCEPT !.offered = TRUE], None, [t |-> t, status |-> status], stored)

Ignore(pr) == Outcome(pr, None, None, FALSE)

ReceiveLeaves(pr, t, first, cvs) ==
  LET all == pr.leaves \o cvs
      rootMatches == all = [i \in 1..LeafCount[t] |-> Cv(Leaf(t, i), i)]
  IN IF \/ first # Len(pr.leaves) \/ cvs = << >>
        \/ Len(cvs) > LeavesPerMessage \/ Len(all) > LeafCount[t]
       THEN Offer(pr, t, "Failed", FALSE)
     ELSE IF Len(all) = LeafCount[t] /\ LeafCount[t] >= 2 /\ ~rootMatches
       THEN Offer([pr EXCEPT !.leaves = all], t, "Failed", FALSE)
     ELSE Outcome([pr EXCEPT !.leaves = all], DNext(t), None, FALSE)

\* A leaf is checked against its value before it is stored, and the whole
\* object against the agreed hash when the last leaf is stored.
ReceiveChunk(pr, t, content, stored, accepts) ==
  LET i == pr.appended + 1 IN
  IF \/ Len(pr.leaves) # LeafCount[t] \/ content = None
     \/ pr.leaves[i] # Cv(content, i) \/ ~accepts
    THEN Offer(pr, t, "Failed", FALSE)
  ELSE LET p == [pr EXCEPT !.appended = i] IN
       IF i < LeafCount[t] THEN Outcome(p, DNext(t), None, TRUE)
       ELSE Offer(p, t, IF Append(stored, content) = Object(t) THEN "Complete" ELSE "Failed",
                  TRUE)

\* VerifiedTransfer::on_direct for the participant me.
OnDirect(me, s, pr, m, stored, accepts) ==
  CASE s[m.t] # None -> Ignore(pr)
    [] s[m.t] = None /\ me = Sender(m.t) ->
         IF m.kind # "Next" \/ pr.sent = Batches(m.t) + LeafCount[m.t] THEN Ignore(pr)
         ELSE LET step == SendStep(m.t, pr.sent, pr.sent)
              IN Outcome([pr EXCEPT !.sent = step.sent], step.msg, None, FALSE)
    [] s[m.t] = None /\ me = Receiver(m.t) ->
         CASE pr.offered \/ m.kind = "Next" -> Ignore(pr)
           [] ~pr.offered /\ m.kind = "Leaves" -> ReceiveLeaves(pr, m.t, m.first, m.cvs)
           [] ~pr.offered /\ m.kind = "Chunk" ->
                ReceiveChunk(pr, m.t, m.content, stored, accepts)
           [] ~pr.offered /\ m.kind = "Missing" -> Offer(pr, m.t, "Failed", FALSE)

----------------------------------------------------------------------------

Init ==
  /\ S!Init
  /\ fired = [p \in Participants |-> {}]
  /\ lanes = [p \in Participants |-> << >>]
  /\ store = [t \in Transfers |-> << >>]

\* Guest calls that are not agreed wait while a step is being certified.
MayRun(p) == applied[p] > 0 /\ p \notin frozen /\ ~ended[p]

\* The Send timer, armed for both transfers at every participant.
Fire(p) ==
  /\ MayRun(p)
  /\ \E t \in Transfers \ fired[p] :
       /\ fired' = [fired EXCEPT ![p] = @ \cup {t}]
       /\ IF p # Sender(t) \/ shared[p][t] # None THEN UNCHANGED <<lanes, local>>
          ELSE LET step == SendStep(t, 0, local[p].progress[t].sent) IN
               /\ lanes' = [lanes EXCEPT ![p] = Push(@, step.msg)]
               /\ local' = [local EXCEPT ![p].progress[t].sent = step.sent]
  /\ UNCHANGED <<log, applied, frozen, shared, outgoing, ended, strayed, store>>

\* on_direct of the program for the oldest message: a result is broadcast when
\* it is this participant's turn, otherwise held.
Dispatch(p) ==
  LET q == 1 - p
  IN /\ MayRun(p) /\ lanes[q] # << >> /\ ~Head(lanes[q]).done
     /\ \E accepts \in {TRUE, ~StoreFails} :
          LET m == Head(lanes[q]).msg
              r == OnDirect(p, shared[p], local[p].progress[m.t], m, store[m.t], accepts)
              turn == NextSender(shared[p]) = p
          IN /\ local' = [local EXCEPT
                            ![p].progress[m.t] = r.progress,
                            ![p].held = IF r.result # None /\ ~turn THEN r.result ELSE @]
             /\ outgoing' = [outgoing EXCEPT ![p] =
                               IF r.result # None /\ turn THEN Append(@, r.result) ELSE @]
             /\ store' = IF r.stored THEN [store EXCEPT ![m.t] = Append(@, m.content)]
                         ELSE store
             /\ lanes' = [lanes EXCEPT ![q][1].done = TRUE,
                            ![p] = IF r.answer # None THEN Push(@, r.answer) ELSE @]
     /\ UNCHANGED <<log, applied, frozen, shared, ended, strayed, fired>>

\* The acknowledgement of a dispatched message reaches its sender.
Settle(p) ==
  /\ lanes[p] # << >> /\ Head(lanes[p]).done
  /\ lanes' = [lanes EXCEPT ![p] = Tail(@)]
  /\ UNCHANGED <<session, fired, store>>

StrayMessages(t) ==
  {DLeaves(t, 0, [i \in 1..n |-> Cv(Bad, i)]) : n \in 0..LeafCount[t]}
  \cup {DLeaves(t, 1, <<Cv(Bad, 1)>>), DChunk(t, Bad), DChunk(t, None), DMissing(t)}
  \cup {DChunk(t, Leaf(t, i)) : i \in 1..LeafCount[t]}

StrayDirect(p) ==
  /\ p \in Faulty /\ strayed < MaxStrays /\ MayRun(p)
  /\ \E t \in Transfers : \E m \in StrayMessages(t) :
       p = Sender(t) /\ lanes' = [lanes EXCEPT ![p] = Push(@, m)]
  /\ strayed' = strayed + 1
  /\ UNCHANGED <<log, applied, frozen, shared, local, outgoing, ended, fired, store>>

Agreed(p) ==
  /\ S!Apply(p) \/ S!Certify(p) \/ S!AuthorNext(p) \/ S!DropRejected(p)
  /\ UNCHANGED <<fired, lanes, store>>

Next == \E p \in Participants :
  Agreed(p) \/ Fire(p) \/ Dispatch(p) \/ Settle(p) \/ StrayDirect(p)

Spec == Init /\ [][Next]_vars

\* What Hosts owe: they keep working and deliver direct messages.
Work == \E p \in Participants : Agreed(p) \/ Fire(p) \/ Dispatch(p) \/ Settle(p)

FairSpec == Spec /\ WF_vars(Work)

----------------------------------------------------------------------------
(* Properties *)

\* A transfer that the Hosts agree is complete left its receiver with the
\* agreed object, whatever the sender sent.
CompleteMeansReceived ==
  \A p \in Participants, t \in Transfers :
    shared[p][t] = "Complete" => store[t] = Object(t)

\* No byte is stored that is not of the agreed object, as soon as the object
\* has more than one leaf: its leaf values are checked before the first leaf.
OnlyVerifiedLeavesStored ==
  \A t \in Transfers : LeafCount[t] >= 2 => IsPrefix(store[t], Object(t))

\* An honest sender with the object and a working store never fail.
HonestTransfersComplete ==
  \A t \in Readable : Sender(t) \notin Faulty /\ ~StoreFails =>
    \A p \in Participants : shared[p][t] # "Failed"

\* Stop and wait: each direction holds at most two messages of a transfer, so
\* that the direct queue is never full.
TwoPerDirection ==
  \A p \in Participants \ Faulty, t \in Transfers :
    Len(SelectSeq(lanes[p], LAMBDA e : e.msg.t = t)) <= 2

\* Both replicas record the same results.
ReplicasAgree == S!ReplicasAgree
=============================================================================
