----------------------------- MODULE DirectLane -----------------------------
(***************************************************************************)
(* Direct messages between participants (arena0-protocol execution/        *)
(* direct.rs and state.rs, arena0-node execution/delivery.rs and           *)
(* guest.rs): per-peer queues in the durable aggregate, a send lane per    *)
(* peer that direct traffic shares with protocol frames, and a receiver    *)
(* that applies the next sequence number only.                             *)
(*                                                                         *)
(* Agreement itself is module Execution's; here a participant stages a     *)
(* step, which freezes its guest, settles it, and ends, whenever it likes. *)
(* A staged step, a certificate and a conclusion are protocol frames it    *)
(* owes its peers and that go first.                                       *)
(***************************************************************************)
EXTENDS Naturals, Sequences, FiniteSets

CONSTANTS
  Participants,
  Payloads,           \* the control messages programs send
  None,               \* an absent value
  MaxDirectQueue,     \* MAX_DIRECT_QUEUE
  \* Bounds of the model.
  MaxSent,            \* MaxSent[p]: direct messages p sends to one peer
  MaxSteps,           \* MaxSteps[p]: steps p stages
  MaxCrashes, MaxTimeouts

ASSUME DirectAssumption ==
  /\ MaxDirectQueue \in Nat \ {0}
  /\ {MaxSent, MaxSteps} \subseteq [Participants -> Nat]
  /\ {MaxCrashes, MaxTimeouts} \subseteq Nat

VARIABLES
  direct,     \* direct[p][q]: p's DirectLane for q, durable
  mode,       \* "Active", "Staged" (a proposal freezes the guest) or "Ended"
  owed,       \* owed[p]: peers p's lane still owes a protocol frame
  send,       \* send[p][q]: the direct frame in flight, with its answer
  retry,      \* retry[p]: peers with direct_retry_at in the future
  late,       \* frames of sends given up on, which may still arrive
  sent, handed,   \* what programs sent and were given, see DirectChannel
  budget      \* what is left of the bounds

vars == <<direct, mode, owed, send, retry, late, sent, handed, budget>>

DirectEntry == [seq : Nat, msg : Payloads]

Lane == [last_queued : Nat, queue : Seq(DirectEntry), last_applied : Nat]

NewLane == [last_queued |-> 0, queue |-> <<>>, last_applied |-> 0]

Answers == {"Pending", "Ack", "Rejected", "NotYet", "Error"}

TypeOK ==
  /\ direct \in [Participants -> [Participants -> Lane]]
  /\ mode \in [Participants -> {"Active", "Staged", "Ended"}]
  /\ owed \in [Participants -> SUBSET Participants]
  /\ send \in [Participants -> [Participants ->
                 [entry : DirectEntry, answer : Answers] \cup {None}]]
  /\ retry \in [Participants -> SUBSET Participants]
  /\ late \subseteq [from : Participants, to : Participants,
                     entry : DirectEntry]
  /\ sent \in [Participants -> [Participants -> Seq(Payloads)]]
  /\ handed \in [Participants -> [Participants -> Seq(Payloads)]]
  /\ budget \in [steps : [Participants -> Nat],
                 crashes : 0..MaxCrashes, timeouts : 0..MaxTimeouts]

OthersOf(p) == Participants \ {p}

Init ==
  /\ direct = [p \in Participants |-> [q \in Participants |-> NewLane]]
  /\ mode = [p \in Participants |-> "Active"]
  /\ owed = [p \in Participants |-> {}]
  /\ send = [p \in Participants |-> [q \in Participants |-> None]]
  /\ retry = [p \in Participants |-> {}]
  /\ late = {}
  /\ sent = [p \in Participants |-> [q \in Participants |-> <<>>]]
  /\ handed = sent
  /\ budget = [steps |-> MaxSteps,
               crashes |-> MaxCrashes, timeouts |-> MaxTimeouts]

-----------------------------------------------------------------------------
(* The durable lane.                                                       *)

DirectQueue(p, q) == direct[p][q].queue

\* One SendDirect effect of an accepted local dispatch.
Enqueue(lane, msg) ==
  LET seq == lane.last_queued + 1 IN
  [lane EXCEPT !.last_queued = seq,
               !.queue = Append(@, [seq |-> seq, msg |-> msg])]

MayQueue(p, q) ==
  /\ Len(DirectQueue(p, q)) < MaxDirectQueue
  /\ Len(sent[p][q]) < MaxSent[p]

DirectArrival(last, seq) ==
  IF seq <= last THEN "Duplicate"
  ELSE IF seq = last + 1 THEN "Next" ELSE "Gap"

RecordDirect(lane, seq) == [lane EXCEPT !.last_applied = seq]

\* retain: the entries numbered beyond seq, in their order.
Retained(queue, seq) ==
  LET kept    == {i \in DOMAIN queue : queue[i].seq > seq}
      Rank(i) == Cardinality({k \in kept : k <= i})
  IN [j \in 1..Cardinality(kept) |-> queue[CHOOSE i \in kept : Rank(i) = j]]

AckDirect(lane, seq) == [lane EXCEPT !.queue = Retained(@, seq)]

\* begin_end forgets the queues and keeps the sequence history.
ClearQueues(lanes) == [q \in Participants |-> [lanes[q] EXCEPT !.queue = <<>>]]

-----------------------------------------------------------------------------
(* The guest and agreement.                                                *)

\* An accepted input or timer whose handler sends one direct message.
LocalEvent(p, q, msg) ==
  /\ mode[p] = "Active"
  /\ q \in OthersOf(p)
  /\ MayQueue(p, q)
  /\ direct' = [direct EXCEPT ![p][q] = Enqueue(@, msg)]
  /\ sent' = [sent EXCEPT ![p][q] = Append(@, msg)]
  /\ UNCHANGED <<mode, owed, send, retry, late, handed, budget>>

Stage(p) ==
  /\ mode[p] = "Active"
  /\ budget.steps[p] > 0
  /\ budget' = [budget EXCEPT !.steps[p] = @ - 1]
  /\ mode' = [mode EXCEPT ![p] = "Staged"]
  /\ owed' = [owed EXCEPT ![p] = OthersOf(p)]
  /\ UNCHANGED <<direct, send, retry, late, sent, handed>>

\* The staged step is certified; the certificate is owed now.
Certify(p) ==
  /\ mode[p] = "Staged"
  /\ mode' = [mode EXCEPT ![p] = "Active"]
  /\ owed' = [owed EXCEPT ![p] = OthersOf(p)]
  /\ UNCHANGED <<direct, send, retry, late, sent, handed, budget>>

\* A terminal step or a stop enters EndPhase::Ending.
BeginEnd(p) ==
  /\ mode[p] # "Ended"
  /\ mode' = [mode EXCEPT ![p] = "Ended"]
  /\ owed' = [owed EXCEPT ![p] = OthersOf(p)]
  /\ direct' = [direct EXCEPT ![p] = ClearQueues(@)]
  /\ UNCHANGED <<send, retry, late, sent, handed, budget>>

-----------------------------------------------------------------------------
(* The send lane.                                                          *)

\* Some protocol frame reaches q and is acknowledged.
ProtocolSent(p, q) ==
  /\ send[p][q] = None
  /\ q \in owed[p]
  /\ owed' = [owed EXCEPT ![p] = @ \ {q}]
  /\ UNCHANGED <<direct, mode, send, retry, late, sent, handed, budget>>

\* deliver_frames picks the head when no protocol frame is eligible.
DeliverDirect(p, q) ==
  /\ send[p][q] = None
  /\ q \notin owed[p] /\ q \notin retry[p]
  /\ mode[p] # "Ended"
  /\ DirectQueue(p, q) # <<>>
  /\ send' = [send EXCEPT ![p][q] = [entry |-> Head(DirectQueue(p, q)),
                                     answer |-> "Pending"]]
  /\ UNCHANGED <<direct, mode, owed, retry, late, sent, handed, budget>>

\* Mutant: a transport error or `not yet` also drops the entry.
SettleAlwaysDrops(p, q) ==
  LET flight == send[p][q] IN
  /\ flight # None /\ flight.answer # "Pending"
  /\ send' = [send EXCEPT ![p][q] = None]
  /\ direct' = [direct EXCEPT ![p][q] = AckDirect(@, flight.entry.seq)]
  /\ retry' = [retry EXCEPT ![p] = @ \ {q}]
  /\ UNCHANGED <<mode, owed, late, sent, handed, budget>>

\* An acknowledgement or a refusal drops the entry; `not yet` and transport
\* errors delay the direct traffic of this lane only.
SettleDirect(p, q) ==
  LET flight == send[p][q]
      again  == flight.answer \in {"NotYet", "Error"}
  IN
  /\ flight # None /\ flight.answer # "Pending"
  /\ send' = [send EXCEPT ![p][q] = None]
  /\ IF again
     THEN /\ retry' = [retry EXCEPT ![p] = @ \cup {q}]
          /\ UNCHANGED direct
     ELSE /\ retry' = [retry EXCEPT ![p] = @ \ {q}]
          /\ direct' = [direct EXCEPT ![p][q] = AckDirect(@, flight.entry.seq)]
  /\ UNCHANGED <<mode, owed, late, sent, handed, budget>>

RetryDue(p, q) ==
  /\ q \in retry[p]
  /\ retry' = [retry EXCEPT ![p] = @ \ {q}]
  /\ UNCHANGED <<direct, mode, owed, send, late, sent, handed, budget>>

-----------------------------------------------------------------------------
(* The receiver.                                                           *)

\* A frame q may read: one in flight, or one whose send was given up.
Deliveries(q) ==
  {[from |-> p, entry |-> send[p][q].entry, fresh |-> TRUE] :
     p \in {p \in Participants :
              send[p][q] # None /\ send[p][q].answer = "Pending"}}
  \cup {[from |-> f.from, entry |-> f.entry, fresh |-> FALSE] :
          f \in {f \in late : f.to = q}}

Answer(q, d, answer) ==
  IF d.fresh
  THEN /\ send' = [send EXCEPT ![d.from][q] = [@ EXCEPT !.answer = answer]]
       /\ UNCHANGED late
  ELSE /\ late' = late \ {[from |-> d.from, to |-> q, entry |-> d.entry]}
       /\ UNCHANGED send

Arrival(q, d) == DirectArrival(direct[q][d.from].last_applied, d.entry.seq)

\* Answers that dispatch nothing. An ended participant acknowledges; where
\* its actor has retired, the router may ask for a retry while it wakes it.
AcceptDirect(q, d) ==
  /\ \/ mode[q] = "Ended" /\ \E a \in {"Ack", "NotYet"} : Answer(q, d, a)
     \/ /\ mode[q] # "Ended"
        /\ \/ Arrival(q, d) = "Duplicate" /\ Answer(q, d, "Ack")
           \/ Arrival(q, d) = "Gap" /\ Answer(q, d, "Rejected")
           \/ /\ Arrival(q, d) = "Next" /\ mode[q] = "Staged"
              /\ Answer(q, d, "NotYet")
  /\ UNCHANGED <<direct, mode, owed, retry, sent, handed, budget>>

\* Mutant: a refused frame is not recorded.
DispatchForgetful(q, d, reply) ==
  /\ mode[q] = "Active" /\ Arrival(q, d) = "Next"
  /\ reply # None => MayQueue(q, d.from)
  /\ LET to   == direct[q][d.from]
         lane == IF reply = None THEN to ELSE Enqueue(to, reply)
     IN direct' = [direct EXCEPT ![q][d.from] = lane]
  /\ handed' = [handed EXCEPT ![d.from][q] = Append(@, d.entry.msg)]
  /\ sent' = IF reply = None THEN sent
             ELSE [sent EXCEPT ![q][d.from] = Append(@, reply)]
  /\ Answer(q, d, "Ack")
  /\ UNCHANGED <<mode, owed, retry, budget>>

\* The next frame is dispatched. Its sequence number is durable with the
\* result of an accepted dispatch, which may send one message back, or alone
\* after a rejected one, which sends nothing.
DispatchDirect(q, d, reply) ==
  /\ mode[q] = "Active" /\ Arrival(q, d) = "Next"
  /\ reply # None => MayQueue(q, d.from)
  /\ LET seen == RecordDirect(direct[q][d.from], d.entry.seq)
         lane == IF reply = None THEN seen ELSE Enqueue(seen, reply)
     IN direct' = [direct EXCEPT ![q][d.from] = lane]
  /\ handed' = [handed EXCEPT ![d.from][q] = Append(@, d.entry.msg)]
  /\ sent' = IF reply = None THEN sent
             ELSE [sent EXCEPT ![q][d.from] = Append(@, reply)]
  /\ Answer(q, d, "Ack")
  /\ UNCHANGED <<mode, owed, retry, budget>>

-----------------------------------------------------------------------------
(* Faults.                                                                 *)

\* SEND_DEADLINE passes: the sender gives up, the frame or its answer may
\* still be under way.
SendTimeout(p, q) ==
  /\ send[p][q] # None /\ send[p][q].answer # "Error"
  /\ budget.timeouts > 0
  /\ budget' = [budget EXCEPT !.timeouts = @ - 1]
  /\ late' = IF send[p][q].answer = "Pending"
             THEN late \cup {[from |-> p, to |-> q, entry |-> send[p][q].entry]}
             ELSE late
  /\ send' = [send EXCEPT ![p][q] = [@ EXCEPT !.answer = "Error"]]
  /\ UNCHANGED <<direct, mode, owed, retry, sent, handed>>

\* The daemon of p dies and its actor recovers from the durable state: send
\* lanes and their clocks are gone, answers to and from it are lost, frames
\* it had sent may still arrive, and everything current is owed again.
Crash(p) ==
  /\ budget.crashes > 0
  /\ budget' = [budget EXCEPT !.crashes = @ - 1]
  /\ \E arriving \in SUBSET {q \in OthersOf(p) :
                        send[p][q] # None /\ send[p][q].answer = "Pending"} :
       late' = late \cup {[from |-> p, to |-> q, entry |-> send[p][q].entry] :
                            q \in arriving}
  /\ send' = [r \in Participants |-> [q \in Participants |->
                IF r = p THEN None
                ELSE IF q = p /\ send[r][q] # None
                     THEN [send[r][q] EXCEPT !.answer = "Error"]
                     ELSE send[r][q]]]
  /\ retry' = [retry EXCEPT ![p] = {}]
  /\ owed' = [owed EXCEPT ![p] = OthersOf(p)]
  /\ UNCHANGED <<direct, mode, sent, handed>>

-----------------------------------------------------------------------------

Receive(q, d) ==
  \/ AcceptDirect(q, d)
  \/ \E reply \in Payloads \cup {None} : DispatchDirect(q, d, reply)

Next ==
  \/ \E p, q \in Participants : \E msg \in Payloads : LocalEvent(p, q, msg)
  \/ \E p \in Participants : Stage(p) \/ Certify(p) \/ BeginEnd(p) \/ Crash(p)
  \/ \E p, q \in Participants :
       \/ ProtocolSent(p, q) \/ DeliverDirect(p, q) \/ SettleDirect(p, q)
       \/ RetryDue(p, q) \/ SendTimeout(p, q)
  \/ \E q \in Participants : \E d \in Deliveries(q) : Receive(q, d)

Spec == Init /\ [][Next]_vars

(***************************************************************************)
(* Fairness. The actor's ticker runs deliver_frames every 50 ms, its loop  *)
(* serves every settled send and every waiting delivery, and clocks        *)
(* advance. Agreement, programs, ends and faults owe nothing: a staged     *)
(* step may stay staged.                                                   *)
(***************************************************************************)
Serves(p, q) == \E d \in Deliveries(q) : d.fresh /\ d.from = p /\ Receive(q, d)

Fairness ==
  \A p, q \in Participants :
    /\ WF_vars(ProtocolSent(p, q)) /\ WF_vars(DeliverDirect(p, q))
    /\ WF_vars(SettleDirect(p, q)) /\ WF_vars(RetryDue(p, q))
    /\ WF_vars(Serves(p, q))

FairSpec == Spec /\ Fairness

-----------------------------------------------------------------------------
(* Properties.                                                             *)

\* For sender p and receiver q, what q applied and what p still queues are
\* one gapless run of p's numbers: q lags p by at most the queue, and an
\* entry leaves p's queue only after q recorded it. Lost answers, crashes of
\* either and late frames cannot make q skip or repeat a message, unless p
\* has ended and dropped its queue or q has ended and acknowledges unread.
QueueMatchesItsCursor ==
  \A p \in Participants : \A q \in OthersOf(p) :
    LET lane == direct[p][q]
        seen == direct[q][p].last_applied
    IN
    /\ \A i \in DOMAIN lane.queue :
         /\ lane.queue[i].seq = lane.last_queued - Len(lane.queue) + i
         /\ lane.queue[i].msg = sent[p][q][lane.queue[i].seq]
    /\ seen <= lane.last_queued
    /\ mode[p] # "Ended" /\ mode[q] # "Ended" =>
         lane.last_queued - Len(lane.queue) <= seen

\* No live receiver ever meets a frame beyond the next one, so accept_frame
\* never has to refuse a direct frame of an honest sender, and a refusal
\* never makes the sender drop a message nobody has seen.
NoGapArrives ==
  \A q \in Participants : mode[q] # "Ended" =>
    \A d \in Deliveries(q) : Arrival(q, d) # "Gap"

\* The queue of direct.rs and the cursor of its reader bound one gapless run of
\* numbers, and no frame under way lies beyond it.
LaneIsGapless == QueueMatchesItsCursor /\ NoGapArrives

Channel == INSTANCE DirectChannel
             WITH open <- {p \in Participants : mode[p] # "Ended"}

\* The lanes are the reliable channel the documentation promises programs:
\* once and in order, across crashes, timeouts and freezes.
ImplementsChannel == Channel!ChannelSpec

Lags(p, q) == handed[p][q] # sent[p][q]

Caught(p, q) ==
  \/ handed[p][q] = sent[p][q]
  \/ mode[q] = "Staged"
  \/ mode[p] = "Ended" \/ mode[q] = "Ended"

\* A message sent is eventually handed over unless one of the two ends or the
\* receiver's guest stays frozen by a staged step: a freeze that passes,
\* protocol traffic that goes first, lost answers and restarts only delay it,
\* and so does a step of the sender that is never settled.
EveryMessageIsHanded ==
  \A p \in Participants : \A q \in OthersOf(p) : Lags(p, q) ~> Caught(p, q)

=============================================================================
