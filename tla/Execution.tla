------------------------------ MODULE Execution ------------------------------
(***************************************************************************)
(* One session of N participants: an execution actor per participant       *)
(* (arena0-node, execution/actor.rs, guest.rs, delivery.rs, terminal.rs),  *)
(* the router that answers for retired actors (router.rs), and a transport *)
(* that may delay, lose and repeat frames.                                 *)
(*                                                                         *)
(* An actor is serial. A command (an inbound frame, a settled send, an     *)
(* answer, a stop request) is one action, after which the actor must run   *)
(* progress() before it takes the next one: pc is "progress". Each persist *)
(* is one step, so a crash can fall between any two of them; a crash loses *)
(* the send lanes and keeps the durable state.                             *)
(***************************************************************************)
EXTENDS ExecutionState, Functions

CONSTANTS
  Accepts(_, _, _),     \* does the program accept, after a trace, a
                        \* message with this author and data?
  Asks(_, _, _),        \* does the program, after a trace and in this local
                        \* memory, hold an event (callout, timer) open for p?
  MaxBroadcasts,        \* bound: broadcasts of one participant
  Budget                \* bound: crashes, send timeouts, stops, expired windows

ASSUME BroadcastAssumption == MaxBroadcasts \in Nat

ASSUME BudgetAssumption ==
  Budget \in [{"crash", "timeout", "stop", "window"} -> Nat]

\* A session has participants: an ensemble holds at least its own Host.
ASSUME EnsembleAssumption == Participants # {}

VARIABLES
  st,       \* st[p]: p's durable execution state
  pc,       \* pc[p]: where p's actor is in its loop
  lanes,    \* lanes[p][q]: p's in-memory send lane to q
  late,     \* frames whose sender gave up waiting; they may still arrive
  signed,   \* signed[p]: every commitment p has durably signed (history)
  budget    \* what is left of Budget

vars == <<st, pc, lanes, late, signed, budget>>

-----------------------------------------------------------------------------
(* Send lanes. retry is the retry_at clock still running; send is the one  *)
(* outstanding frame and the answer the peer gave.                         *)

Answers == {"Pending", "Ack", "NotYet", "Rejected", "Conflict"}

NewLane ==
  [acked |-> {}, rejected |-> {}, suppressed |-> FALSE, retry |-> FALSE,
   send |-> None]

Sent(frame, answer) == [frame |-> frame, answer |-> answer]

SetLane(table, p, q, lane) ==
  [table EXCEPT ![p] = [@ EXCEPT ![q] = lane]]

IsPending(p, q) ==
  lanes[p][q].send # None /\ lanes[p][q].send.answer = "Pending"

Transit(p, q, f) == [source |-> p, dest |-> q, frame |-> f]

\* The frames p's tasks have sent and not seen answered.
Outstanding(p) ==
  {Transit(p, q, lanes[p][q].send.frame) : q \in {r \in Participants : IsPending(p, r)}}

\* What deliver_frames sends: everything owed, or only terminal evidence.
FramesToSend(s, p) ==
  IF IsTerminal(s) THEN <<TerminalEvidence(s)>> ELSE CurrentFrames(s, p)

\* The lane to q after deliver_frames: forget answers about frames no longer
\* current, then start the first eligible one if the lane is free.
DeliverOn(lane, frames, ending) ==
  LET current  == Range(frames)
      kept     == [lane EXCEPT !.acked = @ \cap current,
                               !.rejected = @ \cap current]
      eligible == {i \in DOMAIN frames :
                     /\ frames[i] \notin lane.acked
                     /\ ending \/ frames[i] \notin lane.rejected}
      first    == CHOOSE i \in eligible : \A j \in eligible : i <= j
  IN  IF lane.suppressed \/ lane.send # None \/ lane.retry \/ eligible = {}
      THEN kept
      ELSE [kept EXCEPT !.send = Sent(frames[first], "Pending")]

DeliverFrames(p, s) ==
  [lanes EXCEPT ![p] = [q \in Participants |->
     IF q = p \/ (IsTerminal(s) /\ q \notin s.unconfirmed)
     THEN lanes[p][q]
     ELSE DeliverOn(lanes[p][q], FramesToSend(s, p), IsTerminal(s))]]

\* The actor returns or dies: its lanes go, what it sent may still arrive.
DropLanes(p) ==
  /\ lanes' = [lanes EXCEPT ![p] = [q \in Participants |-> NewLane]]
  /\ late' = late \cup Outstanding(p)

-----------------------------------------------------------------------------
(* Init, and what the environment may spend.                               *)

Init ==
  /\ st = [p \in Participants |-> NewExecution]
  /\ pc = [p \in Participants |-> "down"]
  /\ lanes = [p \in Participants |-> [q \in Participants |-> NewLane]]
  /\ late = {}
  /\ signed = [p \in Participants |-> {}]
  /\ budget = Budget

Spend(kind) ==
  /\ budget[kind] > 0
  /\ budget' = [budget EXCEPT ![kind] = @ - 1]

Positions ==
  {"down", "idle", "progress", "failed", "retired", "exited", "woken"}

Running(p) == pc[p] \in {"idle", "progress"}

\* A handler's broadcasts: at most one, within the bound.
BroadcastCounts(s) == {k \in {0, 1} : s.local + k <= MaxBroadcasts}

Update(p, s, next) ==
  /\ st' = [st EXCEPT ![p] = s]
  /\ pc' = [pc EXCEPT ![p] = next]

-----------------------------------------------------------------------------
(* Startup and commands.                                                   *)

\* Mutant: a restart forgets the staged step.
RestartUnstaged(p) ==
  /\ pc[p] = "down"
  /\ IF st[p].end = "Ended"
     THEN Update(p, st[p], "retired")
     ELSE Update(p, IF st[p].status = "Activating" THEN Activate(st[p])
                    ELSE [st[p] EXCEPT !.proposal = None], "progress")
  /\ UNCHANGED <<lanes, late, signed, budget>>

\* Startup spawns an actor for every execution that is not yet Ended;
\* recover() activates it and runs progress().
Restart(p) ==
  /\ pc[p] = "down"
  /\ IF st[p].end = "Ended"
     THEN Update(p, st[p], "retired")
     ELSE Update(p, IF st[p].status = "Activating" THEN Activate(st[p])
                                                   ELSE st[p], "progress")
  /\ UNCHANGED <<lanes, late, signed, budget>>

\* The supervisor spawns an actor again for a dormant execution.
Resume(p) ==
  /\ pc[p] = "woken"
  /\ Update(p, st[p], "progress")
  /\ UNCHANGED <<lanes, late, signed, budget>>

\* An answer to the open callout or a fired timer: a local event, refused
\* while a step is staged and when its broadcasts overflow the queue.
LocalEvent(p) ==
  /\ pc[p] = "idle"
  /\ CanDispatch(st[p])
  /\ Asks(st[p].log, st[p].local, p)
  /\ \E k \in BroadcastCounts(st[p]) :
       /\ QueueFits(st[p], p, None, k)
       /\ Update(p, InstallDispatch(st[p], k), "progress")
  /\ UNCHANGED <<lanes, late, signed, budget>>

\* A stop request; it loses to the participant's own step signature.
Terminate(p) ==
  /\ pc[p] = "idle"
  /\ MayStop(st[p], p)
  /\ Spend("stop")
  /\ Update(p, StopHere(st[p], p, "Abort"), "progress")
  /\ UNCHANGED <<lanes, late, signed>>

\* A fatal error (a timer or session-start trap, an overflowing queue, an
\* exhausted receipt budget): a Host-signed Fail, then its receipt, or, when
\* the stop is refused, the actor returns and leaves the execution as it is.
FailTerminal(p) ==
  /\ Running(p)
  /\ ~IsTerminal(st[p])
  /\ Spend("stop")
  /\ IF MayStop(st[p], p)
     THEN /\ Update(p, StopHere(st[p], p, "Fail"), "failed")
          /\ UNCHANGED <<lanes, late>>
     ELSE Update(p, st[p], "exited") /\ DropLanes(p)
  /\ UNCHANGED signed

\* fail_and_publish, after its stop is durable.
PublishFailure(p) ==
  /\ pc[p] = "failed"
  /\ Update(p, PublishReceipt(st[p]), "idle")
  /\ UNCHANGED <<lanes, late, signed, budget>>

-----------------------------------------------------------------------------
(* progress(), for an execution that is not terminal.                      *)

\* ensure_session_started: every participant stages step 0 by itself.
StartSession(p) ==
  /\ Running(p)
  /\ CanDispatch(st[p])
  /\ st[p].log = <<>>
  /\ \E k \in BroadcastCounts(st[p]) :
       /\ QueueFits(st[p], p, None, k)
       /\ Update(p, StageProposal(st[p], p, None, 0, k), "progress")
  /\ UNCHANGED <<lanes, late, signed, budget>>

\* ensure_step_signature: the signature is durable before it is sent.
SignStep(p) ==
  LET s == AddStepSignature(st[p], p, p) IN
  /\ Running(p)
  /\ ~IsTerminal(st[p])
  /\ st[p].proposal # None
  /\ ~HasSigned(st[p], p)
  /\ Update(p, s, "idle")
  /\ signed' = [signed EXCEPT ![p] = @ \cup {ProposalCommitment(st[p])}]
  /\ lanes' = DeliverFrames(p, s)
  /\ UNCHANGED <<late, budget>>

\* author_next_message: the oldest queued message, through the dispatch
\* every receiver runs.
AuthorNextMessage(p) ==
  /\ Running(p)
  /\ CanDispatch(st[p])
  /\ st[p].log # <<>>
  /\ st[p].outgoing # <<>>
  /\ Accepts(st[p].log, p, Head(st[p].outgoing))
  /\ \E k \in BroadcastCounts(st[p]) :
       LET s == StageProposal(st[p], p, p, Head(st[p].outgoing), k) IN
       /\ QueueFits(st[p], p, p, k)
       /\ Update(p, s, "idle")
       /\ lanes' = DeliverFrames(p, s)
  /\ UNCHANGED <<late, signed, budget>>

\* A message the program rejects leaves the queue and the loop goes on.
DropRejectedMessage(p) ==
  /\ Running(p)
  /\ CanDispatch(st[p])
  /\ st[p].log # <<>>
  /\ st[p].outgoing # <<>>
  /\ ~Accepts(st[p].log, p, Head(st[p].outgoing))
  /\ Update(p, DropOutgoingHead(st[p]), "progress")
  /\ UNCHANGED <<lanes, late, signed, budget>>

\* Nothing to sign or author: only the frames owed are sent again.
Redeliver(p) ==
  /\ Running(p)
  /\ st[p].status = "Active"
  /\ IF st[p].proposal # None THEN HasSigned(st[p], p)
     ELSE st[p].log # <<>> /\ st[p].outgoing = <<>>
  /\ Update(p, st[p], "idle")
  /\ lanes' = DeliverFrames(p, st[p])
  /\ UNCHANGED <<late, signed, budget>>

-----------------------------------------------------------------------------
(* progress(), at the terminal boundary.                                   *)

\* The receipt is published before any peer confirms; the actor retires once
\* every peer has.
ProgressTerminal(p) ==
  LET s == PublishReceipt(st[p]) IN
  /\ Running(p)
  /\ IsTerminal(st[p])
  /\ IF s.end = "Ended" /\ s.unconfirmed = {}
     THEN Update(p, s, "retired") /\ DropLanes(p)
     ELSE /\ Update(p, s, "idle")
          /\ lanes' = DeliverFrames(p, s)
          /\ UNCHANGED late
  /\ UNCHANGED <<signed, budget>>

\* The confirmation window elapses: the actor retires with peers unconfirmed.
ExpireWindow(p) ==
  /\ Running(p)
  /\ IsTerminal(st[p])
  /\ st[p].unconfirmed # {}
  /\ Spend("window")
  /\ Update(p, ExpireEnd(PublishReceipt(st[p])), "retired")
  /\ DropLanes(p)
  /\ UNCHANGED signed

-----------------------------------------------------------------------------
(* Inbound frames.                                                         *)

Peers(p) == Participants \ {p}

\* What q may receive: a frame a peer waits on, or a late one.
Deliveries(q) ==
  {[source |-> p, frame |-> lanes[p][q].send.frame, fresh |-> TRUE] :
     p \in {r \in Peers(q) : IsPending(r, q)}}
  \cup {[source |-> m.source, frame |-> m.frame, fresh |-> FALSE] :
     m \in {n \in late : n.source \in Peers(q) /\ n.dest = q}}

Answer(q, d, answer) ==
  IF d.fresh
  THEN SetLane(lanes, d.source, q,
               [lanes[d.source][q] EXCEPT !.send = Sent(d.frame, answer)])
  ELSE lanes

\* accept_frame on a committed frame for step n, against s: the checks every
\* such frame shares, then its own.
CommittedVerdict(s, source, type, c) ==
  LET n == Len(c.prefix) IN
  IF n < Len(s.log) THEN "Ack"
  ELSE CASE type = "Message" ->
              CASE n > Len(s.log) -> "NotYet"
                [] n = Len(s.log) /\ c.prefix # s.log -> "Rejected"
                [] c.prefix = s.log /\ s.proposal = None -> "Apply"
                [] OTHER -> IF /\ c = ProposalCommitment(s)
                               /\ c.entry.from = source
                            THEN "Ack" ELSE "Conflict"
         [] type = "StepSignature" ->
              IF n > Len(s.log) \/ s.proposal = None THEN "NotYet"
              ELSE IF c # ProposalCommitment(s) THEN "Rejected"
              ELSE IF HasSigned(s, source) THEN "Ack" ELSE "Apply"
         [] OTHER ->
              IF s.proposal = None THEN "NotYet"
              ELSE IF c = ProposalCommitment(s) THEN "Apply"
              ELSE "Contradiction"

\* Mutants: an occurrence ahead of the cursor applies; the receiver's own
\* signature blocks a peer's stop.
EagerAbortVerdict(s, occurrence) ==
  CASE Len(occurrence.cursor) < Len(s.log) -> "Ack"
    [] OTHER -> IF HasSigned(s, occurrence.sender) THEN "NotYet" ELSE "Apply"

AbortVerdict(s, occurrence) ==
  LET n == Len(occurrence.cursor) IN
  CASE n < Len(s.log) -> "Ack"
    [] n > Len(s.log) -> "NotYet"
    [] OTHER -> IF occurrence.cursor # s.log THEN "Conflict"
                ELSE IF HasSigned(s, occurrence.sender) THEN "NotYet"
                ELSE "Apply"

\* What accept_frame decides: an answer, "Apply", or "Contradiction" for the
\* delivery invariant that stops the actor.
Verdict(s, source, f) ==
  IF IsTerminal(s)
  THEN CASE EndMatch(s, f) = "Same" -> "Apply"
         [] EndMatch(s, f) = "Different" -> "Conflict"
         [] OTHER -> "Ack"
  ELSE IF f.type = "Abort" THEN AbortVerdict(s, f.occurrence)
       ELSE CommittedVerdict(s, source, f.type, f.commitment)

IsStepMessage(s, f) == ~IsTerminal(s) /\ f.type = "Message"

\* The transition an applied frame (not a message) makes.
Apply(s, me, source, f) ==
  IF IsTerminal(s) THEN ConfirmEnd(s, source)
  ELSE CASE f.type = "StepSignature" -> AddStepSignature(s, me, source)
         [] f.type = "StepCertificate" -> InstallCertified(s, me)
         [] OTHER -> Stop(s, me, f.occurrence)

AcceptFrame(q, d) ==
  /\ pc[q] = "idle"
  /\ Verdict(st[q], d.source, d.frame) = "Apply"
  /\ ~IsStepMessage(st[q], d.frame)
  /\ Update(q, Apply(st[q], q, d.source, d.frame), "progress")
  /\ lanes' = Answer(q, d, "Ack")
  /\ UNCHANGED <<late, signed, budget>>

\* apply_message: the receiver runs the program itself and stages only the
\* commitment the author sent.
ApplyMessage(q, d) ==
  LET data == d.frame.commitment.entry.data IN
  /\ pc[q] = "idle"
  /\ IsStepMessage(st[q], d.frame)
  /\ Verdict(st[q], d.source, d.frame) = "Apply"
  /\ Accepts(st[q].log, d.source, data)
  /\ EntryOf(st[q], d.source, data) = d.frame.commitment.entry
  /\ \E k \in BroadcastCounts(st[q]) :
       /\ QueueFits(st[q], q, d.source, k)
       /\ Update(q, StageProposal(st[q], q, d.source, data, k), "progress")
  /\ lanes' = Answer(q, d, "Ack")
  /\ UNCHANGED <<late, signed, budget>>

\* The receiver cannot reproduce the step: its handler rejects or traps on
\* local memory, or a local bound is hit. It fails the session; the delivery
\* is acknowledged only for a divergence.
DivergeOnMessage(q, d) ==
  /\ pc[q] = "idle"
  /\ IsStepMessage(st[q], d.frame)
  /\ Verdict(st[q], d.source, d.frame) = "Apply"
  /\ Spend("stop")
  /\ \E answer \in {"Ack", "Pending"} : lanes' = Answer(q, d, answer)
  /\ Update(q, StopHere(st[q], q, "Fail"), "failed")
  /\ UNCHANGED <<late, signed>>

\* Every other verdict leaves the durable state alone. Contradicting terminal
\* evidence also silences the lane back to its source.
RefuseFrame(q, d) ==
  LET verdict  == Verdict(st[q], d.source, d.frame)
      answered == Answer(q, d, verdict)
  IN
  /\ pc[q] = "idle"
  /\ verdict # "Apply"
  /\ IF verdict = "Contradiction"
     THEN Update(q, st[q], "exited") /\ DropLanes(q)
     ELSE /\ Update(q, st[q], "progress")
          /\ UNCHANGED late
          /\ lanes' = IF IsTerminal(st[q]) /\ verdict = "Conflict"
                      THEN SetLane(answered, q, d.source,
                             [answered[q][d.source] EXCEPT !.suppressed = TRUE])
                      ELSE answered
  /\ UNCHANGED <<signed, budget>>

\* Mutant: an Ended execution asks every source to come back.
NeverAcknowledges(s, d) ==
  IF EndMatch(s, d.frame) = "Different" THEN "Conflict"
  ELSE IF s.end = "Ended" THEN "NotYet" ELSE "Pending"

\* What route_exec answers for a terminal execution without an actor; Ending
\* with the source unconfirmed drops the stream.
RetiredVerdict(s, d) ==
  IF EndMatch(s, d.frame) = "Different" THEN "Conflict"
  ELSE IF d.source \notin s.unconfirmed THEN "Ack"
  ELSE IF s.end = "Ended" THEN "NotYet" ELSE "Pending"

\* An unconfirmed source's frame asks the supervisor for a new actor.
RouteRetired(q, d) ==
  LET verdict == RetiredVerdict(st[q], d) IN
  /\ pc[q] \in {"retired", "exited"}
  /\ st[q].end # "Open"
  /\ lanes' = Answer(q, d, verdict)
  /\ pc' = IF verdict = "NotYet" THEN [pc EXCEPT ![q] = "woken"] ELSE pc
  /\ UNCHANGED <<st, late, signed, budget>>

-----------------------------------------------------------------------------
(* Settling sends, and faults.                                             *)

\* Mutant: any acknowledgement confirms the end.
SettleAnyAck(p, q) ==
  LET lane  == lanes[p][q]
      frame == lane.send.frame
      free  == [lane EXCEPT !.send = None, !.retry = FALSE]
  IN
  /\ pc[p] = "idle"
  /\ lane.send # None
  /\ ~IsPending(p, q)
  /\ LET answer == lane.send.answer
         next == CASE answer = "Ack" -> [free EXCEPT !.acked = @ \cup {frame}]
                   [] answer = "NotYet" -> [free EXCEPT !.retry = TRUE]
                   [] OTHER -> [free EXCEPT !.suppressed = TRUE]
     IN  /\ lanes' = SetLane(lanes, p, q, next)
         /\ Update(p, IF answer = "Ack" THEN ConfirmEnd(st[p], q)
                                        ELSE st[p], "progress")
  /\ UNCHANGED <<late, signed, budget>>

\* settle_send on the peer's answer.
SettleSend(p, q) ==
  LET lane  == lanes[p][q]
      frame == lane.send.frame
      final == IsTerminal(st[p]) /\ frame = TerminalEvidence(st[p])
      free  == [lane EXCEPT !.send = None, !.retry = FALSE]
  IN
  /\ pc[p] = "idle"
  /\ lane.send # None
  /\ ~IsPending(p, q)
  /\ LET answer == lane.send.answer
         next == CASE answer = "Ack" -> [free EXCEPT !.acked = @ \cup {frame}]
                   [] answer = "NotYet" -> [free EXCEPT !.retry = TRUE]
                   [] answer = "Rejected" /\ ~final ->
                        [free EXCEPT !.rejected = @ \cup {frame}]
                   [] OTHER -> [free EXCEPT !.suppressed = TRUE]
     IN  /\ lanes' = SetLane(lanes, p, q, next)
         /\ Update(p, IF answer = "Ack" /\ final THEN ConfirmEnd(st[p], q)
                                                 ELSE st[p], "progress")
  /\ UNCHANGED <<late, signed, budget>>

\* The send deadline passes, or the stream fails, with or without the frame
\* having been applied; the frame may still arrive.
SendTimeout(p, q) ==
  /\ pc[p] = "idle"
  /\ lanes[p][q].send # None
  /\ Spend("timeout")
  /\ late' = late \cup {m \in Outstanding(p) : m.dest = q}
  /\ lanes' = SetLane(lanes, p, q,
                [lanes[p][q] EXCEPT !.send = None, !.retry = TRUE])
  /\ Update(p, st[p], "progress")
  /\ UNCHANGED signed

\* retry_at passes.
RetryDue(p, q) ==
  /\ lanes[p][q].retry
  /\ lanes' = SetLane(lanes, p, q, [lanes[p][q] EXCEPT !.retry = FALSE])
  /\ UNCHANGED <<st, pc, late, signed, budget>>

\* The process dies between two durable writes.
Crash(p) ==
  /\ pc[p] # "down"
  /\ Spend("crash")
  /\ pc' = [pc EXCEPT ![p] = "down"]
  /\ DropLanes(p)
  /\ UNCHANGED <<st, signed>>

-----------------------------------------------------------------------------

Progress(p) ==
  \/ StartSession(p) \/ SignStep(p) \/ AuthorNextMessage(p)
  \/ DropRejectedMessage(p) \/ Redeliver(p) \/ ProgressTerminal(p)
  \/ PublishFailure(p)

Inbound(q, d) ==
  \/ AcceptFrame(q, d) \/ ApplyMessage(q, d) \/ RefuseFrame(q, d)
  \/ RouteRetired(q, d)

Next ==
  \/ \E p \in Participants :
       \/ Restart(p) \/ Resume(p) \/ LocalEvent(p)
       \/ Terminate(p) \/ FailTerminal(p)
       \/ Progress(p) \/ ExpireWindow(p) \/ Crash(p)
       \/ \E d \in Deliveries(p) : Inbound(p, d) \/ DivergeOnMessage(p, d)
  \/ \E p, q \in Participants :
       SettleSend(p, q) \/ SendTimeout(p, q) \/ RetryDue(p, q)

Spec == Init /\ [][Next]_vars

(***************************************************************************)
(* Fairness. The supervisor spawns actors; an actor's ticker runs progress *)
(* every 50 ms, its command queue is first in, first out and its select    *)
(* polls every branch, so a waiting delivery or settled send is not        *)
(* overtaken for ever. Agents, faults and the clock owe nothing.           *)
(***************************************************************************)
Serves(q, p) ==
  \E d \in Deliveries(q) : d.source = p /\ d.fresh /\ Inbound(q, d)

Advances(p) == Restart(p) \/ Resume(p) \/ Progress(p)

Fairness ==
  \A p \in Participants :
    /\ WF_vars(Advances(p))
    /\ \A q \in Participants \ {p} :
         /\ SF_vars(Serves(q, p))
         /\ SF_vars(SettleSend(p, q))
         /\ WF_vars(RetryDue(p, q))

FairSpec == Spec /\ Fairness

-----------------------------------------------------------------------------
(* Properties.                                                             *)

Lane ==
  [acked : SUBSET ExecFrame, rejected : SUBSET ExecFrame,
   suppressed : BOOLEAN, retry : BOOLEAN,
   send : [frame : ExecFrame, answer : Answers] \cup {None}]

\* Every variable keeps its type: durable states, actor positions, lanes,
\* late frames, signed commitments and the remaining budget.
TypeOK ==
  /\ st \in [Participants -> ExecutionStates]
  /\ pc \in [Participants -> Positions]
  /\ lanes \in [Participants -> [Participants -> Lane]]
  /\ late \subseteq [source : Participants, dest : Participants, frame : ExecFrame]
  /\ signed \in [Participants -> SUBSET Commitment]
  /\ budget \in [{"crash", "timeout", "stop", "window"} -> Nat]

\* N-of-N agreement: any two certified traces agree on every step both have,
\* whatever was crashed, repeated or stopped in between.
CertifiedTracesAgree ==
  \A p, q \in Participants : \A i \in DOMAIN st[p].log \cap DOMAIN st[q].log :
    st[p].log[i] = st[q].log[i]

\* A participant never signs two commitments for one step, also across
\* crashes: the staged step is durable before it is signed.
SignsOncePerStep ==
  \A p \in Participants : \A c, d \in signed[p] :
    Len(c.prefix) = Len(d.prefix) => c = d

\* Once anybody stops at a cursor, nobody ever certifies the step after it:
\* the stop of a signer is refused, the step of a stopper never completes.
NoStepPastAStop ==
  \A p, q \in Participants :
    st[p].stop # None => Len(st[q].log) <= Len(st[p].log)

\* Participants that ended reached one conclusion: the same trace, and either
\* all by its certified last step or all by a unilateral stop after it.
ConclusionsAgree ==
  \A p, q \in Participants :
    IsTerminal(st[p]) /\ IsTerminal(st[q]) =>
      /\ st[p].log = st[q].log
      /\ (st[p].stop = None) <=> (st[q].stop = None)

\* All a peer can lack is the certificate of one step, and it holds that very
\* step staged and signed, so the certificate alone brings it up to date.
LaggardHoldsTheStep ==
  \A p, q \in Participants :
    Len(st[q].log) < Len(st[p].log) =>
      /\ Len(st[p].log) = Len(st[q].log) + 1
      /\ ~IsTerminal(st[q])
      /\ HasSigned(st[q], q)
      /\ ProposalCommitment(st[q]) = st[p].cert

\* A certificate or an abort occurrence is never refused as contradictory, by
\* an actor or by the router, however late or often it arrives: it applies,
\* is stale, or must wait.
EvidenceIsNeverRefused ==
  \A q \in Participants : \A d \in Deliveries(q) :
    d.frame.type \in {"StepCertificate", "Abort"} =>
      /\ Verdict(st[q], d.source, d.frame) \in {"Apply", "Ack", "NotYet"}
      /\ IsTerminal(st[q]) => RetiredVerdict(st[q], d) # "Conflict"

\* A peer leaves the unconfirmed set only when it has durably concluded.
ConfirmedPeersConcluded ==
  \A p \in Participants :
    st[p].end # "Open" =>
      \A q \in Participants \ (st[p].unconfirmed \cup {p}) : IsTerminal(st[q])

\* The end handshake is sound: a conclusion is counted as confirmed only when
\* its peer concluded, and no evidence of it is ever refused.
HandshakeIsSound == ConfirmedPeersConcluded /\ EvidenceIsNeverRefused

IsIncreasing(s) == \A i, j \in DOMAIN s : i < j => s[i] < s[j]

\* A participant's own entries of a trace and its queued broadcasts carry
\* increasing numbers, the queue after the trace, none that was never made.
InOrder(p, log, queue, local) ==
  /\ \A i, j \in DOMAIN log :
       i < j /\ log[i].from = p /\ log[j].from = p => log[i].data < log[j].data
  /\ \A i \in DOMAIN log : log[i].from = p =>
       log[i].data <= local /\ \A n \in DOMAIN queue : log[i].data < queue[n]
  /\ IsIncreasing(queue)
  /\ \A n \in DOMAIN queue : queue[n] <= local

\* A participant's broadcasts are certified in the order they were queued,
\* none twice, and those still queued come after the certified ones.
OwnMessagesOnceInOrder ==
  \A p \in Participants :
    InOrder(p, st[p].log, st[p].outgoing, st[p].local)

\* A step signature binds its signer: it leaves the staged step only by
\* certifying it or by adopting the stop of a participant that has not signed.
SignatureBinds ==
  [][\A p \in Participants :
       HasSigned(st[p], p) /\ ~HasSigned(st'[p], p) =>
         \/ st'[p].log = Append(st[p].log, st[p].proposal.entry)
         \/ /\ st'[p].stop # None
            /\ ProposalCommitment(st[p]) \notin signed[st'[p].stop.sender]]_vars

\* A conclusion is final: a terminal execution keeps its trace and its cause,
\* and only publishes its receipt and confirms peers.
ConclusionIsFinal ==
  [][\A p \in Participants : IsTerminal(st[p]) =>
       /\ st'[p].log = st[p].log /\ st'[p].stop = st[p].stop
       /\ st'[p].status \in {st[p].status, PublishReceipt(st[p]).status}
       /\ st'[p].unconfirmed \subseteq st[p].unconfirmed]_vars

\* With no stop, every staged step is certified in the end, although sends
\* time out and participants crash.
StagedStepResolves ==
  \A p \in Participants : st[p].proposal # None ~> st[p].proposal = None

EndIsCertified == \E p \in Participants : IsTerminal(st[p]) /\ st[p].stop = None

AllRetired ==
  \A q \in Participants :
    IsPublished(st[q]) /\ st[q].unconfirmed = {} /\ pc[q] = "retired"

\* A certified last step reaches every participant, which publishes its
\* receipt and is confirmed, and all actors retire.
CertifiedEndReachesEveryone == EndIsCertified ~> AllRetired

StopAtCursor(p, q) == st[p].stop # None /\ st[q].log = st[p].log

\* A stop reaches every participant that is at its cursor.
StopReachesItsCursor ==
  \A p \in Participants : \A q \in Participants \ {p} :
    StopAtCursor(p, q) ~> IsTerminal(st[q])

\* "failing the session for everyone" (docs/protocol-architecture.md:584): a
\* stop anybody records reaches every participant.
StopReachesEveryone ==
  \A p \in Participants : \A q \in Participants \ {p} :
    st[p].stop # None ~> IsTerminal(st[q])

-----------------------------------------------------------------------------
(* The inductive invariant behind the safety theorems: what a signature, a *)
(* certificate, a stop and a frame under way say about every participant.  *)

\* The commitment c is a step of the trace.
Includes(log, c) ==
  /\ Len(c.prefix) < Len(log)
  /\ log[Len(c.prefix) + 1] = c.entry
  /\ \A i \in DOMAIN c.prefix : log[i] = c.prefix[i]

\* A signed step is certified, still staged and signed, or given up for the
\* stop of somebody else.
SignaturesHold ==
  \A p \in Participants : \A c \in signed[p] :
    \/ Includes(st[p].log, c)
    \/ /\ c.prefix = st[p].log
       /\ \/ HasSigned(st[p], p) /\ ProposalCommitment(st[p]) = c
          \/ st[p].stop # None /\ st[p].stop.sender # p

\* Only a running execution has a staged step, and each signature it has
\* collected was given.
ProposalsHold ==
  \A p \in Participants : st[p].proposal # None =>
    /\ ~IsTerminal(st[p])
    /\ \A q \in st[p].proposal.signatures :
         ProposalCommitment(st[p]) \in signed[q]

\* A certificate is the last step of its trace, signed by everybody.
CertificatesHold ==
  \A p \in Participants :
    \/ st[p].cert = None /\ st[p].log = <<>>
    \/ /\ st[p].cert # None
       /\ st[p].log = Append(st[p].cert.prefix, st[p].cert.entry)
       /\ \A r \in Participants : st[p].cert \in signed[r]

\* A stop was recorded at the cursor it names, and first by its sender.
StopsHold ==
  \A p \in Participants : st[p].stop # None =>
    /\ IsTerminal(st[p])
    /\ st[p].stop.cursor = st[p].log
    /\ st[st[p].stop.sender].stop = st[p].stop

\* Without a stop, an execution concludes exactly by a terminal last step.
EndingsHold ==
  \A p \in Participants :
    (IsTerminal(st[p]) /\ st[p].stop = None) <=>
      (st[p].log # <<>> /\ st[p].log[Len(st[p].log)].terminal # "None")

Genuine(p, f) ==
  /\ f.type = "StepSignature" => f.commitment \in signed[p]
  /\ f.type = "StepCertificate" =>
       \A r \in Participants : f.commitment \in signed[r]
  /\ f.type = "Abort" => st[f.occurrence.sender].stop = f.occurrence

\* A frame under way says what its signers really signed.
FramesHold ==
  /\ \A p, q \in Participants :
       lanes[p][q].send # None => Genuine(p, lanes[p][q].send.frame)
  /\ \A m \in late : Genuine(m.source, m.frame)

\* Every signature, collected signature, certificate, stop and frame stands
\* for what the participants it names durably did: it survives crashes, late
\* and repeated frames, and stops racing with signatures.
SignedWordHolds ==
  /\ SignaturesHold /\ SignsOncePerStep /\ ProposalsHold /\ CertificatesHold
  /\ StopsHold /\ EndingsHold /\ FramesHold

-----------------------------------------------------------------------------
(* Execution implements AgreedSession: a session's trace is its longest    *)
(* certified log, and a participant has ended when its status is terminal. *)

LongestLog ==
  st[CHOOSE p \in Participants :
       \A q \in Participants : Len(st[q].log) <= Len(st[p].log)].log

Session == INSTANCE AgreedSession WITH
  Entries  <- Entry,
  trace    <- LongestLog,
  position <- [p \in Participants |-> Len(st[p].log)],
  ended    <- [p \in Participants |-> IsTerminal(st[p])],
  stopped  <- \E p \in Participants : st[p].stop # None

\* The actors, lanes, retries and crashes of Execution only ever take the
\* steps AgreedSession allows: lockstep growth, one conclusion for all.
ImplementsAgreedSession == Session!Spec

=============================================================================
