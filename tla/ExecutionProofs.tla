--------------------------- MODULE ExecutionProofs ---------------------------
(***************************************************************************)
(* The shape of every step of Execution, and its type correctness, for any *)
(* ensemble, any program and any number of faults.                         *)
(***************************************************************************)
EXTENDS Execution, TLAPS, SequenceTheorems, WellFoundedInduction

-----------------------------------------------------------------------------
(* The operators of ExecutionState.                                        *)

\* A nonempty set of naturals has a least element (what DeliverOn chooses).
LEMMA LeastIndex ==
  ASSUME NEW T \in SUBSET Nat, T # {}
  PROVE  \E i \in T : \A j \in T : i <= j
<1>1. PICK i \in T : \A j \in T : ~(<<j, i>> \in OpToRel(<, Nat))
  BY NatLessThanWellFounded, WFMin
<1>2. \A j \in T : ~(j < i)
  BY <1>1 DEF OpToRel
<1> QED  BY <1>2

\* What accept_frame has checked when it applies a frame to a running
\* execution.
LEMMA AppliedFrame ==
  ASSUME NEW s, NEW source, NEW f \in ExecFrame,
         ~IsTerminal(s), Verdict(s, source, f) = "Apply"
  PROVE  /\ f.type = "Message" =>
              f.commitment.prefix = s.log /\ s.proposal = None
         /\ f.type \in {"StepSignature", "StepCertificate"} =>
              s.proposal # None /\ f.commitment = ProposalCommitment(s)
         /\ f.type = "Abort" =>
              f.occurrence.cursor = s.log /\ ~HasSigned(s, f.occurrence.sender)
<1>1. CASE f.type = "Abort"
  <2>1. AbortVerdict(s, f.occurrence) = "Apply"
    BY <1>1 DEF Verdict
  <2> QED  BY <2>1, <1>1 DEF AbortVerdict
<1>2. CASE f.type # "Abort"
  <2>1. CommittedVerdict(s, source, f.type, f.commitment) = "Apply"
    BY <1>2 DEF Verdict
  <2>2. CASE f.type = "Message"
    BY <2>1, <2>2 DEF CommittedVerdict
  <2>3. CASE f.type = "StepSignature"
    BY <2>1, <2>3 DEF CommittedVerdict
  <2>4. CASE f.type = "StepCertificate"
    BY <2>1, <2>4 DEF CommittedVerdict
  <2>5. f.type \in {"Message", "StepSignature", "StepCertificate"}
    BY <1>2 DEF ExecFrame, CommittedFrame, AbortFrame
  <2> QED  BY <2>2, <2>3, <2>4, <2>5
<1> QED  BY <1>1, <1>2


\* The entry a dispatch stages, and the queues it leaves.
LEMMA EntryType ==
  ASSUME NEW s, NEW from \in Participants \cup {None}, NEW data \in Nat
  PROVE  EntryOf(s, from, data) \in Entry
<1>1. TerminalOf(s.log, from, data) \in Terminals
  BY DEF TerminalOf, Terminals
<1> QED  BY <1>1 DEF EntryOf, Entry

LEMMA BroadcastsType ==
  ASSUME NEW s \in ExecutionStates, NEW k \in Nat
  PROVE  Broadcasts(s, k) \in Seq(Nat)
<1>1. s.local \in Nat
  BY DEF ExecutionStates
<1>2. Broadcasts(s, k) \in [1..k -> Nat]
  BY <1>1 DEF Broadcasts
<1> QED  BY <1>2

\* Whatever a dispatch installs or stages is a state.
LEMMA DispatchTypes ==
  ASSUME NEW s \in ExecutionStates, NEW me \in Participants, NEW k \in Nat,
         NEW from \in Participants \cup {None}, NEW data \in Nat
  PROVE  /\ Activate(s) \in ExecutionStates
         /\ InstallDispatch(s, k) \in ExecutionStates
         /\ (from = me => s.outgoing # <<>>) =>
              StageProposal(s, me, from, data, k) \in ExecutionStates
         /\ s.outgoing # <<>> => DropOutgoingHead(s) \in ExecutionStates
<1>1. s.outgoing \in Seq(Nat) /\ s.local \in Nat
  BY DEF ExecutionStates
<1>2. s.outgoing # <<>> => Tail(s.outgoing) \in Seq(Nat)
  BY <1>1
<1>3. Broadcasts(s, k) \in Seq(Nat)
  BY BroadcastsType
<1>4. Activate(s) \in ExecutionStates
  BY DEF Activate, ExecutionStates, Status
<1>5. InstallDispatch(s, k) \in ExecutionStates
  <2> DEFINE queue == s.outgoing \o Broadcasts(s, k)
             sum   == s.local + k
  <2>1. queue \in Seq(Nat) /\ sum \in Nat
    BY <1>1, <1>3, ConcatProperties
  <2>2. InstallDispatch(s, k) = [s EXCEPT !.outgoing = queue, !.local = sum]
    BY DEF InstallDispatch
  <2> HIDE DEF queue, sum
  <2> QED  BY <2>1, <2>2 DEF ExecutionStates
<1>6. ASSUME from = me => s.outgoing # <<>>
      PROVE  StageProposal(s, me, from, data, k) \in ExecutionStates
  <2> DEFINE queue == IF from = me THEN Tail(s.outgoing) ELSE s.outgoing
             staged == [entry |-> EntryOf(s, from, data),
                        outgoing |-> queue \o Broadcasts(s, k),
                        local |-> s.local + k, signatures |-> {}]
  <2>1. queue \in Seq(Nat)
    BY <1>1, <1>2, <1>6
  <2>2. queue \o Broadcasts(s, k) \in Seq(Nat)
    BY <2>1, <1>3, ConcatProperties
  <2>3. staged \in Proposal
    BY <2>2, <1>1, EntryType DEF Proposal
  <2>4. StageProposal(s, me, from, data, k) = [s EXCEPT !.proposal = staged]
    BY DEF StageProposal
  <2> HIDE DEF staged
  <2> QED  BY <2>3, <2>4 DEF ExecutionStates
<1>7. s.outgoing # <<>> => DropOutgoingHead(s) \in ExecutionStates
  BY <1>2 DEF DropOutgoingHead, ExecutionStates
<1> QED  BY <1>4, <1>5, <1>6, <1>7

\* A staged step's commitment.
LEMMA CommitmentType ==
  ASSUME NEW s \in ExecutionStates, s.proposal # None
  PROVE  /\ s.proposal \in Proposal
         /\ ProposalCommitment(s) \in Commitment
         /\ ProposalCommitment(s) # None
<1>1. s.proposal \in Proposal /\ s.log \in Seq(Entry)
  BY DEF ExecutionStates
<1>2. s.proposal.entry \in Entry
  BY <1>1 DEF Proposal
<1>3. ProposalCommitment(s) \in Commitment
  BY <1>1, <1>2 DEF ProposalCommitment, Commitment
<1> QED  BY <1>1, <1>3, NoneAssumption

\* From s to t, the handshake begins exactly when the execution concludes.
Begins(s, t, me) ==
  s.end = "Open" =>
    \/ IsTerminal(t) /\ t.end = "Ending" /\ t.unconfirmed = Participants \ {me}
    \/ ~IsTerminal(t) /\ t.end = "Open"

\* What the end handshake does to a state.
LEMMA BeginEndEffect ==
  ASSUME NEW s \in ExecutionStates, NEW me \in Participants
  PROVE  LET t == BeginEnd(s, me) IN
         /\ t \in ExecutionStates
         /\ t.log = s.log /\ t.cert = s.cert /\ t.proposal = s.proposal
         /\ t.stop = s.stop /\ t.status = s.status
         /\ Begins(s, t, me)
BY DEF BeginEnd, ExecutionStates, Begins, IsTerminal

\* Installing a certified step.
LEMMA InstallCertifiedEffect ==
  ASSUME NEW s \in ExecutionStates, NEW me \in Participants,
         s.proposal # None
  PROVE  LET t == InstallCertified(s, me) IN
         /\ t \in ExecutionStates
         /\ t.log = Append(s.log, s.proposal.entry)
         /\ t.cert = ProposalCommitment(s)
         /\ t.proposal = None /\ t.stop = s.stop
         /\ IsTerminal(t) <=> s.proposal.entry.terminal # "None"
         /\ Begins(s, t, me)
<1> DEFINE c == ProposalCommitment(s)
           e == s.proposal.entry
           log == Append(s.log, e)
           out == s.proposal.outgoing
           loc == s.proposal.local
           status == CertifiedStatus(e)
           u == [s EXCEPT !.log = log, !.cert = c, !.outgoing = out,
                          !.local = loc, !.status = status, !.proposal = None]
<1>1. s.proposal \in Proposal /\ c \in Commitment
  BY CommitmentType
<1>2. e \in Entry /\ out \in Seq(Nat) /\ loc \in Nat
  BY <1>1 DEF Proposal
<1>3. log \in Seq(Entry)
  BY <1>2 DEF ExecutionStates
<1>4. e.terminal \in {"None", "End", "Abort"}
  BY <1>2 DEF Entry, Terminals
<1>5. /\ status \in {"Active", "Certified", "Stopped"}
      /\ status = "Active" <=> e.terminal = "None"
  BY <1>4 DEF CertifiedStatus
<1>6. InstallCertified(s, me) = BeginEnd(u, me)
  BY DEF InstallCertified
<1> HIDE DEF c, e, log, out, loc, status
<1>7. /\ u \in ExecutionStates
      /\ u.log = log /\ u.cert = c /\ u.proposal = None
      /\ u.stop = s.stop /\ u.status = status /\ u.end = s.end
  BY <1>1, <1>2, <1>3, <1>5 DEF ExecutionStates, Status
<1> HIDE DEF u
<1>8. LET t == BeginEnd(u, me) IN
      /\ t \in ExecutionStates
      /\ t.log = log /\ t.cert = c /\ t.proposal = None
      /\ t.stop = s.stop /\ t.status = status /\ Begins(s, t, me)
  BY <1>7, BeginEndEffect DEF Begins
<1> QED  BY <1>5, <1>6, <1>8 DEF IsTerminal, c, e, log

\* Recording a signature either certifies the step or only adds a signer.
LEMMA AddStepSignatureEffect ==
  ASSUME NEW s \in ExecutionStates, NEW me \in Participants,
         NEW q \in Participants, s.proposal # None
  PROVE  LET t == AddStepSignature(s, me, q) IN
         /\ t \in ExecutionStates
         /\ \/ /\ s.proposal.signatures \cup {q} = Participants
               /\ t = InstallCertified(s, me)
            \/ /\ t.log = s.log /\ t.cert = s.cert /\ t.stop = s.stop
               /\ t.status = s.status /\ t.end = s.end
               /\ t.proposal # None
               /\ t.proposal.entry = s.proposal.entry
               /\ t.proposal.signatures = s.proposal.signatures \cup {q}
<1> DEFINE sigs == s.proposal.signatures \cup {q}
           prop == [s.proposal EXCEPT !.signatures = sigs]
<1>1. CASE sigs = Participants
  <2>1. AddStepSignature(s, me, q) = InstallCertified(s, me)
    BY <1>1 DEF AddStepSignature
  <2> QED  BY <1>1, <2>1, InstallCertifiedEffect
<1>2. CASE sigs # Participants
  <2>1. s.proposal \in Proposal
    BY CommitmentType
  <2>2. sigs \in SUBSET Participants
    BY <2>1 DEF Proposal
  <2>3. AddStepSignature(s, me, q) = [s EXCEPT !.proposal = prop]
    BY <1>2 DEF AddStepSignature
  <2>4. /\ prop \in Proposal /\ prop.entry = s.proposal.entry
        /\ prop.signatures = sigs
    BY <2>1, <2>2 DEF Proposal
  <2>5. prop # None
    BY <2>4, NoneAssumption
  <2> HIDE DEF prop
  <2>6. LET t == [s EXCEPT !.proposal = prop] IN
        /\ t \in ExecutionStates /\ t.proposal = prop
        /\ t.log = s.log /\ t.cert = s.cert /\ t.stop = s.stop
        /\ t.status = s.status /\ t.end = s.end
    BY <2>4 DEF ExecutionStates
  <2> QED  BY <2>3, <2>4, <2>5, <2>6
<1> QED  BY <1>1, <1>2

\* Stopping keeps the agreed trace and drops the staged step.
LEMMA StopEffect ==
  ASSUME NEW s \in ExecutionStates, NEW me \in Participants,
         NEW occ \in Occurrence
  PROVE  LET t == Stop(s, me, occ) IN
         /\ t \in ExecutionStates
         /\ t.log = s.log /\ t.cert = s.cert /\ t.proposal = None
         /\ t.stop = occ /\ t.stop # None /\ IsTerminal(t)
         /\ Begins(s, t, me)
<1> DEFINE u == [s EXCEPT !.proposal = None, !.status = "Stopped",
                          !.stop = occ]
<1>1. /\ u \in ExecutionStates
      /\ u.log = s.log /\ u.cert = s.cert /\ u.proposal = None
      /\ u.stop = occ /\ u.status = "Stopped" /\ u.end = s.end
  BY DEF ExecutionStates, Status
<1>2. Stop(s, me, occ) = BeginEnd(u, me)
  BY DEF Stop
<1> HIDE DEF u
<1> QED  BY <1>1, <1>2, BeginEndEffect, NoneAssumption DEF IsTerminal, Begins

\* The occurrence a participant signs for itself.
LEMMA OwnOccurrence ==
  ASSUME NEW s \in ExecutionStates, NEW me \in Participants,
         NEW kind \in {"Abort", "Fail"}
  PROVE  \E occ \in Occurrence : /\ occ.sender = me /\ occ.cursor = s.log
                                 /\ StopHere(s, me, kind) = Stop(s, me, occ)
<1>1. [sender |-> me, kind |-> kind, cursor |-> s.log] \in Occurrence
  BY DEF Occurrence, ExecutionStates
<1> QED  BY <1>1 DEF StopHere

\* Two states with the same trace, certificate, staged step and stop, of
\* which both or neither have concluded.
Quiet(s, t) ==
  /\ t.log = s.log /\ t.cert = s.cert
  /\ t.proposal = s.proposal /\ t.stop = s.stop
  /\ IsTerminal(t) <=> IsTerminal(s)

\* Publication and confirmation are quiet.
LEMMA TerminalEffects ==
  ASSUME NEW s \in ExecutionStates, NEW q \in Participants
  PROVE  /\ PublishReceipt(s) \in ExecutionStates
         /\ Quiet(s, PublishReceipt(s))
         /\ ConfirmEnd(s, q) \in ExecutionStates /\ Quiet(s, ConfirmEnd(s, q))
         /\ ExpireEnd(s) \in ExecutionStates /\ Quiet(s, ExpireEnd(s))
<1>1. PublishReceipt(s) \in ExecutionStates /\ Quiet(s, PublishReceipt(s))
  <2>1. CASE s.status = "Certified"
    <3>1. PublishReceipt(s) = [s EXCEPT !.status = "Completed"]
      BY <2>1 DEF PublishReceipt
    <3> QED  BY <2>1, <3>1 DEF ExecutionStates, Status, Quiet, IsTerminal
  <2>2. CASE s.status = "Stopped"
    <3>1. PublishReceipt(s) = [s EXCEPT !.status = "StoppedPublished"]
      BY <2>2 DEF PublishReceipt
    <3> QED  BY <2>2, <3>1 DEF ExecutionStates, Status, Quiet, IsTerminal
  <2>3. CASE s.status \notin {"Certified", "Stopped"}
    <3>1. PublishReceipt(s) = s
      BY <2>3 DEF PublishReceipt
    <3> QED  BY <3>1 DEF Quiet
  <2> QED  BY <2>1, <2>2, <2>3
<1>2. ConfirmEnd(s, q) \in ExecutionStates /\ Quiet(s, ConfirmEnd(s, q))
  BY DEF ConfirmEnd, ExecutionStates, Quiet, IsTerminal
<1>3. ExpireEnd(s) \in ExecutionStates /\ Quiet(s, ExpireEnd(s))
  BY DEF ExpireEnd, ExecutionStates, Quiet, IsTerminal
<1> QED  BY <1>1, <1>2, <1>3

-----------------------------------------------------------------------------
(* Frames owed and send lanes.                                             *)

\* What p may send about itself while its state is s.
Owed(s, p) ==
  {f \in ExecFrame :
     \/ s.stop # None /\ f = [type |-> "Abort", occurrence |-> s.stop]
     \/ s.cert # None /\ f = Frame("StepCertificate", s.cert)
     \/ s.proposal # None /\ f = Frame("Message", ProposalCommitment(s))
     \/ HasSigned(s, p) /\ f = Frame("StepSignature", ProposalCommitment(s))}

\* A concluded execution has evidence to send: a stop or a certificate.
HasEvidence(s) == IsTerminal(s) /\ s.stop = None => s.cert # None

LEMMA FramesOwed ==
  ASSUME NEW s \in ExecutionStates, NEW p \in Participants, HasEvidence(s)
  PROVE  FramesToSend(s, p) \in Seq(Owed(s, p))
<1>1. s.stop # None =>
        [type |-> "Abort", occurrence |-> s.stop] \in Owed(s, p)
  BY DEF Owed, ExecutionStates, ExecFrame, AbortFrame
<1>2. s.cert # None => Frame("StepCertificate", s.cert) \in Owed(s, p)
  BY DEF Owed, ExecutionStates, ExecFrame, CommittedFrame, Frame
<1>3. s.proposal # None =>
        Frame("Message", ProposalCommitment(s)) \in Owed(s, p)
  BY CommitmentType DEF Owed, ExecFrame, CommittedFrame, Frame
<1>4. HasSigned(s, p) =>
        Frame("StepSignature", ProposalCommitment(s)) \in Owed(s, p)
  BY CommitmentType DEF Owed, ExecFrame, CommittedFrame, Frame, HasSigned
<1>5. CASE IsTerminal(s)
  <2>1. TerminalEvidence(s) \in Owed(s, p)
    BY <1>1, <1>2, <1>5 DEF TerminalEvidence, HasEvidence
  <2> QED  BY <1>5, <2>1 DEF FramesToSend
<1>6. CASE ~IsTerminal(s)
  <2> DEFINE a == IF s.cert # None
                  THEN <<Frame("StepCertificate", s.cert)>> ELSE <<>>
             b == IF s.proposal # None /\ s.proposal.entry.from = p
                  THEN <<Frame("Message", ProposalCommitment(s))>> ELSE <<>>
             c == IF HasSigned(s, p)
                  THEN <<Frame("StepSignature", ProposalCommitment(s))>>
                  ELSE <<>>
  <2>1. a \in Seq(Owed(s, p)) /\ b \in Seq(Owed(s, p))
    BY <1>2, <1>3
  <2>2. c \in Seq(Owed(s, p))
    BY <1>4
  <2>3. FramesToSend(s, p) = (a \o b) \o c
    BY <1>6 DEF FramesToSend, CurrentFrames
  <2> HIDE DEF a, b, c
  <2>4. a \o b \in Seq(Owed(s, p))
    BY <2>1, ConcatProperties
  <2> QED  BY <2>2, <2>3, <2>4, ConcatProperties
<1> QED  BY <1>5, <1>6

\* deliver_frames starts at most one of the frames owed.
LEMMA DeliverOnEffect ==
  ASSUME NEW lane \in Lane, NEW S \in SUBSET ExecFrame, NEW frames \in Seq(S),
         NEW ending \in BOOLEAN
  PROVE  LET after == DeliverOn(lane, frames, ending) IN
         /\ after \in Lane
         /\ \/ after.send = lane.send
            \/ \E f \in S : after.send = Sent(f, "Pending")
<1> DEFINE current  == Range(frames)
           kept     == [lane EXCEPT !.acked = @ \cap current,
                                    !.rejected = @ \cap current]
           eligible == {i \in DOMAIN frames :
                          /\ frames[i] \notin lane.acked
                          /\ ending \/ frames[i] \notin lane.rejected}
           first    == CHOOSE i \in eligible : \A j \in eligible : i <= j
           picked   == Sent(frames[first], "Pending")
           after    == DeliverOn(lane, frames, ending)
<1>1. kept \in Lane /\ kept.send = lane.send
  BY DEF Lane
<1>2. CASE lane.suppressed \/ lane.send # None \/ lane.retry \/ eligible = {}
  <2>1. after = kept
    BY <1>2 DEF DeliverOn
  <2> QED  BY <1>1, <2>1
<1>3. CASE ~(lane.suppressed \/ lane.send # None \/ lane.retry \/ eligible = {})
  <2>1. eligible \in SUBSET Nat /\ eligible # {}
    BY <1>3
  <2>2. \E i \in eligible : \A j \in eligible : i <= j
    BY <2>1, LeastIndex
  <2>3. first \in DOMAIN frames
    BY <2>2
  <2>4. frames[first] \in S
    BY <2>3, ElementOfSeq
  <2>5. picked \in [frame : ExecFrame, answer : Answers]
    BY <2>4 DEF Sent, Answers
  <2>6. after = [kept EXCEPT !.send = picked]
    BY <1>3 DEF DeliverOn
  <2> HIDE DEF picked, kept
  <2>7. after \in Lane /\ after.send = picked
    BY <1>1, <2>5, <2>6 DEF Lane
  <2> QED  BY <2>4, <2>7 DEF picked
<1> QED  BY <1>2, <1>3

\* A frame p has sent that may still be applied, or just was.
InFlight(p, f) ==
  \/ \E q \in Participants :
       lanes[p][q].send # None /\ lanes[p][q].send.frame = f
  \/ \E m \in late : m.source = p /\ m.frame = f

Transits == [source : Participants, dest : Participants, frame : ExecFrame]

WellTypedLanes ==
  /\ lanes \in [Participants -> [Participants -> Lane]]
  /\ late \subseteq Transits

\* A step puts only frames of S, sent by p, into flight.
Launches(p, S) ==
  /\ WellTypedLanes'
  /\ \A a \in Participants, f \in ExecFrame :
       InFlight(a, f)' => InFlight(a, f) \/ (a = p /\ f \in S)

LEMMA DeliveryInFlight ==
  ASSUME WellTypedLanes, NEW q \in Participants, NEW d \in Deliveries(q)
  PROVE  /\ d.source \in Peers(q) /\ d.source \in Participants
         /\ d.frame \in ExecFrame
         /\ InFlight(d.source, d.frame)
         /\ d.fresh => /\ lanes[d.source][q].send # None
                       /\ lanes[d.source][q].send.frame = d.frame
<1>1. CASE \E p \in Peers(q) :
             /\ IsPending(p, q)
             /\ d = [source |-> p, frame |-> lanes[p][q].send.frame,
                     fresh |-> TRUE]
  <2>1. PICK p \in Peers(q) :
             /\ IsPending(p, q)
             /\ d = [source |-> p, frame |-> lanes[p][q].send.frame,
                     fresh |-> TRUE]
    BY <1>1
  <2>2. lanes[p][q] \in Lane /\ lanes[p][q].send # None
    BY <2>1 DEF IsPending, WellTypedLanes, Peers
  <2>3. lanes[p][q].send.frame \in ExecFrame
    BY <2>2 DEF Lane
  <2> QED  BY <2>1, <2>2, <2>3 DEF InFlight, Peers
<1>2. CASE \E m \in late :
             /\ m.source \in Peers(q)
             /\ d = [source |-> m.source, frame |-> m.frame, fresh |-> FALSE]
  BY <1>2 DEF InFlight, WellTypedLanes, Transits, Peers
<1> QED  BY <1>1, <1>2 DEF Deliveries

LEMMA LanesUnchanged ==
  ASSUME WellTypedLanes, UNCHANGED <<lanes, late>>, NEW p, NEW S
  PROVE  Launches(p, S)
BY DEF Launches, InFlight, WellTypedLanes

LEMMA DeliverFramesLaunches ==
  ASSUME WellTypedLanes, NEW p \in Participants, NEW t \in ExecutionStates,
         HasEvidence(t), lanes' = DeliverFrames(p, t), UNCHANGED late
  PROVE  Launches(p, Owed(t, p))
<1>1. FramesToSend(t, p) \in Seq(Owed(t, p)) /\ IsTerminal(t) \in BOOLEAN
  BY FramesOwed DEF IsTerminal
<1>2. Owed(t, p) \in SUBSET ExecFrame
  BY DEF Owed
<1> DEFINE on(q) == DeliverOn(lanes[p][q], FramesToSend(t, p), IsTerminal(t))
<1>3. ASSUME NEW q \in Participants
      PROVE  /\ on(q) \in Lane
             /\ \/ on(q).send = lanes[p][q].send
                \/ \E f \in Owed(t, p) : on(q).send = Sent(f, "Pending")
  <2>1. lanes[p][q] \in Lane
    BY DEF WellTypedLanes
  <2> QED  BY <1>1, <1>2, <2>1, DeliverOnEffect
<1> HIDE DEF on
<1>4. ASSUME NEW a \in Participants, NEW q \in Participants
      PROVE  lanes'[a][q] = lanes[a][q] \/ (a = p /\ lanes'[a][q] = on(q))
  BY DEF DeliverFrames, WellTypedLanes, on
<1>5. lanes' \in [Participants -> [Participants -> Lane]]
  <2>1. ASSUME NEW a \in Participants PROVE lanes'[a] \in [Participants -> Lane]
    <3>1. CASE a = p
      <4>1. lanes'[p] = [q \in Participants |->
              IF q = p \/ (IsTerminal(t) /\ q \notin t.unconfirmed)
              THEN lanes[p][q] ELSE on(q)]
        BY DEF DeliverFrames, WellTypedLanes, on
      <4> QED  BY <3>1, <4>1, <1>3 DEF WellTypedLanes
    <3>2. CASE a # p
      BY <3>2 DEF DeliverFrames, WellTypedLanes
    <3> QED  BY <3>1, <3>2
  <2>2. lanes' = [a \in Participants |-> lanes'[a]]
    BY DEF DeliverFrames, WellTypedLanes
  <2> QED  BY <2>1, <2>2
<1>6. ASSUME NEW a \in Participants, NEW f \in ExecFrame, InFlight(a, f)'
      PROVE  InFlight(a, f) \/ (a = p /\ f \in Owed(t, p))
  <2>1. CASE \E m \in late' : m.source = a /\ m.frame = f
    BY <2>1 DEF InFlight
  <2>2. CASE \E q \in Participants :
               lanes'[a][q].send # None /\ lanes'[a][q].send.frame = f
    <3>1. PICK q \in Participants :
               lanes'[a][q].send # None /\ lanes'[a][q].send.frame = f
      BY <2>2
    <3>2. CASE lanes'[a][q].send = lanes[a][q].send
      BY <3>1, <3>2 DEF InFlight
    <3>3. CASE a = p /\ \E g \in Owed(t, p) : lanes'[a][q].send = Sent(g, "Pending")
      BY <3>1, <3>3 DEF Sent
    <3> QED  BY <1>3, <1>4, <3>2, <3>3
  <2> QED  BY <1>6, <2>1, <2>2 DEF InFlight
<1> QED  BY <1>5, <1>6 DEF Launches, WellTypedLanes

\* A table of lanes that sends only frames already in flight.
KeepsFrames(table) ==
  /\ table \in [Participants -> [Participants -> Lane]]
  /\ \A a, b \in Participants :
       table[a][b].send # None => InFlight(a, table[a][b].send.frame)

LEMMA LanesKeepFrames ==
  ASSUME WellTypedLanes
  PROVE  KeepsFrames(lanes)
BY DEF KeepsFrames, WellTypedLanes, InFlight

LEMMA SetLaneKeepsFrames ==
  ASSUME NEW table, KeepsFrames(table), NEW p \in Participants,
         NEW q \in Participants, NEW lane \in Lane,
         lane.send # None => InFlight(p, lane.send.frame)
  PROVE  KeepsFrames(SetLane(table, p, q, lane))
<1> DEFINE after == SetLane(table, p, q, lane)
<1>1. after \in [Participants -> [Participants -> Lane]]
  BY DEF KeepsFrames, SetLane
<1>2. ASSUME NEW a \in Participants, NEW b \in Participants
      PROVE  after[a][b] = IF a = p /\ b = q THEN lane ELSE table[a][b]
  BY DEF KeepsFrames, SetLane
<1> HIDE DEF after
<1>3. KeepsFrames(after)
  BY <1>1, <1>2 DEF KeepsFrames
<1> QED  BY <1>3 DEF after

LEMMA KeptLanesLaunch ==
  ASSUME KeepsFrames(lanes'), late' \subseteq Transits, NEW r, NEW S,
         \A m \in late' : m \in late \/ InFlight(m.source, m.frame)
  PROVE  Launches(r, S)
<1>1. ASSUME NEW a \in Participants, NEW f \in ExecFrame, InFlight(a, f)'
      PROVE  InFlight(a, f)
  <2>1. CASE \E m \in late' : m.source = a /\ m.frame = f
    BY <2>1 DEF InFlight
  <2>2. CASE \E q \in Participants :
               lanes'[a][q].send # None /\ lanes'[a][q].send.frame = f
    BY <2>2 DEF KeepsFrames
  <2> QED  BY <1>1, <2>1, <2>2 DEF InFlight
<1> QED  BY <1>1 DEF Launches, WellTypedLanes, KeepsFrames

LEMMA AnswerKeepsFrames ==
  ASSUME WellTypedLanes, NEW q \in Participants, NEW d \in Deliveries(q),
         NEW answer \in Answers
  PROVE  KeepsFrames(Answer(q, d, answer))
<1>1. CASE d.fresh
  <2> DEFINE sent == Sent(d.frame, answer)
             old  == lanes[d.source][q]
             lane == [lanes[d.source][q] EXCEPT !.send = Sent(d.frame, answer)]
  <2>1. d.source \in Participants /\ d.frame \in ExecFrame
        /\ InFlight(d.source, d.frame)
    BY DeliveryInFlight
  <2>2. old \in Lane /\ sent \in [frame : ExecFrame, answer : Answers]
        /\ sent.frame = d.frame
    BY <2>1 DEF WellTypedLanes, Sent
  <2>3. Answer(q, d, answer) = SetLane(lanes, d.source, q, lane)
    BY <1>1 DEF Answer
  <2>4. lane \in Lane /\ lane.send.frame = d.frame
    <3>1. lane = [old EXCEPT !.send = sent]
      OBVIOUS
    <3> HIDE DEF old, sent, lane
    <3> QED  BY <2>2, <3>1 DEF Lane
  <2> HIDE DEF lane
  <2> QED  BY <2>1, <2>3, <2>4, LanesKeepFrames, SetLaneKeepsFrames
<1>2. CASE ~d.fresh
  BY <1>2, LanesKeepFrames DEF Answer
<1> QED  BY <1>1, <1>2

LEMMA AnswerLaunches ==
  ASSUME WellTypedLanes, NEW q \in Participants, NEW d \in Deliveries(q),
         NEW answer \in Answers, NEW r, NEW S,
         lanes' = Answer(q, d, answer), UNCHANGED late
  PROVE  Launches(r, S)
<1>1. KeepsFrames(lanes')
  BY AnswerKeepsFrames
<1> QED  BY <1>1, KeptLanesLaunch DEF WellTypedLanes

LEMMA OutstandingInFlight ==
  ASSUME WellTypedLanes, NEW p \in Participants, NEW m \in Outstanding(p)
  PROVE  m \in Transits /\ InFlight(m.source, m.frame)
<1>1. PICK q \in Participants :
        IsPending(p, q) /\ m = Transit(p, q, lanes[p][q].send.frame)
  BY DEF Outstanding
<1>2. lanes[p][q] \in Lane /\ lanes[p][q].send # None
  BY <1>1 DEF IsPending, WellTypedLanes
<1>3. lanes[p][q].send.frame \in ExecFrame
  BY <1>2 DEF Lane
<1> QED  BY <1>1, <1>2, <1>3 DEF Transit, Transits, InFlight

LEMMA DropLanesLaunches ==
  ASSUME WellTypedLanes, NEW p \in Participants, DropLanes(p), NEW r, NEW S
  PROVE  Launches(r, S)
<1>1. NewLane \in Lane /\ NewLane.send = None
  BY DEF NewLane, Lane
<1>2. \A m \in Outstanding(p) : m \in Transits /\ InFlight(m.source, m.frame)
  BY OutstandingInFlight
<1>3. WellTypedLanes'
  BY <1>1, <1>2 DEF DropLanes, WellTypedLanes
<1>4. ASSUME NEW a \in Participants, NEW b \in Participants
      PROVE  lanes'[a][b] = IF a = p THEN NewLane ELSE lanes[a][b]
  BY DEF DropLanes, WellTypedLanes
<1>5. ASSUME NEW a \in Participants, NEW f \in ExecFrame, InFlight(a, f)'
      PROVE  InFlight(a, f)
  <2>1. late' = late \cup Outstanding(p)
    BY DEF DropLanes
  <2> QED  BY <1>1, <1>2, <1>4, <1>5, <2>1 DEF InFlight
<1> QED  BY <1>3, <1>5 DEF Launches

-----------------------------------------------------------------------------
(* Every step changes the durable state of one participant in one of seven *)
(* ways.                                                                   *)

BudgetType == [{"crash", "timeout", "stop", "window"} -> Nat]

TypeInv == TypeOK /\ \A p \in Participants : HasEvidence(st[p])

\* A dispatch of an agreed event stages its step.
Stages(p, t) ==
  /\ st[p].proposal = None /\ ~IsTerminal(st[p]) /\ ~IsTerminal(t)
  /\ t.log = st[p].log /\ t.cert = st[p].cert /\ t.stop = st[p].stop
  /\ t.proposal # None /\ t.proposal.signatures = {}
  /\ UNCHANGED signed

Unsettled(p) == ~IsTerminal(st[p]) /\ st[p].proposal # None

\* p signs its staged step.
Signs(p, t) ==
  /\ Unsettled(p) /\ ~HasSigned(st[p], p)
  /\ t = AddStepSignature(st[p], p, p)
  /\ signed' = [signed EXCEPT ![p] = @ \cup {ProposalCommitment(st[p])}]

\* p counts the signature of q, from a frame q sent.
Counts(p, t) ==
  /\ Unsettled(p)
  /\ \E q \in Participants, f \in ExecFrame :
       /\ InFlight(q, f) /\ f.type = "StepSignature"
       /\ f.commitment = ProposalCommitment(st[p])
       /\ t = AddStepSignature(st[p], p, q)
  /\ UNCHANGED signed

\* p installs its staged step from a certificate a peer sent.
Certifies(p, t) ==
  /\ Unsettled(p)
  /\ \E q \in Participants, f \in ExecFrame :
       /\ InFlight(q, f) /\ f.type = "StepCertificate"
       /\ f.commitment = ProposalCommitment(st[p])
  /\ t = InstallCertified(st[p], p)
  /\ UNCHANGED signed

\* p stops by itself.
StopsItself(p, t) ==
  /\ MayStop(st[p], p)
  /\ \E occ \in Occurrence : /\ occ.sender = p /\ occ.cursor = st[p].log
                             /\ t = Stop(st[p], p, occ)
  /\ UNCHANGED signed

\* p adopts the stop of a peer.
Adopts(p, t) ==
  /\ ~IsTerminal(st[p])
  /\ \E q \in Participants, f \in ExecFrame :
       /\ InFlight(q, f) /\ f.type = "Abort"
       /\ f.occurrence.cursor = st[p].log
       /\ ~HasSigned(st[p], f.occurrence.sender)
       /\ t = Stop(st[p], p, f.occurrence)
  /\ UNCHANGED signed

Moves(p, t) ==
  \/ Quiet(st[p], t) /\ UNCHANGED signed
  \/ Stages(p, t) \/ Signs(p, t) \/ Counts(p, t) \/ Certifies(p, t)
  \/ StopsItself(p, t) \/ Adopts(p, t)

Shape(p) ==
  /\ \E t \in ExecutionStates :
       /\ st' = [st EXCEPT ![p] = t]
       /\ Moves(p, t)
       /\ Launches(p, Owed(t, p))
  /\ pc' \in [Participants -> Positions]
  /\ budget' \in BudgetType

\* What every proof below uses of TypeInv.
LEMMA TypeFacts ==
  ASSUME TypeInv, NEW p \in Participants
  PROVE  /\ st[p] \in ExecutionStates /\ HasEvidence(st[p])
         /\ st \in [Participants -> ExecutionStates]
         /\ pc \in [Participants -> Positions]
         /\ WellTypedLanes
         /\ signed \in [Participants -> SUBSET Commitment]
         /\ budget \in BudgetType
BY DEF TypeInv, TypeOK, WellTypedLanes, Transits, BudgetType

LEMMA AbortOccurrence ==
  ASSUME NEW f \in ExecFrame, f.type = "Abort"
  PROVE  f.occurrence \in Occurrence
BY DEF ExecFrame, CommittedFrame, AbortFrame

LEMMA CommittedCommitment ==
  ASSUME NEW f \in ExecFrame, f.type # "Abort"
  PROVE  f.commitment \in Commitment
BY DEF ExecFrame, CommittedFrame, AbortFrame

\* After any of the seven, a concluded participant still has evidence.
LEMMA MovesEvidence ==
  ASSUME TypeInv, NEW p \in Participants, NEW t \in ExecutionStates,
         Moves(p, t)
  PROVE  HasEvidence(t)
<1>1. st[p] \in ExecutionStates /\ HasEvidence(st[p])
  BY TypeFacts
<1>2. CASE Quiet(st[p], t)
  BY <1>1, <1>2 DEF Quiet, HasEvidence
<1>3. CASE Stages(p, t)
  BY <1>3 DEF Stages, HasEvidence
<1>4. ASSUME NEW q \in Participants, Unsettled(p),
             t = AddStepSignature(st[p], p, q) \/ t = InstallCertified(st[p], p)
      PROVE  HasEvidence(t)
  <2>1. st[p].proposal # None /\ ~IsTerminal(st[p])
    BY <1>4 DEF Unsettled
  <2>2. InstallCertified(st[p], p).cert # None
    BY <1>1, <2>1, InstallCertifiedEffect, CommitmentType
  <2>3. CASE t = AddStepSignature(st[p], p, q)
    BY <1>1, <2>1, <2>2, <2>3, AddStepSignatureEffect DEF HasEvidence, IsTerminal
  <2> QED  BY <1>4, <2>2, <2>3 DEF HasEvidence
<1>5. CASE Signs(p, t)
  BY <1>4, <1>5 DEF Signs
<1>6. CASE Counts(p, t)
  BY <1>4, <1>6 DEF Counts
<1>7. CASE Certifies(p, t)
  BY <1>4, <1>7 DEF Certifies
<1>8. CASE StopsItself(p, t)
  BY <1>1, <1>8, StopEffect DEF StopsItself, HasEvidence
<1>9. CASE Adopts(p, t)
  BY <1>1, <1>9, StopEffect, AbortOccurrence DEF Adopts, HasEvidence
<1> QED  BY <1>2, <1>3, <1>5, <1>6, <1>7, <1>8, <1>9 DEF Moves

LEMMA SpendType ==
  ASSUME TypeInv, NEW kind \in {"crash", "timeout", "stop", "window"},
         Spend(kind)
  PROVE  budget' \in BudgetType
<1>1. budget \in BudgetType /\ budget[kind] \in Nat
  BY DEF TypeInv, TypeOK, BudgetType
<1>2. budget[kind] - 1 \in Nat
  BY <1>1 DEF Spend
<1> QED  BY <1>1, <1>2 DEF Spend, BudgetType

\* A step that replaces p's state by t.
LEMMA UpdateShape ==
  ASSUME TypeInv, NEW p \in Participants, NEW t \in ExecutionStates,
         NEW next \in Positions, Update(p, t, next), Moves(p, t),
         Launches(p, Owed(t, p)), budget' \in BudgetType
  PROVE  Shape(p)
<1>1. pc' \in [Participants -> Positions]
  BY TypeFacts DEF Update
<1> QED  BY <1>1 DEF Shape, Update

\* A step that keeps every durable state.
LEMMA KeepShape ==
  ASSUME TypeInv, NEW p \in Participants,
         UNCHANGED <<st, signed>>, pc' \in [Participants -> Positions],
         Launches(p, Owed(st[p], p)), budget' \in BudgetType
  PROVE  Shape(p)
<1>1. st' = [st EXCEPT ![p] = st[p]]
  BY TypeFacts
<1>2. Moves(p, st[p])
  BY DEF Moves, Quiet
<1> QED  BY <1>1, <1>2, TypeFacts DEF Shape

-----------------------------------------------------------------------------
(* The shape of each action.                                               *)

\* A quiet step that leaves the lanes alone.
LEMMA QuietShape ==
  ASSUME TypeInv, NEW p \in Participants, NEW t \in ExecutionStates,
         NEW next \in Positions, Update(p, t, next), Quiet(st[p], t),
         UNCHANGED <<lanes, late, signed, budget>>
  PROVE  Shape(p)
<1>1. Launches(p, Owed(t, p)) /\ budget' \in BudgetType
  BY TypeFacts, LanesUnchanged
<1>2. Moves(p, t)
  BY DEF Moves
<1> QED  BY <1>1, <1>2, UpdateShape

LEMMA QuietRefl ==
  ASSUME NEW s
  PROVE  Quiet(s, s)
BY DEF Quiet

LEMMA RestartShape ==
  ASSUME TypeInv, NEW p \in Participants, Restart(p) \/ Resume(p)
  PROVE  Shape(p)
<1>1. Activate(st[p]) \in ExecutionStates /\ st[p] \in ExecutionStates
  BY TypeFacts, DispatchTypes, NoneAssumption
<1>2. st[p].status = "Activating" => Quiet(st[p], Activate(st[p]))
  BY <1>1 DEF Activate, Quiet, IsTerminal, ExecutionStates
<1>3. Quiet(st[p], st[p])
  BY QuietRefl
<1>4. "retired" \in Positions /\ "progress" \in Positions
  BY DEF Positions
<1>5. CASE Resume(p)
  BY <1>1, <1>3, <1>4, <1>5, QuietShape DEF Resume
<1>6. CASE Restart(p)
  <2>1. CASE Update(p, st[p], "retired") \/ Update(p, st[p], "progress")
    BY <1>1, <1>3, <1>4, <1>6, <2>1, QuietShape DEF Restart
  <2>2. CASE st[p].status = "Activating" /\ Update(p, Activate(st[p]), "progress")
    BY <1>1, <1>2, <1>4, <1>6, <2>2, QuietShape DEF Restart
  <2> QED  BY <1>6, <2>1, <2>2 DEF Restart
<1> QED  BY <1>5, <1>6

LEMMA LocalEventShape ==
  ASSUME TypeInv, NEW p \in Participants, LocalEvent(p)
  PROVE  Shape(p)
<1>1. PICK k \in BroadcastCounts(st[p]) :
        Update(p, InstallDispatch(st[p], k), "progress")
  BY DEF LocalEvent
<1>2. k \in Nat /\ st[p] \in ExecutionStates
  BY TypeFacts DEF BroadcastCounts
<1>3. InstallDispatch(st[p], k) \in ExecutionStates
  BY <1>2, DispatchTypes
<1>4. Quiet(st[p], InstallDispatch(st[p], k))
  BY <1>2 DEF InstallDispatch, Quiet, IsTerminal, ExecutionStates
<1> QED  BY <1>1, <1>3, <1>4, QuietShape DEF LocalEvent, Positions

\* Any step by which p stops by itself and whose lanes are well typed.
LEMMA StopHereShape ==
  ASSUME TypeInv, NEW p \in Participants, NEW kind \in {"Abort", "Fail"},
         NEW next \in Positions, MayStop(st[p], p),
         Update(p, StopHere(st[p], p, kind), next),
         \A S : Launches(p, S), UNCHANGED signed, budget' \in BudgetType
  PROVE  Shape(p)
<1>1. PICK occ \in Occurrence :
        /\ occ.sender = p /\ occ.cursor = st[p].log
        /\ StopHere(st[p], p, kind) = Stop(st[p], p, occ)
  BY TypeFacts, OwnOccurrence
<1> DEFINE t == Stop(st[p], p, occ)
<1>2. t \in ExecutionStates
  BY TypeFacts, StopEffect
<1>3. Moves(p, t)
  BY <1>1 DEF Moves, StopsItself
<1> HIDE DEF t
<1>4. Update(p, t, next)
  BY <1>1 DEF t
<1> QED  BY <1>2, <1>3, <1>4, UpdateShape

LEMMA TerminateShape ==
  ASSUME TypeInv, NEW p \in Participants, Terminate(p)
  PROVE  Shape(p)
<1>1. \A S : Launches(p, S)
  BY TypeFacts, LanesUnchanged DEF Terminate
<1> QED  BY <1>1, SpendType, StopHereShape DEF Terminate, Positions

LEMMA FailTerminalShape ==
  ASSUME TypeInv, NEW p \in Participants, FailTerminal(p)
  PROVE  Shape(p)
<1>1. budget' \in BudgetType
  BY SpendType DEF FailTerminal
<1>2. CASE MayStop(st[p], p)
  <2>1. \A S : Launches(p, S)
    BY <1>2, TypeFacts, LanesUnchanged DEF FailTerminal
  <2> QED  BY <1>1, <1>2, <2>1, StopHereShape DEF FailTerminal, Positions
<1>3. CASE ~MayStop(st[p], p)
  <2>1. Update(p, st[p], "exited") /\ DropLanes(p) /\ UNCHANGED signed
    BY <1>3 DEF FailTerminal
  <2>2. Launches(p, Owed(st[p], p))
    BY <2>1, TypeFacts, DropLanesLaunches
  <2>3. Moves(p, st[p])
    BY <2>1, QuietRefl DEF Moves
  <2> QED  BY <1>1, <2>1, <2>2, <2>3, TypeFacts, UpdateShape DEF Positions
<1> QED  BY <1>2, <1>3

LEMMA PublishFailureShape ==
  ASSUME TypeInv, NEW p \in Participants, PublishFailure(p)
  PROVE  Shape(p)
BY TypeFacts, TerminalEffects, QuietShape DEF PublishFailure, Positions

\* Staging a step is a move and gives a state.
LEMMA StageMoves ==
  ASSUME TypeInv, NEW p \in Participants, ~IsTerminal(st[p]),
         st[p].proposal = None, NEW from \in Participants \cup {None}, NEW data \in Nat, NEW k \in Nat,
         from = p => st[p].outgoing # <<>>, UNCHANGED signed
  PROVE  LET t == StageProposal(st[p], p, from, data, k) IN
         t \in ExecutionStates /\ Moves(p, t)
<1> DEFINE queue == IF from = p THEN Tail(st[p].outgoing) ELSE st[p].outgoing
           staged == [entry |-> EntryOf(st[p], from, data),
                      outgoing |-> queue \o Broadcasts(st[p], k),
                      local |-> st[p].local + k, signatures |-> {}]
           t == StageProposal(st[p], p, from, data, k)
<1>1. st[p] \in ExecutionStates
  BY TypeFacts
<1>2. t \in ExecutionStates
  BY <1>1, DispatchTypes
<1>3. t = [st[p] EXCEPT !.proposal = staged] /\ staged.signatures = {}
  BY DEF StageProposal
<1>4. t.proposal = staged
  BY <1>1, <1>3 DEF ExecutionStates
<1>5. staged # None
  <2>1. queue \in Seq(Nat)
    BY <1>1 DEF ExecutionStates
  <2>2. queue \o Broadcasts(st[p], k) \in Seq(Nat)
    BY <1>1, <2>1, BroadcastsType, ConcatProperties
  <2>3. EntryOf(st[p], from, data) \in Entry /\ st[p].local + k \in Nat
    BY <1>1, EntryType DEF ExecutionStates
  <2>4. staged \in Proposal
    BY <2>2, <2>3 DEF Proposal
  <2> QED  BY <2>4, NoneAssumption
<1> HIDE DEF staged
<1>6. /\ t.log = st[p].log /\ t.cert = st[p].cert /\ t.stop = st[p].stop
      /\ t.status = st[p].status
  BY <1>1, <1>3 DEF ExecutionStates
<1> HIDE DEF t
<1>7. Stages(p, t)
  BY <1>3, <1>4, <1>5, <1>6 DEF Stages, IsTerminal
<1> QED  BY <1>2, <1>7 DEF Moves, t

LEMMA StartSessionShape ==
  ASSUME TypeInv, NEW p \in Participants, StartSession(p)
  PROVE  Shape(p)
<1>1. PICK k \in BroadcastCounts(st[p]) :
        Update(p, StageProposal(st[p], p, None, 0, k), "progress")
  BY DEF StartSession
<1> DEFINE t == StageProposal(st[p], p, None, 0, k)
<1>2. k \in Nat /\ CanDispatch(st[p]) /\ UNCHANGED <<lanes, late, signed, budget>>
  BY DEF StartSession, BroadcastCounts
<1>3. t \in ExecutionStates /\ Moves(p, t)
  BY <1>2, StageMoves, NoneAssumption DEF CanDispatch, IsTerminal
<1>4. Launches(p, Owed(t, p)) /\ budget' \in BudgetType
  BY <1>2, TypeFacts, LanesUnchanged
<1> HIDE DEF t
<1>5. Update(p, t, "progress")
  BY <1>1 DEF t
<1> QED  BY <1>3, <1>4, <1>5, UpdateShape DEF Positions

\* A move followed by deliver_frames.
LEMMA DeliverShape ==
  ASSUME TypeInv, NEW p \in Participants, NEW t \in ExecutionStates,
         Update(p, t, "idle"), Moves(p, t), lanes' = DeliverFrames(p, t),
         UNCHANGED <<late, budget>>
  PROVE  Shape(p)
<1>1. Launches(p, Owed(t, p))
  BY TypeFacts, MovesEvidence, DeliverFramesLaunches
<1> QED  BY <1>1, TypeFacts, UpdateShape DEF Positions

LEMMA SignStepShape ==
  ASSUME TypeInv, NEW p \in Participants, SignStep(p)
  PROVE  Shape(p)
<1> DEFINE t == AddStepSignature(st[p], p, p)
<1>1. Unsettled(p) /\ ~HasSigned(st[p], p)
  BY DEF SignStep, Unsettled
<1>2. t \in ExecutionStates
  BY <1>1, TypeFacts, AddStepSignatureEffect DEF Unsettled
<1>3. Moves(p, t)
  BY <1>1 DEF SignStep, Moves, Signs
<1>4. /\ Update(p, t, "idle") /\ lanes' = DeliverFrames(p, t)
      /\ UNCHANGED <<late, budget>>
  BY DEF SignStep
<1> HIDE DEF t
<1> QED  BY <1>2, <1>3, <1>4, DeliverShape

LEMMA AuthorNextMessageShape ==
  ASSUME TypeInv, NEW p \in Participants, AuthorNextMessage(p)
  PROVE  Shape(p)
<1>1. PICK k \in BroadcastCounts(st[p]) :
        LET s == StageProposal(st[p], p, p, Head(st[p].outgoing), k) IN
        Update(p, s, "idle") /\ lanes' = DeliverFrames(p, s)
  BY DEF AuthorNextMessage
<1> DEFINE t == StageProposal(st[p], p, p, Head(st[p].outgoing), k)
<1>2. /\ k \in Nat /\ CanDispatch(st[p]) /\ st[p].outgoing # <<>>
      /\ UNCHANGED <<late, signed, budget>>
  BY DEF AuthorNextMessage, BroadcastCounts
<1>3. Head(st[p].outgoing) \in Nat
  BY <1>2, TypeFacts DEF ExecutionStates
<1>4. t \in ExecutionStates /\ Moves(p, t)
  BY <1>2, <1>3, StageMoves DEF CanDispatch, IsTerminal
<1> HIDE DEF t
<1>5. Update(p, t, "idle") /\ lanes' = DeliverFrames(p, t)
  BY <1>1 DEF t
<1> QED  BY <1>2, <1>4, <1>5, DeliverShape

LEMMA DropRejectedMessageShape ==
  ASSUME TypeInv, NEW p \in Participants, DropRejectedMessage(p)
  PROVE  Shape(p)
<1> DEFINE t == DropOutgoingHead(st[p])
<1>1. st[p].outgoing # <<>> /\ st[p] \in ExecutionStates
  BY TypeFacts DEF DropRejectedMessage
<1>2. t \in ExecutionStates
  BY <1>1, DispatchTypes, NoneAssumption
<1>3. Quiet(st[p], t)
  BY <1>1 DEF DropOutgoingHead, Quiet, IsTerminal, ExecutionStates
<1> QED  BY <1>2, <1>3, QuietShape DEF DropRejectedMessage, Positions

LEMMA RedeliverShape ==
  ASSUME TypeInv, NEW p \in Participants, Redeliver(p)
  PROVE  Shape(p)
<1>1. Moves(p, st[p])
  BY QuietRefl DEF Moves, Redeliver
<1> QED  BY <1>1, TypeFacts, DeliverShape DEF Redeliver

LEMMA ProgressTerminalShape ==
  ASSUME TypeInv, NEW p \in Participants, ProgressTerminal(p)
  PROVE  Shape(p)
<1> DEFINE t == PublishReceipt(st[p])
<1>1. t \in ExecutionStates /\ Quiet(st[p], t)
  BY TypeFacts, TerminalEffects
<1>2. Moves(p, t)
  BY <1>1 DEF Moves, ProgressTerminal
<1>3. CASE Update(p, t, "idle") /\ lanes' = DeliverFrames(p, t) /\ UNCHANGED late
  BY <1>1, <1>2, <1>3, DeliverShape DEF ProgressTerminal
<1>4. CASE Update(p, t, "retired") /\ DropLanes(p)
  <2>1. Launches(p, Owed(t, p)) /\ budget' \in BudgetType
    BY <1>4, TypeFacts, DropLanesLaunches DEF ProgressTerminal
  <2> HIDE DEF t
  <2> QED  BY <1>1, <1>2, <1>4, <2>1, UpdateShape DEF Positions
<1> QED  BY <1>3, <1>4 DEF ProgressTerminal

LEMMA ExpireWindowShape ==
  ASSUME TypeInv, NEW p \in Participants, ExpireWindow(p)
  PROVE  Shape(p)
<1> DEFINE u == PublishReceipt(st[p])
           t == ExpireEnd(u)
<1>1. u \in ExecutionStates /\ Quiet(st[p], u)
  BY TypeFacts, TerminalEffects
<1> HIDE DEF u
<1>2. t \in ExecutionStates /\ Quiet(u, t)
  BY <1>1, TerminalEffects
<1>3. Moves(p, t)
  BY <1>1, <1>2 DEF Moves, Quiet, ExpireWindow
<1>4. Update(p, t, "retired") /\ DropLanes(p)
  BY DEF ExpireWindow, u
<1>5. Launches(p, Owed(t, p)) /\ budget' \in BudgetType
  BY <1>4, TypeFacts, DropLanesLaunches, SpendType DEF ExpireWindow
<1> HIDE DEF t
<1> QED  BY <1>2, <1>3, <1>4, <1>5, UpdateShape DEF Positions

LEMMA CrashShape ==
  ASSUME TypeInv, NEW p \in Participants, Crash(p)
  PROVE  Shape(p)
<1>1. pc' \in [Participants -> Positions]
  BY TypeFacts DEF Crash, Positions
<1>2. Launches(p, Owed(st[p], p))
  BY TypeFacts, DropLanesLaunches DEF Crash
<1> QED  BY <1>1, <1>2, SpendType, KeepShape DEF Crash

\* What accept_frame and route_exec answer.
LEMMA VerdictRange ==
  ASSUME NEW s, NEW source, NEW f \in ExecFrame
  PROVE  Verdict(s, source, f) \in {"Apply", "Contradiction"} \cup Answers
<1>1. AbortVerdict(s, f.occurrence) \in {"Apply"} \cup Answers
  BY DEF AbortVerdict, Answers
<1>2. ASSUME f.type # "Abort"
      PROVE  CommittedVerdict(s, source, f.type, f.commitment) \in
               {"Apply", "Contradiction"} \cup Answers
  <2>1. f.type \in {"Message", "StepSignature", "StepCertificate"}
    BY <1>2 DEF ExecFrame, CommittedFrame, AbortFrame
  <2>2. CASE f.type = "Message"
    BY <2>2 DEF CommittedVerdict, Answers
  <2>3. CASE f.type = "StepSignature"
    BY <2>3 DEF CommittedVerdict, Answers
  <2>4. CASE f.type = "StepCertificate"
    BY <2>4 DEF CommittedVerdict, Answers
  <2> QED  BY <2>1, <2>2, <2>3, <2>4
<1>3. CASE IsTerminal(s)
  BY <1>3 DEF Verdict, Answers
<1>4. CASE ~IsTerminal(s)
  BY <1>1, <1>2, <1>4 DEF Verdict
<1> QED  BY <1>3, <1>4

LEMMA RetiredVerdictRange ==
  ASSUME NEW s, NEW d
  PROVE  RetiredVerdict(s, d) \in Answers
BY DEF RetiredVerdict, Answers

\* An applied frame that is not a message is quiet, counts a signature,
\* certifies, or stops.
LEMMA AcceptFrameShape ==
  ASSUME TypeInv, NEW q \in Participants, NEW d \in Deliveries(q),
         AcceptFrame(q, d)
  PROVE  Shape(q)
<1> DEFINE f == d.frame
           t == Apply(st[q], q, d.source, f)
<1>1. WellTypedLanes /\ st[q] \in ExecutionStates
  BY TypeFacts
<1>2. d.source \in Participants /\ f \in ExecFrame /\ InFlight(d.source, f)
  BY <1>1, DeliveryInFlight
<1>3. /\ Update(q, t, "progress") /\ Verdict(st[q], d.source, f) = "Apply"
      /\ ~IsStepMessage(st[q], f)
      /\ lanes' = Answer(q, d, "Ack") /\ UNCHANGED <<late, signed, budget>>
  BY DEF AcceptFrame
<1>4. t \in ExecutionStates /\ Moves(q, t)
  <2>1. CASE IsTerminal(st[q])
    <3>1. t = ConfirmEnd(st[q], d.source)
      BY <2>1 DEF Apply
    <3> QED  BY <1>1, <1>2, <1>3, <3>1, TerminalEffects DEF Moves
  <2>2. CASE ~IsTerminal(st[q]) /\ f.type = "StepSignature"
    <3>1. t = AddStepSignature(st[q], q, d.source)
      BY <2>2 DEF Apply
    <3>2. st[q].proposal # None /\ f.commitment = ProposalCommitment(st[q])
      BY <1>2, <1>3, <2>2, AppliedFrame
    <3>3. Counts(q, t)
      BY <1>2, <1>3, <2>2, <3>1, <3>2 DEF Counts, Unsettled
    <3> QED  BY <1>1, <1>2, <3>1, <3>2, <3>3, AddStepSignatureEffect DEF Moves
  <2>3. CASE ~IsTerminal(st[q]) /\ f.type = "StepCertificate"
    <3>1. t = InstallCertified(st[q], q)
      BY <2>3 DEF Apply
    <3>2. st[q].proposal # None /\ f.commitment = ProposalCommitment(st[q])
      BY <1>2, <1>3, <2>3, AppliedFrame
    <3>3. Certifies(q, t)
      BY <1>2, <1>3, <2>3, <3>1, <3>2 DEF Certifies, Unsettled
    <3> QED  BY <1>1, <3>1, <3>2, <3>3, InstallCertifiedEffect DEF Moves
  <2>4. CASE ~IsTerminal(st[q]) /\ f.type = "Abort"
    <3>1. t = Stop(st[q], q, f.occurrence)
      BY <2>4 DEF Apply
    <3>2. f.occurrence.cursor = st[q].log /\ ~HasSigned(st[q], f.occurrence.sender)
      BY <1>2, <1>3, <2>4, AppliedFrame
    <3>3. Adopts(q, t)
      BY <1>2, <1>3, <2>4, <3>1, <3>2 DEF Adopts
    <3> QED  BY <1>1, <1>2, <2>4, <3>1, <3>3, StopEffect, AbortOccurrence DEF Moves
  <2>5. f.type \in {"Message", "StepSignature", "StepCertificate", "Abort"}
    BY <1>2 DEF ExecFrame, CommittedFrame, AbortFrame
  <2> QED  BY <1>3, <2>1, <2>2, <2>3, <2>4, <2>5 DEF IsStepMessage
<1>5. Launches(q, Owed(t, q))
  BY <1>1, <1>3, AnswerLaunches DEF Answers
<1> HIDE DEF t
<1> QED  BY <1>3, <1>4, <1>5, TypeFacts, UpdateShape DEF Positions

LEMMA ApplyMessageShape ==
  ASSUME TypeInv, NEW q \in Participants, NEW d \in Deliveries(q),
         ApplyMessage(q, d)
  PROVE  Shape(q)
<1> DEFINE data == d.frame.commitment.entry.data
<1>1. PICK k \in BroadcastCounts(st[q]) :
        /\ QueueFits(st[q], q, d.source, k)
        /\ Update(q, StageProposal(st[q], q, d.source, data, k), "progress")
  BY DEF ApplyMessage
<1>2. /\ d.source \in Participants /\ d.source # q /\ d.frame \in ExecFrame
      /\ WellTypedLanes /\ st[q] \in ExecutionStates
  BY TypeFacts, DeliveryInFlight DEF Peers
<1>3. /\ Verdict(st[q], d.source, d.frame) = "Apply"
      /\ ~IsTerminal(st[q]) /\ d.frame.type = "Message"
      /\ lanes' = Answer(q, d, "Ack") /\ UNCHANGED <<late, signed, budget>>
  BY DEF ApplyMessage, IsStepMessage
<1>4. st[q].proposal = None
  BY <1>2, <1>3, AppliedFrame
<1>5. data \in Nat /\ k \in Nat
  BY <1>2, <1>3, CommittedCommitment DEF Commitment, Entry, BroadcastCounts
<1> HIDE DEF data
<1> DEFINE t == StageProposal(st[q], q, d.source, data, k)
<1>6. t \in ExecutionStates /\ Moves(q, t)
  BY <1>2, <1>3, <1>4, <1>5, StageMoves
<1>7. Launches(q, Owed(t, q))
  BY <1>2, <1>3, AnswerLaunches DEF Answers
<1> HIDE DEF t
<1>8. Update(q, t, "progress")
  BY <1>1 DEF t
<1> QED  BY <1>3, <1>6, <1>7, <1>8, TypeFacts, UpdateShape DEF Positions

LEMMA DivergeOnMessageShape ==
  ASSUME TypeInv, NEW q \in Participants, NEW d \in Deliveries(q),
         DivergeOnMessage(q, d)
  PROVE  Shape(q)
<1>1. d.frame \in ExecFrame /\ WellTypedLanes
  BY TypeFacts, DeliveryInFlight
<1>2. PICK answer \in {"Ack", "Pending"} : lanes' = Answer(q, d, answer)
  BY DEF DivergeOnMessage
<1>3. answer \in Answers /\ UNCHANGED late
  BY DEF Answers, DivergeOnMessage
<1>4. \A S : Launches(q, S)
  BY <1>1, <1>2, <1>3, AnswerLaunches
<1>5. st[q].proposal = None /\ ~IsTerminal(st[q])
  BY <1>1, AppliedFrame DEF DivergeOnMessage, IsStepMessage
<1>6. MayStop(st[q], q)
  BY <1>5 DEF MayStop, HasSigned
<1> QED  BY <1>4, <1>6, SpendType, StopHereShape DEF DivergeOnMessage, Positions

LEMMA RefuseFrameShape ==
  ASSUME TypeInv, NEW q \in Participants, NEW d \in Deliveries(q),
         RefuseFrame(q, d)
  PROVE  Shape(q)
<1> DEFINE verdict  == Verdict(st[q], d.source, d.frame)
           answered == Answer(q, d, verdict)
<1>1. /\ d.source \in Participants /\ d.frame \in ExecFrame
      /\ WellTypedLanes /\ st[q] \in ExecutionStates
  BY TypeFacts, DeliveryInFlight
<1>2. verdict # "Apply" /\ UNCHANGED <<signed, budget>>
  BY DEF RefuseFrame
<1>3. Moves(q, st[q]) /\ budget' \in BudgetType
  BY <1>2, QuietRefl, TypeFacts DEF Moves
<1>4. CASE verdict = "Contradiction"
  <2>1. Update(q, st[q], "exited") /\ DropLanes(q)
    BY <1>4 DEF RefuseFrame
  <2>2. Launches(q, Owed(st[q], q))
    BY <1>1, <2>1, DropLanesLaunches
  <2> QED  BY <1>1, <1>3, <2>1, <2>2, UpdateShape DEF Positions
<1>5. CASE verdict # "Contradiction"
  <2> DEFINE lane == [answered[q][d.source] EXCEPT !.suppressed = TRUE]
  <2>1. /\ Update(q, st[q], "progress") /\ UNCHANGED late
        /\ lanes' = answered \/ lanes' = SetLane(answered, q, d.source, lane)
    BY <1>5 DEF RefuseFrame
  <2>2. verdict \in Answers
    BY <1>1, <1>2, <1>5, VerdictRange
  <2> HIDE DEF verdict
  <2>3. KeepsFrames(answered)
    BY <1>1, <2>2, AnswerKeepsFrames
  <2> HIDE DEF answered
  <2>4. /\ lane \in Lane
        /\ lane.send # None => InFlight(q, lane.send.frame)
    <3> DEFINE old == answered[q][d.source]
    <3>1. old \in Lane /\ (old.send # None => InFlight(q, old.send.frame))
      BY <1>1, <2>3 DEF KeepsFrames
    <3>2. lane = [old EXCEPT !.suppressed = TRUE]
      OBVIOUS
    <3> HIDE DEF old, lane
    <3>3. lane \in Lane /\ lane.send = old.send
      BY <3>1, <3>2 DEF Lane
    <3> QED  BY <3>1, <3>3
  <2> HIDE DEF lane
  <2>5. KeepsFrames(lanes')
    BY <1>1, <2>1, <2>3, <2>4, SetLaneKeepsFrames
  <2>6. Launches(q, Owed(st[q], q))
    BY <1>1, <2>1, <2>5, KeptLanesLaunch DEF WellTypedLanes
  <2> QED  BY <1>1, <1>3, <2>1, <2>6, UpdateShape DEF Positions
<1> QED  BY <1>4, <1>5

LEMMA RouteRetiredShape ==
  ASSUME TypeInv, NEW q \in Participants, NEW d \in Deliveries(q),
         RouteRetired(q, d)
  PROVE  Shape(q)
<1>1. pc' \in [Participants -> Positions]
  BY TypeFacts DEF RouteRetired, Positions
<1>2. Launches(q, Owed(st[q], q))
  BY TypeFacts, RetiredVerdictRange, AnswerLaunches DEF RouteRetired
<1> QED  BY <1>1, <1>2, TypeFacts, KeepShape DEF RouteRetired

\* A step of p that replaces one of its lanes, with no new frame.
LEMMA OneLaneLaunches ==
  ASSUME WellTypedLanes, NEW p \in Participants, NEW q \in Participants,
         NEW lane \in Lane, lanes' = SetLane(lanes, p, q, lane),
         lane.send # None => lane.send = lanes[p][q].send,
         late' \subseteq late \cup Outstanding(p), NEW S
  PROVE  Launches(p, S)
<1>1. lane.send # None => InFlight(p, lane.send.frame)
  BY DEF InFlight
<1>2. KeepsFrames(lanes')
  BY <1>1, LanesKeepFrames, SetLaneKeepsFrames
<1>3. \A m \in Outstanding(p) : m \in Transits /\ InFlight(m.source, m.frame)
  BY OutstandingInFlight
<1> QED  BY <1>2, <1>3, KeptLanesLaunch DEF WellTypedLanes

LEMMA SettleSendShape ==
  ASSUME TypeInv, NEW p \in Participants, NEW q \in Participants,
         SettleSend(p, q)
  PROVE  Shape(p)
<1> DEFINE lane  == lanes[p][q]
           frame == lane.send.frame
           final == IsTerminal(st[p]) /\ frame = TerminalEvidence(st[p])
           free  == [lane EXCEPT !.send = None, !.retry = FALSE]
           answer == lane.send.answer
           next == CASE answer = "Ack" -> [free EXCEPT !.acked = @ \cup {frame}]
                     [] answer = "NotYet" -> [free EXCEPT !.retry = TRUE]
                     [] answer = "Rejected" /\ ~final ->
                          [free EXCEPT !.rejected = @ \cup {frame}]
                     [] OTHER -> [free EXCEPT !.suppressed = TRUE]
           t == IF answer = "Ack" /\ final THEN ConfirmEnd(st[p], q) ELSE st[p]
<1>1. lane \in Lane /\ WellTypedLanes /\ st[p] \in ExecutionStates
  BY TypeFacts DEF WellTypedLanes
<1>2. /\ lane.send # None /\ lanes' = SetLane(lanes, p, q, next)
      /\ Update(p, t, "progress") /\ UNCHANGED <<late, signed, budget>>
  BY DEF SettleSend
<1>3. frame \in ExecFrame
  BY <1>1, <1>2 DEF Lane
<1> HIDE DEF frame, final, answer
<1>4. free \in Lane /\ free.send = None
  BY <1>1 DEF Lane
<1>5. next \in Lane /\ next.send = None
  <2> HIDE DEF free
  <2>1. /\ [free EXCEPT !.acked = @ \cup {frame}] \in Lane
        /\ [free EXCEPT !.acked = @ \cup {frame}].send = None
    BY <1>3, <1>4 DEF Lane
  <2>2. /\ [free EXCEPT !.retry = TRUE] \in Lane
        /\ [free EXCEPT !.retry = TRUE].send = None
    BY <1>4 DEF Lane
  <2>3. /\ [free EXCEPT !.rejected = @ \cup {frame}] \in Lane
        /\ [free EXCEPT !.rejected = @ \cup {frame}].send = None
    BY <1>3, <1>4 DEF Lane
  <2>4. /\ [free EXCEPT !.suppressed = TRUE] \in Lane
        /\ [free EXCEPT !.suppressed = TRUE].send = None
    BY <1>4 DEF Lane
  <2> QED  BY <2>1, <2>2, <2>3, <2>4
<1>6. t \in ExecutionStates /\ Quiet(st[p], t)
  BY <1>1, TerminalEffects, QuietRefl
<1> HIDE DEF next
<1>7. Launches(p, Owed(t, p))
  BY <1>1, <1>2, <1>5, OneLaneLaunches
<1>8. Moves(p, t) /\ budget' \in BudgetType
  BY <1>2, <1>6, TypeFacts DEF Moves
<1> HIDE DEF t
<1> QED  BY <1>2, <1>6, <1>7, <1>8, UpdateShape DEF Positions

LEMMA SendTimeoutShape ==
  ASSUME TypeInv, NEW p \in Participants, NEW q \in Participants,
         SendTimeout(p, q)
  PROVE  Shape(p)
<1> DEFINE old  == lanes[p][q]
           lane == [lanes[p][q] EXCEPT !.send = None, !.retry = TRUE]
<1>1. old \in Lane /\ WellTypedLanes /\ st[p] \in ExecutionStates
  BY TypeFacts DEF WellTypedLanes
<1>2. lane \in Lane /\ lane.send = None
  <2> HIDE DEF old
  <2>1. lane = [old EXCEPT !.send = None, !.retry = TRUE]
    BY DEF old
  <2> QED  BY <1>1, <2>1 DEF Lane
<1>3. /\ lanes' = SetLane(lanes, p, q, lane)
      /\ late' \subseteq late \cup Outstanding(p)
      /\ Update(p, st[p], "progress") /\ UNCHANGED signed
  BY DEF SendTimeout
<1> HIDE DEF lane
<1>4. Launches(p, Owed(st[p], p))
  BY <1>1, <1>2, <1>3, OneLaneLaunches
<1>5. Moves(p, st[p]) /\ budget' \in BudgetType
  BY <1>3, QuietRefl, SpendType DEF Moves, SendTimeout
<1> QED  BY <1>1, <1>3, <1>4, <1>5, UpdateShape DEF Positions

LEMMA RetryDueShape ==
  ASSUME TypeInv, NEW p \in Participants, NEW q \in Participants,
         RetryDue(p, q)
  PROVE  Shape(p)
<1> DEFINE old  == lanes[p][q]
           lane == [lanes[p][q] EXCEPT !.retry = FALSE]
<1>1. old \in Lane /\ WellTypedLanes
  BY TypeFacts DEF WellTypedLanes
<1>2. lane \in Lane /\ lane.send = lanes[p][q].send
  <2> HIDE DEF old
  <2>1. lane = [old EXCEPT !.retry = FALSE]
    BY DEF old
  <2> QED  BY <1>1, <2>1 DEF Lane, old
<1>3. lanes' = SetLane(lanes, p, q, lane) /\ late' \subseteq late \cup Outstanding(p)
  BY DEF RetryDue
<1> HIDE DEF lane
<1>4. Launches(p, Owed(st[p], p))
  BY <1>1, <1>2, <1>3, OneLaneLaunches
<1> QED  BY <1>4, TypeFacts, KeepShape DEF RetryDue

-----------------------------------------------------------------------------
(* Type correctness.                                                       *)

\* Each action of Next, with its participant.
LEMMA StepShape ==
  ASSUME TypeInv, Next
  PROVE  \E p \in Participants : Shape(p)
<1>1. ASSUME NEW p \in Participants,
             \/ Restart(p) \/ Resume(p) \/ LocalEvent(p)
             \/ Terminate(p) \/ FailTerminal(p)
             \/ Progress(p) \/ ExpireWindow(p) \/ Crash(p)
      PROVE  Shape(p)
  BY <1>1, RestartShape, LocalEventShape, TerminateShape, FailTerminalShape,
     StartSessionShape, SignStepShape, AuthorNextMessageShape,
     DropRejectedMessageShape, RedeliverShape, ProgressTerminalShape,
     PublishFailureShape, ExpireWindowShape, CrashShape DEF Progress
<1>2. ASSUME NEW p \in Participants, NEW d \in Deliveries(p),
             Inbound(p, d) \/ DivergeOnMessage(p, d)
      PROVE  Shape(p)
  BY <1>2, AcceptFrameShape, ApplyMessageShape, RefuseFrameShape,
     RouteRetiredShape, DivergeOnMessageShape DEF Inbound
<1>3. ASSUME NEW p \in Participants, NEW q \in Participants,
             SettleSend(p, q) \/ SendTimeout(p, q) \/ RetryDue(p, q)
      PROVE  Shape(p)
  BY <1>3, SettleSendShape, SendTimeoutShape, RetryDueShape
<1> QED  BY <1>1, <1>2, <1>3 DEF Next

LEMMA InitType ==
  ASSUME Init
  PROVE  TypeInv
<1>1. <<>> \in Seq(Entry) /\ <<>> \in Seq(Nat)
  OBVIOUS
<1>2. NewExecution \in ExecutionStates /\ HasEvidence(NewExecution)
  BY <1>1 DEF NewExecution, ExecutionStates, Status, HasEvidence, IsTerminal
<1>3. NewLane \in Lane
  BY DEF NewLane, Lane
<1> QED  BY <1>2, <1>3, BudgetAssumption
         DEF Init, TypeInv, TypeOK, Positions

LEMMA ShapeType ==
  ASSUME TypeInv, NEW p \in Participants, Shape(p)
  PROVE  TypeInv'
<1>1. PICK t \in ExecutionStates :
        st' = [st EXCEPT ![p] = t] /\ Moves(p, t) /\ Launches(p, Owed(t, p))
  BY DEF Shape
<1>2. st \in [Participants -> ExecutionStates] /\ st[p] \in ExecutionStates
  BY TypeFacts
<1>3. HasEvidence(t)
  BY <1>1, MovesEvidence
<1>4. st' \in [Participants -> ExecutionStates]
      /\ \A q \in Participants : HasEvidence(st'[q])
  BY <1>1, <1>2, <1>3 DEF TypeInv
<1>5. signed' \in [Participants -> SUBSET Commitment]
  <2>1. signed \in [Participants -> SUBSET Commitment]
    BY TypeFacts
  <2>2. CASE UNCHANGED signed
    BY <2>1, <2>2
  <2>3. CASE Signs(p, t)
    <3>1. ProposalCommitment(st[p]) \in Commitment
      BY <1>2, <2>3, CommitmentType DEF Signs, Unsettled
    <3> QED  BY <2>1, <2>3, <3>1 DEF Signs
  <2> QED  BY <1>1, <2>2, <2>3
           DEF Moves, Stages, Counts, Certifies, StopsItself, Adopts
<1>6. WellTypedLanes'
  BY <1>1 DEF Launches
<1>7. TypeOK'
  BY <1>4, <1>5, <1>6 DEF TypeOK, WellTypedLanes, Transits, Shape, BudgetType
<1>8. (\A q \in Participants : HasEvidence(st[q]))'
  BY <1>4
<1> QED  BY <1>7, <1>8 DEF TypeInv

LEMMA StutterType ==
  ASSUME TypeInv, UNCHANGED vars
  PROVE  TypeInv'
BY DEF TypeInv, TypeOK, vars, HasEvidence, IsTerminal

\* TypeInv is an inductive invariant of the specification.
LEMMA TypeInvariant == Spec => []TypeInv
<1>1. Init => TypeInv
  BY InitType
<1>2. TypeInv /\ [Next]_vars => TypeInv'
  BY StepShape, ShapeType, StutterType
<1> QED  BY <1>1, <1>2, PTL DEF Spec

\* Every durable state, actor position, send lane, late frame and signature
\* keeps its type, for any ensemble, program and number of faults: whatever
\* ExecutionState's transitions and the actors' commands do in any order, the
\* aggregate stays one that execution/state.rs can hold.
THEOREM TypeCorrect == Spec => []TypeOK
<1>1. TypeInv => TypeOK
  BY DEF TypeInv
<1> QED  BY <1>1, TypeInvariant, PTL

=============================================================================
