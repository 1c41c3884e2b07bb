--------------------------- MODULE ExecutionEnding ---------------------------
(***************************************************************************)
(* How sessions end, for any ensemble, any program and any number of       *)
(* faults: no evidence of a conclusion is refused, a peer is confirmed     *)
(* only when it has concluded, a conclusion is final, and the actors       *)
(* together implement AgreedSession.                                       *)
(***************************************************************************)
EXTENDS ExecutionSafety

-----------------------------------------------------------------------------
(* Evidence is never refused.                                              *)

\* A concluded participant has no staged step, and everybody who stopped
\* stands where it does.
LEMMA StoppedTogether ==
  ASSUME IInv, NEW q \in Participants, NEW occ \in Occurrence,
         st[occ.sender].stop = occ
  PROVE  /\ occ.sender \in Participants /\ IsTerminal(st[occ.sender])
         /\ occ.cursor = st[occ.sender].log /\ occ.cursor \in Seq(Entry)
         /\ Len(st[q].log) <= Len(occ.cursor)
         /\ Len(st[q].log) = Len(occ.cursor) => occ.cursor = st[q].log
<1>1. occ.sender \in Participants /\ occ # None /\ occ.cursor \in Seq(Entry)
  BY NoneAssumption DEF Occurrence
<1>2. IsTerminal(st[occ.sender]) /\ occ.cursor = st[occ.sender].log
  BY <1>1 DEF IInv, SignedWordHolds, StopsHold
<1>3. Len(st[q].log) <= Len(occ.cursor)
  BY <1>1, <1>2, NoStepPast DEF NoStepPastAStop
<1>4. st[q].log \in Seq(Entry)
  BY TypeFacts DEF IInv, ExecutionStates
<1>5. ASSUME Len(st[q].log) = Len(occ.cursor) PROVE occ.cursor = st[q].log
  <2>1. \A i \in 1..Len(occ.cursor) : occ.cursor[i] = st[q].log[i]
    BY <1>1, <1>2, <1>4, <1>5, TracesAgree, LenProperties DEF CertifiedTracesAgree
  <2> QED  BY <1>1, <1>4, <1>5, <2>1, SeqEqual
<1> QED  BY <1>1, <1>2, <1>3, <1>5

\* What a certified commitment is to q: a step q has, or the one q has
\* staged and signed.
LEMMA CertifiedAt ==
  ASSUME IInv, NEW c \in Commitment, \A r \in Participants : c \in signed[r],
         NEW q \in Participants
  PROVE  \/ Len(c.prefix) < Len(st[q].log)
         \/ /\ ~IsTerminal(st[q]) /\ st[q].proposal # None
            /\ c = ProposalCommitment(st[q]) /\ c.prefix = st[q].log
<1>1. CASE Includes(st[q].log, c)
  BY <1>1 DEF Includes
<1>2. CASE c.prefix = st[q].log
  <2>1. st[q].stop = None
    BY <1>2, CertifiedNotStopped
  <2>2. \/ Includes(st[q].log, c)
        \/ HasSigned(st[q], q) /\ ProposalCommitment(st[q]) = c
    BY <2>1 DEF IInv, SignedWordHolds, SignaturesHold
  <2>3. CASE HasSigned(st[q], q) /\ ProposalCommitment(st[q]) = c
    BY <1>2, <2>3 DEF HasSigned, IInv, SignedWordHolds, ProposalsHold
  <2> QED  BY <1>1, <2>2, <2>3
<1> QED  BY <1>1, <1>2 DEF IInv, SignedWordHolds, SignaturesHold

\* A concluded participant finds every certificate stale or its own last.
LEMMA CertificateMatchesEnd ==
  ASSUME IInv, NEW q \in Participants, IsTerminal(st[q]),
         NEW f \in ExecFrame, f.type = "StepCertificate",
         \A r \in Participants : f.commitment \in signed[r]
  PROVE  EndMatch(st[q], f) \in {"Same", "NotTerminalEvidence"}
<1> DEFINE c == f.commitment
<1>1. c \in Commitment
  BY CommittedCommitment
<1>2. Len(c.prefix) < Len(st[q].log)
  BY <1>1, CertifiedAt
<1>3. CASE st[q].stop # None
  BY <1>2, <1>3 DEF EndMatch
<1>4. CASE st[q].stop = None
  <2>1. st[q].log # <<>>
    BY <1>4 DEF IInv, SignedWordHolds, EndingsHold
  <2>2. /\ st[q].cert \in Commitment /\ st[q].cert \in signed[q]
        /\ Len(st[q].log) = Len(st[q].cert.prefix) + 1
    BY <2>1, CertificateReach
  <2>3. Len(c.prefix) \in Nat /\ Len(st[q].cert.prefix) \in Nat
    BY <1>1, <2>2, LenProperties DEF Commitment
  <2>4. CASE Len(c.prefix) < Len(st[q].cert.prefix)
    BY <1>4, <2>4 DEF EndMatch
  <2>5. CASE Len(c.prefix) = Len(st[q].cert.prefix)
    <3>1. c = st[q].cert
      BY <2>2, <2>5 DEF IInv, SignedWordHolds, SignsOncePerStep
    <3> QED  BY <1>4, <3>1 DEF EndMatch
  <2> QED  BY <1>2, <2>2, <2>3, <2>4, <2>5
<1> QED  BY <1>3, <1>4

\* A concluded participant finds every occurrence at its own cursor.
LEMMA OccurrenceMatchesEnd ==
  ASSUME IInv, NEW q \in Participants, IsTerminal(st[q]),
         NEW f \in ExecFrame, f.type = "Abort",
         st[f.occurrence.sender].stop = f.occurrence
  PROVE  EndMatch(st[q], f) = "Same"
<1> DEFINE r == f.occurrence.sender
<1>1. f.occurrence \in Occurrence
  BY AbortOccurrence
<1>2. /\ r \in Participants /\ IsTerminal(st[r])
      /\ f.occurrence.cursor = st[r].log /\ st[r].stop # None
  BY <1>1, StoppedTogether, NoneAssumption
<1>3. st[r].log = st[q].log /\ st[q].stop # None
  BY <1>2, ConclusionAgreement DEF ConclusionsAgree
<1> QED  BY <1>2, <1>3 DEF EndMatch

LEMMA EvidenceAccepted ==
  ASSUME IInv
  PROVE  EvidenceIsNeverRefused
<1>1. SUFFICES ASSUME NEW q \in Participants, NEW d \in Deliveries(q),
                      d.frame.type \in {"StepCertificate", "Abort"}
               PROVE  /\ Verdict(st[q], d.source, d.frame)
                            \in {"Apply", "Ack", "NotYet"}
                      /\ IsTerminal(st[q]) => RetiredVerdict(st[q], d) # "Conflict"
  BY DEF EvidenceIsNeverRefused
<1> DEFINE f == d.frame
<1>2. f \in ExecFrame /\ Genuine(d.source, f)
  BY TypeFacts, DeliveryInFlight, InFlightGenuine DEF IInv, SignedWordHolds
<1>3. CASE IsTerminal(st[q])
  <2>1. EndMatch(st[q], f) \in {"Same", "NotTerminalEvidence"}
    BY <1>1, <1>2, <1>3, CertificateMatchesEnd, OccurrenceMatchesEnd DEF Genuine
  <2> QED  BY <1>3, <2>1 DEF Verdict, RetiredVerdict
<1>4. CASE ~IsTerminal(st[q]) /\ f.type = "StepCertificate"
  <2>1. f.commitment \in Commitment
    BY <1>2, <1>4, CommittedCommitment
  <2>2. \/ Len(f.commitment.prefix) < Len(st[q].log)
        \/ st[q].proposal # None /\ f.commitment = ProposalCommitment(st[q])
    BY <1>2, <1>4, <2>1, CertifiedAt DEF Genuine
  <2>3. CommittedVerdict(st[q], d.source, "StepCertificate", f.commitment)
          \in {"Apply", "Ack"}
    BY <2>2 DEF CommittedVerdict
  <2> QED  BY <1>4, <2>3 DEF Verdict
<1>5. CASE ~IsTerminal(st[q]) /\ f.type = "Abort"
  <2>1. f.occurrence \in Occurrence /\ st[f.occurrence.sender].stop = f.occurrence
    BY <1>2, <1>5, AbortOccurrence DEF Genuine
  <2>2. /\ Len(st[q].log) <= Len(f.occurrence.cursor)
        /\ Len(st[q].log) = Len(f.occurrence.cursor)
             => f.occurrence.cursor = st[q].log
        /\ Len(st[q].log) \in Nat /\ Len(f.occurrence.cursor) \in Nat
    BY <2>1, StoppedTogether, TypeFacts, LenProperties DEF IInv, ExecutionStates
  <2>3. AbortVerdict(st[q], f.occurrence) \in {"NotYet", "Apply"}
    BY <2>2 DEF AbortVerdict
  <2> QED  BY <1>5, <2>3 DEF Verdict
<1> QED  BY <1>1, <1>3, <1>4, <1>5

-----------------------------------------------------------------------------
(* Execution implements AgreedSession.                                     *)

\* What the refinement uses of a state.
Agreed ==
  /\ st \in [Participants -> ExecutionStates]
  /\ CertifiedTracesAgree /\ LaggardHoldsTheStep /\ NoStepPastAStop
  /\ ConclusionsAgree /\ StopsHold

LEMMA AgreedStates == IInv => Agreed
BY TracesAgree, Laggard, NoStepPast, ConclusionAgreement
   DEF Agreed, IInv, SignedWordHolds, TypeInv, TypeOK

\* Traces differ by one step at most, so there is a longest one, also in an
\* ensemble without bound.
LEMMA LongestExists ==
  ASSUME Agreed
  PROVE  \E p \in Participants : \A q \in Participants :
           Len(st[q].log) <= Len(st[p].log)
<1>1. \A p \in Participants : Len(st[p].log) \in Nat
  BY LenProperties DEF Agreed, ExecutionStates
<1>2. \A p, q \in Participants : Len(st[q].log) < Len(st[p].log) =>
        Len(st[p].log) = Len(st[q].log) + 1
  BY DEF Agreed, LaggardHoldsTheStep
<1>3. PICK r \in Participants : TRUE
  BY EnsembleAssumption
<1>4. CASE \A q \in Participants : Len(st[q].log) <= Len(st[r].log)
  BY <1>4
<1>5. CASE \E p \in Participants : ~(Len(st[p].log) <= Len(st[r].log))
  <2>1. PICK p \in Participants : ~(Len(st[p].log) <= Len(st[r].log))
    BY <1>5
  <2>2. Len(st[p].log) = Len(st[r].log) + 1
    BY <1>1, <1>2, <2>1
  <2>3. ASSUME NEW q \in Participants PROVE Len(st[q].log) <= Len(st[p].log)
    <3>1. Len(st[q].log) \in Nat /\ Len(st[r].log) \in Nat /\ Len(st[p].log) \in Nat
      BY <1>1
    <3>2. Len(st[r].log) < Len(st[q].log) => Len(st[q].log) = Len(st[r].log) + 1
      BY <1>2
    <3> QED  BY <2>2, <3>1, <3>2
  <2> QED  BY <2>3
<1> QED  BY <1>4, <1>5

LEMMA LongestLogIs ==
  ASSUME Agreed, NEW p \in Participants,
         \A q \in Participants : Len(st[q].log) <= Len(st[p].log)
  PROVE  LongestLog = st[p].log
<1> DEFINE m == CHOOSE a \in Participants : \A q \in Participants :
                  Len(st[q].log) <= Len(st[a].log)
<1>1. m \in Participants /\ \A q \in Participants : Len(st[q].log) <= Len(st[m].log)
  OBVIOUS
<1>2. LongestLog = st[m].log
  BY DEF LongestLog
<1> HIDE DEF m
<1>3. st[m].log \in Seq(Entry) /\ st[p].log \in Seq(Entry)
  BY <1>1 DEF Agreed, ExecutionStates
<1>4. Len(st[m].log) = Len(st[p].log)
  BY <1>1, <1>3, LenProperties
<1>5. \A i \in 1..Len(st[m].log) : st[m].log[i] = st[p].log[i]
  BY <1>1, <1>3, <1>4, LenProperties DEF Agreed, CertifiedTracesAgree
<1> QED  BY <1>2, <1>3, <1>4, <1>5, SeqEqual

\* The same facts of the next state.
LEMMA AgreedAfter ==
  /\ IInv' => Agreed'
  /\ Agreed' => \A p \in Participants :
       (\A q \in Participants : Len(st'[q].log) <= Len(st'[p].log)) =>
         LongestLog' = st'[p].log
<1>1. IInv => Agreed
  BY AgreedStates
<1>2. Agreed => \A p \in Participants :
        (\A q \in Participants : Len(st[q].log) <= Len(st[p].log)) =>
          LongestLog = st[p].log
  BY LongestLogIs
<1>3. IInv' => Agreed'
  BY <1>1, PTL
<1>4. (Agreed => \A p \in Participants :
        (\A q \in Participants : Len(st[q].log) <= Len(st[p].log)) =>
          LongestLog = st[p].log)'
  BY <1>2, PTL
<1> QED  BY <1>3, <1>4

\* A step that keeps traces, conclusions and stops keeps the session.
LEMMA SessionStutters ==
  ASSUME Agreed, Agreed',
         \A a \in Participants :
           /\ st'[a].log = st[a].log /\ st'[a].stop = st[a].stop
           /\ IsTerminal(st'[a]) <=> IsTerminal(st[a])
  PROVE  UNCHANGED Session!vars
<1>1. PICK m \in Participants : \A q \in Participants :
        Len(st[q].log) <= Len(st[m].log)
  BY LongestExists
<1>2. LongestLog = st[m].log
  BY <1>1, LongestLogIs
<1>3. LongestLog' = st'[m].log
  BY <1>1, AgreedAfter
<1>4. LongestLog' = LongestLog
  BY <1>2, <1>3
<1>5. /\ [a \in Participants |-> Len(st'[a].log)]
           = [a \in Participants |-> Len(st[a].log)]
      /\ [a \in Participants |-> IsTerminal(st'[a])]
           = [a \in Participants |-> IsTerminal(st[a])]
      /\ (\E a \in Participants : st'[a].stop # None)
           <=> (\E a \in Participants : st[a].stop # None)
  BY DEF IsTerminal
<1> QED  BY <1>4, <1>5 DEF Session!vars

\* p installs a step, as the first to do so or after a peer.
LEMMA SessionInstalls ==
  ASSUME Agreed, Agreed', NEW p \in Participants, NEW e \in Entry,
         ~IsTerminal(st[p]), st'[p].log = Append(st[p].log, e),
         st'[p].stop = st[p].stop,
         IsTerminal(st'[p]) <=> e.terminal # "None",
         \A a \in Participants : a # p => st'[a] = st[a]
  PROVE  Session!Extend(p) \/ Session!CatchUp(p)
<1> DEFINE n == Len(st[p].log)
           position == [a \in Participants |-> Len(st[a].log)]
           ended == [a \in Participants |-> IsTerminal(st[a])]
<1>1. \A a \in Participants : st[a].log \in Seq(Entry) /\ Len(st[a].log) \in Nat
  BY LenProperties DEF Agreed, ExecutionStates
<1>2. Len(st'[p].log) = n + 1 /\ st'[p].log[n + 1] = e
  BY <1>1, AppendProperties
<1>3. \A a \in Participants : a # p /\ Len(st[a].log) < n + 1 =>
        Len(st[a].log) = n /\ ~IsTerminal(st[a])
  <2>1. ASSUME NEW a \in Participants, a # p, Len(st[a].log) < n + 1
        PROVE  Len(st[a].log) = n /\ ~IsTerminal(st[a])
    <3>1. Len(st'[a].log) < Len(st'[p].log) /\ st'[a] = st[a]
      BY <1>2, <2>1
    <3>2. Len(st'[p].log) = Len(st'[a].log) + 1 /\ ~IsTerminal(st'[a])
      BY <3>1 DEF Agreed, LaggardHoldsTheStep
    <3> QED  BY <1>1, <1>2, <3>1, <3>2
  <2> QED  BY <2>1
<1>4. ASSUME NEW entry, entry = e PROVE Session!Install(p, entry)
  <2>1. ~ended[p]
    OBVIOUS
  <2>2. position' = [position EXCEPT ![p] = @ + 1]
    BY <1>1, <1>2
  <2>3. ended' = [ended EXCEPT ![p] = e.terminal # "None"]
    <3>1. ASSUME NEW a \in Participants
          PROVE  IsTerminal(st'[a]) = IF a = p THEN e.terminal # "None"
                                                ELSE IsTerminal(st[a])
      BY DEF IsTerminal
    <3> QED  BY <3>1
  <2>4. (\E a \in Participants : st'[a].stop # None)
          <=> (\E a \in Participants : st[a].stop # None)
    OBVIOUS
  <2> QED  BY <1>4, <2>1, <2>2, <2>3, <2>4 DEF Session!Install
<1>5. CASE \A a \in Participants : Len(st[a].log) <= n
  <2>1. LongestLog = st[p].log
    BY <1>5, LongestLogIs
  <2>2. LongestLog' = st'[p].log
    <3>1. \A a \in Participants : Len(st'[a].log) <= Len(st'[p].log)
      BY <1>1, <1>2, <1>5
    <3> QED  BY <3>1, AgreedAfter
  <2>3. \A a \in Participants : Len(st[a].log) = n /\ ~IsTerminal(st[a])
    BY <1>1, <1>3, <1>5
  <2>4. \A a \in Participants : st[a].stop = None
    BY <2>3 DEF Agreed, StopsHold
  <2>5. LongestLog' = Append(LongestLog, e) /\ Len(LongestLog') = n + 1
        /\ LongestLog'[Len(LongestLog')] = e
    BY <1>2, <2>1, <2>2
  <2>6. Session!Install(p, LongestLog'[Len(LongestLog')])
    BY <1>4, <2>5 DEF Session!Install
  <2>7. Session!Extend(p)
    BY <2>1, <2>3, <2>4, <2>5, <2>6 DEF Session!Extend
  <2> QED  BY <2>7
<1>6. CASE \E a \in Participants : ~(Len(st[a].log) <= n)
  <2>1. PICK r \in Participants : ~(Len(st[r].log) <= n)
    BY <1>6
  <2>2. r # p /\ Len(st[r].log) = n + 1
    BY <1>1, <2>1 DEF Agreed, LaggardHoldsTheStep
  <2>3. \A a \in Participants : Len(st[a].log) <= n + 1
    <3>1. ASSUME NEW a \in Participants, n + 1 < Len(st[a].log) PROVE FALSE
      <4>1. Len(st[a].log) = n + 1
        BY <1>1, <3>1 DEF Agreed, LaggardHoldsTheStep
      <4> QED  BY <1>1, <3>1, <4>1
    <3> QED  BY <1>1, <3>1
  <2>4. LongestLog = st[r].log
    BY <2>2, <2>3, LongestLogIs
  <2>5. LongestLog' = st'[r].log
    <3>1. \A a \in Participants : Len(st'[a].log) <= Len(st'[r].log)
      BY <1>1, <1>2, <2>2, <2>3
    <3> QED  BY <3>1, AgreedAfter
  <2>6. st[r].log[n + 1] = e
    <3>1. n + 1 \in DOMAIN st'[p].log /\ n + 1 \in DOMAIN st'[r].log
      <4>1. st'[r] = st[r]
        BY <2>2
      <4>2. st'[p].log \in Seq(Entry)
        BY <1>1, AppendProperties
      <4> QED  BY <1>1, <1>2, <2>2, <4>1, <4>2, LenProperties
    <3>2. st'[p].log[n + 1] = st'[r].log[n + 1]
      BY <3>1 DEF Agreed, CertifiedTracesAgree
    <3> QED  BY <1>2, <2>2, <3>2
  <2>7. Session!Install(p, LongestLog[Len(LongestLog)])
    BY <1>4, <2>2, <2>4, <2>6 DEF Session!Install
  <2>8. Session!CatchUp(p)
    BY <2>2, <2>4, <2>5, <2>7 DEF Session!CatchUp
  <2> QED  BY <2>8
<1> QED  BY <1>5, <1>6

\* p stops, by itself or after a peer.
LEMMA SessionStops ==
  ASSUME Agreed, Agreed', NEW p \in Participants,
         ~IsTerminal(st[p]), IsTerminal(st'[p]), st'[p].log = st[p].log,
         st'[p].stop # None,
         \A a \in Participants : a # p => st'[a] = st[a]
  PROVE  Session!Stop(p)
<1>1. \A a \in Participants : Len(st'[a].log) <= Len(st'[p].log)
  BY DEF Agreed, NoStepPastAStop
<1>2. \A a \in Participants : st'[a].log = st[a].log
  OBVIOUS
<1>3. LongestLog' = st[p].log /\ LongestLog = st[p].log
  <2>1. \A a \in Participants : Len(st[a].log) <= Len(st[p].log)
    BY <1>1, <1>2
  <2> QED  BY <1>1, <1>2, <2>1, AgreedAfter, LongestLogIs
<1>4. ASSUME NEW a \in Participants, IsTerminal(st[a]) PROVE st[a].stop # None
  <2>1. a # p /\ st'[a] = st[a]
    BY <1>4
  <2> QED  BY <1>4, <2>1 DEF Agreed, ConclusionsAgree
<1>5. [a \in Participants |-> IsTerminal(st'[a])] =
        [[a \in Participants |-> IsTerminal(st[a])] EXCEPT ![p] = TRUE]
  BY DEF IsTerminal
<1>6. [a \in Participants |-> Len(st'[a].log)] = [a \in Participants |-> Len(st[a].log)]
  BY <1>2
<1> QED  BY <1>3, <1>4, <1>5, <1>6 DEF Session!Stop

LEMMA SessionStep ==
  ASSUME IInv, IInv', Next
  PROVE  Session!Next \/ UNCHANGED Session!vars
<1>1. PICK p \in Participants : Shape(p)
  BY StepShape DEF IInv
<1>2. PICK t \in ExecutionStates : st' = [st EXCEPT ![p] = t] /\ Moves(p, t)
  BY <1>1 DEF Shape
<1>3. Steps(p, t)
  BY <1>2, MoveEffects DEF Steps
<1>4. /\ st'[p] = t /\ st[p] \in ExecutionStates
      /\ \A a \in Participants : a # p => st'[a] = st[a]
  BY <1>3, StepFacts
<1>5. Agreed /\ Agreed'
  BY AgreedStates, AgreedAfter
<1>6. CASE Quiet(st[p], t) \/ Stages(p, t) \/ Collects(p, t)
  BY <1>4, <1>5, <1>6, SessionStutters DEF Quiet, Stages, Collects
<1>7. CASE Installs(p, t)
  <2>1. st[p].proposal # None /\ ~IsTerminal(st[p])
    BY <1>7 DEF Installs, Unsettled
  <2>2. st[p].proposal.entry \in Entry
    BY <1>4, <2>1, CommitmentType DEF Proposal
  <2>3. Session!Extend(p) \/ Session!CatchUp(p)
    BY <1>4, <1>5, <1>7, <2>1, <2>2, SessionInstalls DEF Installs
  <2> QED  BY <2>3 DEF Session!Next
<1>8. CASE Halts(p, t)
  <2>1. Session!Stop(p)
    BY <1>4, <1>5, <1>8, SessionStops, NoneAssumption DEF Halts
  <2> QED  BY <2>1 DEF Session!Next
<1> QED  BY <1>3, <1>6, <1>7, <1>8 DEF Steps, Effect

LEMMA SessionInit ==
  ASSUME Init
  PROVE  Session!Init
<1>1. \A a \in Participants : st[a] = NewExecution
  BY DEF Init
<1>2. LongestLog = <<>>
  <2>1. Agreed
    BY InvariantInit, AgreedStates
  <2>2. PICK r \in Participants : TRUE
    BY EnsembleAssumption
  <2>3. LongestLog = st[r].log
    BY <1>1, <2>1, LongestLogIs DEF NewExecution
  <2> QED  BY <1>1, <2>3 DEF NewExecution
<1>3. /\ NewExecution.log = <<>> /\ NewExecution.stop = None
      /\ NewExecution.status = "Activating" /\ Len(<<>>) = 0
  BY DEF NewExecution
<1>4. ASSUME NEW a \in Participants
      PROVE  Len(st[a].log) = 0 /\ st[a].stop = None /\ ~IsTerminal(st[a])
  <2>1. st[a] = NewExecution
    BY <1>1
  <2> QED  BY <1>3, <2>1 DEF IsTerminal
<1>5. [a \in Participants |-> IsTerminal(st[a])] = [a \in Participants |-> FALSE]
  <2>1. \A a \in Participants : IsTerminal(st[a]) = FALSE
    BY <1>4 DEF IsTerminal
  <2> QED  BY <2>1
<1> QED  BY <1>2, <1>4, <1>5 DEF Session!Init

-----------------------------------------------------------------------------
(* The end handshake. An acknowledgement, and a frame under way, say how   *)
(* far the participant that gave it has come.                              *)

\* s has taken in what f says.
Heard(f, s) ==
  /\ f.type = "StepCertificate" => Len(f.commitment.prefix) < Len(s.log)
  /\ f.type = "Abort" => IsTerminal(s)

Acked(send) == send # None /\ send.answer = "Ack"

AcksHold ==
  \A p, q \in Participants :
    Acked(lanes[p][q].send) => Heard(lanes[p][q].send.frame, st[q])

SendersHold ==
  \A p \in Participants : \A f \in ExecFrame : InFlight(p, f) => Heard(f, st[p])

EndsHold ==
  \A p \in Participants : IsTerminal(st[p]) <=> st[p].end # "Open"

EndInv == AcksHold /\ SendersHold /\ EndsHold /\ ConfirmedPeersConcluded

\* A concluded execution publishes, and drops only peers that concluded.
Winds(p, t) ==
  /\ t.status \in {st[p].status, PublishReceipt(st[p]).status}
  /\ t.end # "Open"
  /\ t.unconfirmed \subseteq st[p].unconfirmed
  /\ \A q \in st[p].unconfirmed \ t.unconfirmed : IsTerminal(st[q])

Ending(p, t) ==
  IF IsTerminal(st[p]) THEN Winds(p, t) ELSE Begins(st[p], t, p)

\* A table of lanes whose acknowledgements are old, or p's after becoming t.
GrowsAcks(table, p, t) ==
  /\ table \in [Participants -> [Participants -> Lane]]
  /\ \A a, b \in Participants : Acked(table[a][b].send) =>
       \/ table[a][b].send = lanes[a][b].send
       \/ b = p /\ Heard(table[a][b].send.frame, t)

EndShape(p) ==
  \E t \in ExecutionStates :
    /\ st' = [st EXCEPT ![p] = t]
    /\ Ending(p, t)
    /\ GrowsAcks(lanes', p, t)

-----------------------------------------------------------------------------
(* What the transitions do to the handshake.                               *)

\* Fields a transition leaves alone.
SameEnd(s, t) ==
  t.status = s.status /\ t.end = s.end /\ t.unconfirmed = s.unconfirmed

LEMMA SameEnding ==
  ASSUME EndsHold, NEW p \in Participants, NEW t, SameEnd(st[p], t)
  PROVE  Ending(p, t)
BY DEF Ending, Winds, Begins, SameEnd, EndsHold, IsTerminal

LEMMA DispatchEnds ==
  ASSUME NEW s \in ExecutionStates, NEW me, NEW from, NEW data, NEW k
  PROVE  /\ SameEnd(s, InstallDispatch(s, k))
         /\ SameEnd(s, StageProposal(s, me, from, data, k))
         /\ SameEnd(s, DropOutgoingHead(s))
BY DEF ExecutionStates, SameEnd, InstallDispatch, StageProposal, DropOutgoingHead

LEMMA ActivateEnding ==
  ASSUME TypeInv, EndsHold, NEW p \in Participants, st[p].status = "Activating"
  PROVE  Ending(p, Activate(st[p]))
<1>1. st[p] \in ExecutionStates
  BY TypeFacts
<1>2. Activate(st[p]).status = "Active" /\ Activate(st[p]).end = st[p].end
  BY <1>1 DEF Activate, ExecutionStates
<1> QED  BY <1>2 DEF Ending, Begins, IsTerminal, EndsHold

LEMMA PublishFields ==
  ASSUME NEW s \in ExecutionStates
  PROVE  /\ PublishReceipt(s).end = s.end
         /\ PublishReceipt(s).unconfirmed = s.unconfirmed
         /\ IsTerminal(PublishReceipt(s)) <=> IsTerminal(s)
         /\ ~IsTerminal(s) => PublishReceipt(s) = s
<1>1. CASE s.status = "Certified"
  <2>1. PublishReceipt(s) = [s EXCEPT !.status = "Completed"]
    BY <1>1 DEF PublishReceipt
  <2> QED  BY <1>1, <2>1 DEF ExecutionStates, IsTerminal
<1>2. CASE s.status = "Stopped"
  <2>1. PublishReceipt(s) = [s EXCEPT !.status = "StoppedPublished"]
    BY <1>2 DEF PublishReceipt
  <2> QED  BY <1>2, <2>1 DEF ExecutionStates, IsTerminal
<1>3. CASE s.status \notin {"Certified", "Stopped"}
  <2>1. PublishReceipt(s) = s
    BY <1>3 DEF PublishReceipt
  <2> QED  BY <2>1
<1> QED  BY <1>1, <1>2, <1>3

LEMMA PublishEnding ==
  ASSUME TypeInv, EndsHold, NEW p \in Participants
  PROVE  /\ Ending(p, PublishReceipt(st[p]))
         /\ IsTerminal(st[p]) => Ending(p, ExpireEnd(PublishReceipt(st[p])))
<1> DEFINE u == PublishReceipt(st[p])
<1>1. st[p] \in ExecutionStates /\ u \in ExecutionStates
  BY TypeFacts, TerminalEffects
<1>2. /\ u.end = st[p].end /\ u.unconfirmed = st[p].unconfirmed
      /\ ~IsTerminal(st[p]) => u = st[p]
  BY <1>1, PublishFields
<1>3. IsTerminal(st[p]) <=> st[p].end # "Open"
  BY DEF EndsHold
<1> HIDE DEF u
<1>4. /\ ExpireEnd(u).end = "Ended" /\ ExpireEnd(u).status = u.status
      /\ ExpireEnd(u).unconfirmed = u.unconfirmed
  BY <1>1 DEF ExpireEnd, ExecutionStates
<1>5. IsTerminal(st[p]) => Winds(p, u) /\ Winds(p, ExpireEnd(u))
  BY <1>2, <1>3, <1>4 DEF Winds, u
<1>6. ~IsTerminal(st[p]) => Begins(st[p], u, p)
  BY <1>2, <1>3 DEF Begins
<1> QED  BY <1>5, <1>6 DEF Ending, u

LEMMA ConfirmEnding ==
  ASSUME TypeInv, EndsHold, NEW p \in Participants, IsTerminal(st[p]),
         NEW q \in Participants, IsTerminal(st[q])
  PROVE  Ending(p, ConfirmEnd(st[p], q))
<1> DEFINE t == ConfirmEnd(st[p], q)
<1>1. st[p] \in ExecutionStates /\ st[p].end # "Open"
  BY TypeFacts DEF EndsHold
<1>2. /\ t.status = st[p].status /\ t.unconfirmed = st[p].unconfirmed \ {q}
      /\ t.end \in {st[p].end, "Ended"}
  BY <1>1 DEF ConfirmEnd, ExecutionStates
<1> HIDE DEF t
<1>3. Winds(p, t)
  BY <1>1, <1>2 DEF Winds
<1> QED  BY <1>3 DEF Ending, t

\* A running execution that begins its end, or goes on, as the transitions
\* of ExecutionState do.
LEMMA StepEnding ==
  ASSUME TypeInv, EndsHold, NEW p \in Participants, Unsettled(p),
         NEW q \in Participants
  PROVE  /\ Ending(p, AddStepSignature(st[p], p, q))
         /\ Ending(p, InstallCertified(st[p], p))
<1>1. /\ st[p] \in ExecutionStates /\ st[p].proposal # None
      /\ ~IsTerminal(st[p]) /\ st[p].end = "Open"
  BY TypeFacts DEF Unsettled, EndsHold
<1>2. Begins(st[p], InstallCertified(st[p], p), p)
  BY <1>1, InstallCertifiedEffect
<1>3. Begins(st[p], AddStepSignature(st[p], p, q), p)
  <2> DEFINE t == AddStepSignature(st[p], p, q)
  <2>1. \/ t = InstallCertified(st[p], p)
        \/ t.status = st[p].status /\ t.end = st[p].end
    BY <1>1, AddStepSignatureEffect
  <2> HIDE DEF t
  <2>2. Begins(st[p], t, p)
    BY <1>1, <1>2, <2>1 DEF Begins, IsTerminal
  <2> QED  BY <2>2 DEF t
<1> QED  BY <1>1, <1>2, <1>3 DEF Ending

LEMMA StopEnding ==
  ASSUME TypeInv, NEW p \in Participants, ~IsTerminal(st[p]),
         NEW occ \in Occurrence
  PROVE  Ending(p, Stop(st[p], p, occ))
<1>1. st[p] \in ExecutionStates
  BY TypeFacts
<1> QED  BY <1>1, StopEffect DEF Ending

LEMMA StopHereEnding ==
  ASSUME TypeInv, NEW p \in Participants, ~IsTerminal(st[p]),
         NEW kind \in {"Abort", "Fail"}
  PROVE  /\ StopHere(st[p], p, kind) \in ExecutionStates
         /\ Ending(p, StopHere(st[p], p, kind))
<1>1. st[p] \in ExecutionStates
  BY TypeFacts
<1>2. PICK occ \in Occurrence : StopHere(st[p], p, kind) = Stop(st[p], p, occ)
  BY <1>1, OwnOccurrence
<1> QED  BY <1>1, <1>2, StopEffect, StopEnding

-----------------------------------------------------------------------------
(* Which acknowledgements a step can add.                                  *)

LEMMA AcksKept ==
  ASSUME WellTypedLanes, NEW p, NEW t
  PROVE  GrowsAcks(lanes, p, t)
BY DEF GrowsAcks, WellTypedLanes

LEMMA SetLaneAcks ==
  ASSUME NEW p, NEW t, NEW table, GrowsAcks(table, p, t),
         NEW a \in Participants, NEW b \in Participants, NEW lane \in Lane,
         Acked(lane.send) =>
           \/ lane.send = table[a][b].send
           \/ b = p /\ Heard(lane.send.frame, t)
  PROVE  GrowsAcks(SetLane(table, a, b, lane), p, t)
<1> DEFINE after == SetLane(table, a, b, lane)
<1>1. after \in [Participants -> [Participants -> Lane]]
  BY DEF GrowsAcks, SetLane
<1>2. ASSUME NEW c \in Participants, NEW d \in Participants
      PROVE  after[c][d] = IF c = a /\ d = b THEN lane ELSE table[c][d]
  BY DEF GrowsAcks, SetLane
<1> HIDE DEF after
<1>3. GrowsAcks(after, p, t)
  BY <1>1, <1>2, SMTT(30) DEF GrowsAcks
<1> QED  BY <1>3 DEF after

\* deliver_frames only starts sends.
LEMMA DeliverFramesAcks ==
  ASSUME WellTypedLanes, NEW p \in Participants, NEW t \in ExecutionStates,
         HasEvidence(t)
  PROVE  GrowsAcks(DeliverFrames(p, t), p, t)
<1> DEFINE on(q) == DeliverOn(lanes[p][q], FramesToSend(t, p), IsTerminal(t))
           after == DeliverFrames(p, t)
<1>1. FramesToSend(t, p) \in Seq(Owed(t, p)) /\ IsTerminal(t) \in BOOLEAN
  BY FramesOwed DEF IsTerminal
<1>2. Owed(t, p) \in SUBSET ExecFrame
  BY DEF Owed
<1>3. ASSUME NEW q \in Participants
      PROVE  /\ on(q) \in Lane
             /\ on(q).send = lanes[p][q].send \/ ~Acked(on(q).send)
  <2>1. lanes[p][q] \in Lane
    BY DEF WellTypedLanes
  <2>2. /\ on(q) \in Lane
        /\ \/ on(q).send = lanes[p][q].send
           \/ \E f \in Owed(t, p) : on(q).send = Sent(f, "Pending")
    BY <1>1, <1>2, <2>1, DeliverOnEffect
  <2>3. \A f : ~Acked(Sent(f, "Pending"))
    BY DEF Acked, Sent
  <2> HIDE DEF on
  <2> QED  BY <2>2, <2>3
<1>4. after = [a \in Participants |-> IF a # p THEN lanes[a] ELSE
        [q \in Participants |->
           IF q = p \/ (IsTerminal(t) /\ q \notin t.unconfirmed)
           THEN lanes[p][q] ELSE on(q)]]
  BY DEF DeliverFrames, WellTypedLanes
<1> HIDE DEF on, after
<1>5. after \in [Participants -> [Participants -> Lane]]
  BY <1>3, <1>4 DEF WellTypedLanes
<1>6. ASSUME NEW a \in Participants, NEW q \in Participants
      PROVE  after[a][q] = lanes[a][q] \/ (a = p /\ after[a][q] = on(q))
  BY <1>4
<1>7. GrowsAcks(after, p, t)
  BY <1>3, <1>5, <1>6 DEF GrowsAcks
<1> QED  BY <1>7 DEF after

LEMMA DropLanesAcks ==
  ASSUME WellTypedLanes, NEW p \in Participants, DropLanes(p), NEW t
  PROVE  GrowsAcks(lanes', p, t)
<1>1. NewLane \in Lane /\ NewLane.send = None
  BY DEF NewLane, Lane
<1>2. ASSUME NEW a \in Participants, NEW b \in Participants
      PROVE  lanes'[a][b] = IF a = p THEN NewLane ELSE lanes[a][b]
  BY DEF DropLanes, WellTypedLanes
<1>3. lanes' \in [Participants -> [Participants -> Lane]]
  BY <1>1 DEF DropLanes, WellTypedLanes
<1> QED  BY <1>1, <1>2, <1>3 DEF GrowsAcks, Acked

LEMMA AnswerAcks ==
  ASSUME WellTypedLanes, NEW q \in Participants, NEW d \in Deliveries(q),
         NEW answer \in Answers, NEW t, answer = "Ack" => Heard(d.frame, t)
  PROVE  GrowsAcks(Answer(q, d, answer), q, t)
<1>1. CASE d.fresh
  <2> DEFINE sent == Sent(d.frame, answer)
             old  == lanes[d.source][q]
             lane == [lanes[d.source][q] EXCEPT !.send = Sent(d.frame, answer)]
  <2>1. d.source \in Participants /\ d.frame \in ExecFrame
    BY DeliveryInFlight
  <2>2. old \in Lane /\ sent \in [frame : ExecFrame, answer : Answers]
        /\ sent.frame = d.frame /\ sent.answer = answer
    BY <2>1 DEF WellTypedLanes, Sent
  <2>3. Answer(q, d, answer) = SetLane(lanes, d.source, q, lane)
    BY <1>1 DEF Answer
  <2>4. lane \in Lane /\ lane.send = sent
    <3>1. lane = [old EXCEPT !.send = sent]
      OBVIOUS
    <3> HIDE DEF old, sent, lane
    <3> QED  BY <2>2, <3>1 DEF Lane
  <2> HIDE DEF lane, sent
  <2>5. Acked(lane.send) => Heard(lane.send.frame, t)
    BY <2>2, <2>4 DEF Acked
  <2> QED  BY <2>1, <2>3, <2>4, <2>5, AcksKept, SetLaneAcks
<1>2. CASE ~d.fresh
  BY <1>2, AcksKept DEF Answer
<1> QED  BY <1>1, <1>2

-----------------------------------------------------------------------------
(* Who has heard the evidence has concluded.                               *)

\* Whoever has come as far as a participant that concluded without a stop
\* has installed the same last step.
LEMMA ReachedTheEnd ==
  ASSUME IInv, NEW p \in Participants, NEW q \in Participants,
         IsTerminal(st[p]), st[p].stop = None,
         Len(st[p].cert.prefix) < Len(st[q].log)
  PROVE  IsTerminal(st[q])
<1>1. st[p].log # <<>> /\ st[p].log[Len(st[p].log)].terminal # "None"
  BY DEF IInv, SignedWordHolds, EndingsHold
<1>2. /\ st[p].cert \in Commitment
      /\ Len(st[p].log) = Len(st[p].cert.prefix) + 1
  BY <1>1, CertificateReach
<1>3. st[p].log \in Seq(Entry) /\ st[q].log \in Seq(Entry)
  BY TypeFacts DEF IInv, ExecutionStates
<1>4. /\ Len(st[p].cert.prefix) \in Nat
      /\ Len(st[p].log) \in Nat /\ Len(st[q].log) \in Nat
  BY <1>2, <1>3, LenProperties DEF Commitment
<1>5. ~(Len(st[p].log) < Len(st[q].log))
  BY Laggard DEF LaggardHoldsTheStep
<1>6. Len(st[q].log) = Len(st[p].log)
  BY <1>2, <1>4, <1>5
<1>7. \A i \in 1..Len(st[p].log) : st[p].log[i] = st[q].log[i]
  BY <1>3, <1>6, TracesAgree, LenProperties DEF CertifiedTracesAgree
<1>8. st[q].log = st[p].log
  BY <1>3, <1>6, <1>7, SeqEqual
<1> QED  BY <1>1, <1>8 DEF IInv, SignedWordHolds, EndingsHold

\* p's own evidence, acknowledged by q.
LEMMA AcknowledgedEnd ==
  ASSUME IInv, NEW p \in Participants, NEW q \in Participants,
         IsTerminal(st[p]), Heard(TerminalEvidence(st[p]), st[q])
  PROVE  IsTerminal(st[q])
<1>1. CASE st[p].stop # None
  BY <1>1 DEF TerminalEvidence, Heard
<1>2. CASE st[p].stop = None
  <2>1. Len(st[p].cert.prefix) < Len(st[q].log)
    BY <1>2 DEF TerminalEvidence, Heard, Frame
  <2> QED  BY <1>2, <2>1, ReachedTheEnd
<1> QED  BY <1>1, <1>2

\* Evidence equal to p's own, from q.
LEMMA MatchingEnd ==
  ASSUME IInv, NEW p \in Participants, NEW q \in Participants,
         IsTerminal(st[p]), NEW f, Heard(f, st[q]), EndMatch(st[p], f) = "Same"
  PROVE  IsTerminal(st[q])
<1>1. \/ /\ f.type = "StepCertificate" /\ st[p].stop = None
         /\ f.commitment = st[p].cert
      \/ f.type = "Abort"
  BY DEF EndMatch
<1>2. CASE f.type = "Abort"
  BY <1>2 DEF Heard
<1>3. CASE /\ f.type = "StepCertificate" /\ st[p].stop = None
           /\ f.commitment = st[p].cert
  BY <1>3, ReachedTheEnd DEF Heard
<1> QED  BY <1>1, <1>2, <1>3

\* A concluded participant has taken in every genuine frame.
LEMMA HeardWhenConcluded ==
  ASSUME IInv, NEW q \in Participants, IsTerminal(st[q]), NEW p,
         NEW f \in ExecFrame, Genuine(p, f)
  PROVE  Heard(f, st[q])
<1>1. ASSUME f.type = "StepCertificate"
      PROVE  Len(f.commitment.prefix) < Len(st[q].log)
  <2>1. f.commitment \in Commitment /\ \A r \in Participants : f.commitment \in signed[r]
    BY <1>1, CommittedCommitment DEF Genuine
  <2> QED  BY <2>1, CertifiedAt
<1> QED  BY <1>1 DEF Heard

\* A running participant acknowledges without a change of state only what it
\* already has.
LEMMA HeardWhenStale ==
  ASSUME IInv, NEW q \in Participants, ~IsTerminal(st[q]), NEW p,
         NEW f \in ExecFrame, Genuine(p, f), Verdict(st[q], p, f) = "Ack"
  PROVE  Heard(f, st[q])
<1>1. ASSUME f.type = "StepCertificate"
      PROVE  Len(f.commitment.prefix) < Len(st[q].log)
  <2>1. CommittedVerdict(st[q], p, f.type, f.commitment) = "Ack"
    BY <1>1 DEF Verdict
  <2> QED  BY <1>1, <2>1 DEF CommittedVerdict
<1>2. ASSUME f.type = "Abort" PROVE FALSE
  <2>1. AbortVerdict(st[q], f.occurrence) = "Ack"
    BY <1>2 DEF Verdict
  <2>2. f.occurrence \in Occurrence /\ st[f.occurrence.sender].stop = f.occurrence
    BY <1>2, AbortOccurrence DEF Genuine
  <2>3. /\ Len(st[q].log) <= Len(f.occurrence.cursor)
        /\ Len(st[q].log) \in Nat /\ Len(f.occurrence.cursor) \in Nat
    BY <2>2, StoppedTogether, TypeFacts, LenProperties DEF IInv, ExecutionStates
  <2> QED  BY <2>1, <2>3 DEF AbortVerdict
<1> QED  BY <1>1, <1>2 DEF Heard

-----------------------------------------------------------------------------
(* Each action keeps the handshake sound.                                  *)

HInv == IInv /\ EndInv

LEMMA HandshakeFacts ==
  ASSUME HInv, NEW p \in Participants
  PROVE  /\ IInv /\ TypeInv /\ EndsHold /\ WellTypedLanes
         /\ st[p] \in ExecutionStates /\ HasEvidence(st[p])
         /\ st \in [Participants -> ExecutionStates]
BY TypeFacts DEF HInv, IInv, EndInv

\* A step that replaces p's state by t.
LEMMA UpdateEnd ==
  ASSUME NEW p, NEW t \in ExecutionStates, NEW next, Update(p, t, next),
         Ending(p, t), GrowsAcks(lanes', p, t)
  PROVE  EndShape(p)
BY DEF EndShape, Update

\* A step that keeps every durable state.
LEMMA KeepEnd ==
  ASSUME HInv, NEW p \in Participants, UNCHANGED st,
         GrowsAcks(lanes', p, st[p])
  PROVE  EndShape(p)
<1>1. st' = [st EXCEPT ![p] = st[p]] /\ st[p] \in ExecutionStates
  BY HandshakeFacts
<1>2. Ending(p, st[p])
  BY HandshakeFacts, SameEnding DEF SameEnd
<1> QED  BY <1>1, <1>2 DEF EndShape

\* A step that leaves the lanes alone.
LEMMA LocalEnd ==
  ASSUME HInv, NEW p \in Participants, NEW t \in ExecutionStates, NEW next,
         Update(p, t, next), Ending(p, t), UNCHANGED lanes
  PROVE  EndShape(p)
<1>1. GrowsAcks(lanes', p, t)
  BY HandshakeFacts, AcksKept
<1> QED  BY <1>1, UpdateEnd

\* A step that ends with deliver_frames.
LEMMA DeliverEnd ==
  ASSUME HInv, NEW p \in Participants, NEW t \in ExecutionStates, NEW next,
         Update(p, t, next), Ending(p, t), HasEvidence(t),
         lanes' = DeliverFrames(p, t)
  PROVE  EndShape(p)
<1>1. GrowsAcks(lanes', p, t)
  BY HandshakeFacts, DeliverFramesAcks
<1> QED  BY <1>1, UpdateEnd

\* A step by which the actor goes.
LEMMA DropEnd ==
  ASSUME HInv, NEW p \in Participants, NEW t \in ExecutionStates, NEW next,
         Update(p, t, next), Ending(p, t), DropLanes(p)
  PROVE  EndShape(p)
<1>1. GrowsAcks(lanes', p, t)
  BY HandshakeFacts, DropLanesAcks
<1> QED  BY <1>1, UpdateEnd

LEMMA StartupEnd ==
  ASSUME HInv, NEW p \in Participants, Restart(p) \/ Resume(p)
  PROVE  EndShape(p)
<1>1. st[p] \in ExecutionStates /\ Activate(st[p]) \in ExecutionStates
  BY HandshakeFacts, DispatchTypes, NoneAssumption
<1>2. Ending(p, st[p])
  BY HandshakeFacts, SameEnding DEF SameEnd
<1>3. st[p].status = "Activating" => Ending(p, Activate(st[p]))
  BY HandshakeFacts, ActivateEnding
<1>4. UNCHANGED lanes
  BY DEF Restart, Resume
<1>5. CASE \E next : Update(p, st[p], next)
  BY <1>1, <1>2, <1>4, <1>5, LocalEnd
<1>6. CASE st[p].status = "Activating" /\ Update(p, Activate(st[p]), "progress")
  BY <1>1, <1>3, <1>4, <1>6, LocalEnd
<1> QED  BY <1>5, <1>6 DEF Restart, Resume

LEMMA LocalEventEnd ==
  ASSUME HInv, NEW p \in Participants, LocalEvent(p)
  PROVE  EndShape(p)
<1>1. PICK k \in BroadcastCounts(st[p]) :
        Update(p, InstallDispatch(st[p], k), "progress")
  BY DEF LocalEvent
<1>2. k \in Nat /\ st[p] \in ExecutionStates /\ EndsHold
  BY HandshakeFacts DEF BroadcastCounts
<1>3. InstallDispatch(st[p], k) \in ExecutionStates
  BY <1>2, DispatchTypes, NoneAssumption
<1>4. Ending(p, InstallDispatch(st[p], k))
  BY <1>2, DispatchEnds, SameEnding
<1> QED  BY <1>1, <1>3, <1>4, LocalEnd DEF LocalEvent

LEMMA TerminateEnd ==
  ASSUME HInv, NEW p \in Participants, Terminate(p)
  PROVE  EndShape(p)
<1>1. Update(p, StopHere(st[p], p, "Abort"), "progress")
      /\ ~IsTerminal(st[p]) /\ UNCHANGED lanes
  BY DEF Terminate, MayStop
<1> QED  BY <1>1, HandshakeFacts, StopHereEnding, LocalEnd

LEMMA FailTerminalEnd ==
  ASSUME HInv, NEW p \in Participants, FailTerminal(p)
  PROVE  EndShape(p)
<1>1. CASE MayStop(st[p], p)
  <2>1. Update(p, StopHere(st[p], p, "Fail"), "failed")
        /\ ~IsTerminal(st[p]) /\ UNCHANGED lanes
    BY <1>1 DEF FailTerminal
  <2> QED  BY <2>1, HandshakeFacts, StopHereEnding, LocalEnd
<1>2. CASE ~MayStop(st[p], p)
  <2>1. Update(p, st[p], "exited") /\ DropLanes(p)
    BY <1>2 DEF FailTerminal
  <2>2. Ending(p, st[p])
    BY HandshakeFacts, SameEnding DEF SameEnd
  <2> QED  BY <2>1, <2>2, HandshakeFacts, DropEnd
<1> QED  BY <1>1, <1>2

LEMMA PublishFailureEnd ==
  ASSUME HInv, NEW p \in Participants, PublishFailure(p)
  PROVE  EndShape(p)
BY HandshakeFacts, TerminalEffects, PublishEnding, LocalEnd DEF PublishFailure

LEMMA StageEnding ==
  ASSUME HInv, NEW p \in Participants, ~IsTerminal(st[p]),
         st[p].proposal = None, NEW from \in Participants \cup {None},
         NEW data \in Nat, NEW k \in Nat,
         from = p => st[p].outgoing # <<>>
  PROVE  LET t == StageProposal(st[p], p, from, data, k) IN
         t \in ExecutionStates /\ Ending(p, t) /\ HasEvidence(t)
<1>1. st[p] \in ExecutionStates /\ EndsHold
  BY HandshakeFacts
<1>2. StageProposal(st[p], p, from, data, k) \in ExecutionStates
  BY <1>1, DispatchTypes
<1>3. SameEnd(st[p], StageProposal(st[p], p, from, data, k))
  BY <1>1, DispatchEnds
<1>4. HasEvidence(StageProposal(st[p], p, from, data, k))
  BY <1>3 DEF HasEvidence, SameEnd, IsTerminal
<1> QED  BY <1>1, <1>2, <1>3, <1>4, SameEnding

LEMMA StartSessionEnd ==
  ASSUME HInv, NEW p \in Participants, StartSession(p)
  PROVE  EndShape(p)
<1>1. PICK k \in BroadcastCounts(st[p]) :
        Update(p, StageProposal(st[p], p, None, 0, k), "progress")
  BY DEF StartSession
<1>2. k \in Nat /\ CanDispatch(st[p]) /\ UNCHANGED lanes
  BY DEF StartSession, BroadcastCounts
<1> DEFINE t == StageProposal(st[p], p, None, 0, k)
<1>3. t \in ExecutionStates /\ Ending(p, t)
  BY <1>2, StageEnding, NoneAssumption DEF CanDispatch, IsTerminal
<1> HIDE DEF t
<1>4. Update(p, t, "progress")
  BY <1>1 DEF t
<1> QED  BY <1>2, <1>3, <1>4, LocalEnd

LEMMA SignStepEnd ==
  ASSUME HInv, NEW p \in Participants, SignStep(p)
  PROVE  EndShape(p)
<1> DEFINE t == AddStepSignature(st[p], p, p)
<1>1. Unsettled(p) /\ ~HasSigned(st[p], p)
  BY DEF SignStep, Unsettled
<1>2. t \in ExecutionStates
  BY <1>1, HandshakeFacts, AddStepSignatureEffect DEF Unsettled
<1>3. Moves(p, t)
  BY <1>1 DEF SignStep, Moves, Signs
<1>4. HasEvidence(t) /\ Ending(p, t)
  BY <1>1, <1>2, <1>3, HandshakeFacts, MovesEvidence, StepEnding
<1>5. Update(p, t, "idle") /\ lanes' = DeliverFrames(p, t)
  BY DEF SignStep
<1> HIDE DEF t
<1> QED  BY <1>2, <1>4, <1>5, DeliverEnd

LEMMA AuthorNextMessageEnd ==
  ASSUME HInv, NEW p \in Participants, AuthorNextMessage(p)
  PROVE  EndShape(p)
<1>1. PICK k \in BroadcastCounts(st[p]) :
        LET s == StageProposal(st[p], p, p, Head(st[p].outgoing), k) IN
        Update(p, s, "idle") /\ lanes' = DeliverFrames(p, s)
  BY DEF AuthorNextMessage
<1> DEFINE t == StageProposal(st[p], p, p, Head(st[p].outgoing), k)
<1>2. /\ k \in Nat /\ CanDispatch(st[p]) /\ st[p].outgoing # <<>>
  BY DEF AuthorNextMessage, BroadcastCounts
<1>3. Head(st[p].outgoing) \in Nat
  BY <1>2, HandshakeFacts DEF ExecutionStates
<1>4. t \in ExecutionStates /\ Ending(p, t) /\ HasEvidence(t)
  BY <1>2, <1>3, StageEnding DEF CanDispatch, IsTerminal
<1> HIDE DEF t
<1>5. Update(p, t, "idle") /\ lanes' = DeliverFrames(p, t)
  BY <1>1 DEF t
<1> QED  BY <1>4, <1>5, DeliverEnd

LEMMA DropRejectedMessageEnd ==
  ASSUME HInv, NEW p \in Participants, DropRejectedMessage(p)
  PROVE  EndShape(p)
<1>1. st[p].outgoing # <<>> /\ st[p] \in ExecutionStates /\ EndsHold
  BY HandshakeFacts DEF DropRejectedMessage
<1>2. DropOutgoingHead(st[p]) \in ExecutionStates
  BY <1>1, DispatchTypes, NoneAssumption
<1>3. Ending(p, DropOutgoingHead(st[p]))
  BY <1>1, DispatchEnds, SameEnding
<1> QED  BY <1>2, <1>3, LocalEnd DEF DropRejectedMessage

LEMMA RedeliverEnd ==
  ASSUME HInv, NEW p \in Participants, Redeliver(p)
  PROVE  EndShape(p)
<1>1. Ending(p, st[p])
  BY HandshakeFacts, SameEnding DEF SameEnd
<1> QED  BY <1>1, HandshakeFacts, DeliverEnd DEF Redeliver

LEMMA ProgressTerminalEnd ==
  ASSUME HInv, NEW p \in Participants, ProgressTerminal(p)
  PROVE  EndShape(p)
<1> DEFINE t == PublishReceipt(st[p])
<1>1. t \in ExecutionStates /\ Quiet(st[p], t) /\ Ending(p, t)
  BY HandshakeFacts, TerminalEffects, PublishEnding
<1>2. HasEvidence(t)
  BY <1>1, HandshakeFacts DEF HasEvidence, Quiet
<1>3. \/ Update(p, t, "retired") /\ DropLanes(p)
      \/ Update(p, t, "idle") /\ lanes' = DeliverFrames(p, t)
  BY DEF ProgressTerminal
<1> HIDE DEF t
<1> QED  BY <1>1, <1>2, <1>3, DropEnd, DeliverEnd

LEMMA ExpireWindowEnd ==
  ASSUME HInv, NEW p \in Participants, ExpireWindow(p)
  PROVE  EndShape(p)
<1> DEFINE u == PublishReceipt(st[p])
           t == ExpireEnd(u)
<1>1. u \in ExecutionStates
  BY HandshakeFacts, TerminalEffects
<1>2. t \in ExecutionStates
  BY <1>1, TerminalEffects
<1>3. Ending(p, t)
  BY HandshakeFacts, PublishEnding DEF ExpireWindow
<1>4. Update(p, t, "retired") /\ DropLanes(p)
  BY DEF ExpireWindow
<1> HIDE DEF t
<1> QED  BY <1>2, <1>3, <1>4, DropEnd

LEMMA CrashEnd ==
  ASSUME HInv, NEW p \in Participants, Crash(p)
  PROVE  EndShape(p)
<1>1. GrowsAcks(lanes', p, st[p])
  BY HandshakeFacts, DropLanesAcks DEF Crash
<1> QED  BY <1>1, KeepEnd DEF Crash

\* What every delivery says about its source.
LEMMA DeliveryFacts ==
  ASSUME HInv, NEW q \in Participants, NEW d \in Deliveries(q)
  PROVE  /\ d.source \in Participants /\ d.frame \in ExecFrame
         /\ Genuine(d.source, d.frame) /\ Heard(d.frame, st[d.source])
<1>1. /\ d.source \in Participants /\ d.frame \in ExecFrame
      /\ InFlight(d.source, d.frame)
  BY HandshakeFacts, DeliveryInFlight
<1> QED  BY <1>1, InFlightGenuine
         DEF HInv, IInv, SignedWordHolds, EndInv, SendersHold

\* A step that answers a delivery.
LEMMA AnswerEnd ==
  ASSUME HInv, NEW q \in Participants, NEW d \in Deliveries(q),
         NEW t \in ExecutionStates, NEW next, Update(q, t, next), Ending(q, t),
         NEW answer \in Answers, answer = "Ack" => Heard(d.frame, t),
         lanes' = Answer(q, d, answer)
  PROVE  EndShape(q)
<1>1. GrowsAcks(lanes', q, t)
  BY HandshakeFacts, AnswerAcks
<1> QED  BY <1>1, UpdateEnd

LEMMA AcceptFrameEnd ==
  ASSUME HInv, NEW q \in Participants, NEW d \in Deliveries(q),
         AcceptFrame(q, d)
  PROVE  EndShape(q)
<1> DEFINE f == d.frame
           t == Apply(st[q], q, d.source, f)
<1>1. /\ IInv /\ TypeInv /\ EndsHold /\ st[q] \in ExecutionStates
      /\ d.source \in Participants /\ f \in ExecFrame
      /\ Genuine(d.source, f) /\ Heard(f, st[d.source])
  BY HandshakeFacts, DeliveryFacts
<1>2. /\ Update(q, t, "progress") /\ Verdict(st[q], d.source, f) = "Apply"
      /\ ~IsStepMessage(st[q], f) /\ lanes' = Answer(q, d, "Ack")
  BY DEF AcceptFrame
<1>3. t \in ExecutionStates /\ Ending(q, t) /\ Heard(f, t)
  <2>1. CASE IsTerminal(st[q])
    <3>1. t = ConfirmEnd(st[q], d.source)
      BY <2>1 DEF Apply
    <3>2. EndMatch(st[q], f) = "Same"
      BY <1>2, <2>1 DEF Verdict
    <3>3. IsTerminal(st[d.source])
      BY <1>1, <2>1, <3>2, MatchingEnd
    <3>4. Heard(f, st[q])
      BY <1>1, <2>1, HeardWhenConcluded
    <3>5. t \in ExecutionStates /\ Quiet(st[q], t)
      BY <1>1, <3>1, TerminalEffects
    <3>6. Ending(q, t)
      BY <1>1, <2>1, <3>1, <3>3, ConfirmEnding
    <3> HIDE DEF t
    <3> QED  BY <3>4, <3>5, <3>6 DEF Quiet, Heard
  <2>2. CASE ~IsTerminal(st[q]) /\ f.type = "StepSignature"
    <3>1. t = AddStepSignature(st[q], q, d.source)
      BY <2>2 DEF Apply
    <3>2. Unsettled(q)
      BY <1>1, <1>2, <2>2, AppliedFrame DEF Unsettled
    <3>3. t \in ExecutionStates /\ Ending(q, t)
      BY <1>1, <3>1, <3>2, AddStepSignatureEffect, StepEnding DEF Unsettled
    <3> QED  BY <2>2, <3>3 DEF Heard
  <2>3. CASE ~IsTerminal(st[q]) /\ f.type = "StepCertificate"
    <3>1. t = InstallCertified(st[q], q)
      BY <2>3 DEF Apply
    <3>2. Unsettled(q) /\ f.commitment = ProposalCommitment(st[q])
      BY <1>1, <1>2, <2>3, AppliedFrame DEF Unsettled
    <3>3. st[q].proposal # None
      BY <3>2 DEF Unsettled
    <3>4. t \in ExecutionStates /\ t.log = Append(st[q].log, st[q].proposal.entry)
      BY <1>1, <3>1, <3>3, InstallCertifiedEffect
    <3>5. Ending(q, t)
      BY <1>1, <3>1, <3>2, StepEnding
    <3>6. st[q].log \in Seq(Entry) /\ st[q].proposal.entry \in Entry
      BY <1>1, <3>3, CommitmentType DEF ExecutionStates, Proposal
    <3>7. f.commitment.prefix = st[q].log
      BY <3>2 DEF ProposalCommitment
    <3>8. Len(f.commitment.prefix) < Len(t.log)
      BY <3>4, <3>6, <3>7, AppendProperties, LenProperties
    <3> QED  BY <2>3, <3>4, <3>5, <3>8 DEF Heard
  <2>4. CASE ~IsTerminal(st[q]) /\ f.type = "Abort"
    <3>1. t = Stop(st[q], q, f.occurrence) /\ f.occurrence \in Occurrence
      BY <1>1, <2>4, AbortOccurrence DEF Apply
    <3>2. t \in ExecutionStates /\ IsTerminal(t) /\ Ending(q, t)
      BY <1>1, <2>4, <3>1, StopEffect, StopEnding
    <3> QED  BY <2>4, <3>2 DEF Heard
  <2>5. f.type \in {"Message", "StepSignature", "StepCertificate", "Abort"}
    BY <1>1 DEF ExecFrame, CommittedFrame, AbortFrame
  <2> QED  BY <1>2, <2>1, <2>2, <2>3, <2>4, <2>5 DEF IsStepMessage
<1> HIDE DEF t
<1> QED  BY <1>2, <1>3, AnswerEnd DEF Answers

LEMMA ApplyMessageEnd ==
  ASSUME HInv, NEW q \in Participants, NEW d \in Deliveries(q),
         ApplyMessage(q, d)
  PROVE  EndShape(q)
<1> DEFINE data == d.frame.commitment.entry.data
<1>1. PICK k \in BroadcastCounts(st[q]) :
        Update(q, StageProposal(st[q], q, d.source, data, k), "progress")
  BY DEF ApplyMessage
<1>2. /\ d.source \in Participants /\ d.source # q /\ d.frame \in ExecFrame
  BY HandshakeFacts, DeliveryInFlight DEF Peers
<1>3. /\ Verdict(st[q], d.source, d.frame) = "Apply"
      /\ ~IsTerminal(st[q]) /\ d.frame.type = "Message"
      /\ lanes' = Answer(q, d, "Ack")
  BY DEF ApplyMessage, IsStepMessage
<1>4. st[q].proposal = None
  BY <1>2, <1>3, AppliedFrame
<1>5. data \in Nat /\ k \in Nat
  BY <1>2, <1>3, CommittedCommitment DEF Commitment, Entry, BroadcastCounts
<1> HIDE DEF data
<1> DEFINE t == StageProposal(st[q], q, d.source, data, k)
<1>6. t \in ExecutionStates /\ Ending(q, t)
  BY <1>2, <1>3, <1>4, <1>5, StageEnding
<1>7. Heard(d.frame, t)
  BY <1>3 DEF Heard
<1> HIDE DEF t
<1>8. Update(q, t, "progress")
  BY <1>1 DEF t
<1> QED  BY <1>3, <1>6, <1>7, <1>8, AnswerEnd DEF Answers

LEMMA DivergeOnMessageEnd ==
  ASSUME HInv, NEW q \in Participants, NEW d \in Deliveries(q),
         DivergeOnMessage(q, d)
  PROVE  EndShape(q)
<1> DEFINE t == StopHere(st[q], q, "Fail")
<1>1. /\ ~IsTerminal(st[q]) /\ d.frame.type = "Message"
      /\ Update(q, t, "failed")
  BY DEF DivergeOnMessage, IsStepMessage
<1>2. PICK answer \in {"Ack", "Pending"} : lanes' = Answer(q, d, answer)
  BY DEF DivergeOnMessage
<1>3. t \in ExecutionStates /\ Ending(q, t)
  BY <1>1, HandshakeFacts, StopHereEnding
<1>4. Heard(d.frame, t) /\ answer \in Answers
  BY <1>1 DEF Heard, Answers
<1> HIDE DEF t
<1> QED  BY <1>1, <1>2, <1>3, <1>4, AnswerEnd

LEMMA RefuseFrameEnd ==
  ASSUME HInv, NEW q \in Participants, NEW d \in Deliveries(q),
         RefuseFrame(q, d)
  PROVE  EndShape(q)
<1> DEFINE verdict  == Verdict(st[q], d.source, d.frame)
           answered == Answer(q, d, verdict)
<1>1. /\ IInv /\ TypeInv /\ EndsHold /\ st[q] \in ExecutionStates
      /\ WellTypedLanes
      /\ d.source \in Participants /\ d.frame \in ExecFrame
      /\ Genuine(d.source, d.frame)
  BY HandshakeFacts, DeliveryFacts
<1>2. Ending(q, st[q])
  BY <1>1, SameEnding DEF SameEnd
<1>3. CASE verdict = "Contradiction"
  <2>1. Update(q, st[q], "exited") /\ DropLanes(q)
    BY <1>3 DEF RefuseFrame
  <2> QED  BY <1>1, <1>2, <2>1, DropEnd
<1>4. CASE verdict # "Contradiction"
  <2> DEFINE lane == [answered[q][d.source] EXCEPT !.suppressed = TRUE]
  <2>1. /\ Update(q, st[q], "progress") /\ verdict # "Apply"
        /\ lanes' = answered \/ lanes' = SetLane(answered, q, d.source, lane)
    BY <1>4 DEF RefuseFrame
  <2>2. verdict \in Answers
    BY <1>1, <1>4, <2>1, VerdictRange
  <2>3. verdict = "Ack" => Heard(d.frame, st[q])
    BY <1>1, HeardWhenConcluded, HeardWhenStale
  <2> HIDE DEF verdict
  <2>4. GrowsAcks(answered, q, st[q])
    BY <1>1, <2>2, <2>3, AnswerAcks
  <2> HIDE DEF answered
  <2>5. lane \in Lane /\ lane.send = answered[q][d.source].send
    <3> DEFINE old == answered[q][d.source]
    <3>1. old \in Lane
      BY <1>1, <2>4 DEF GrowsAcks
    <3>2. lane = [old EXCEPT !.suppressed = TRUE]
      OBVIOUS
    <3> HIDE DEF old, lane
    <3>3. lane \in Lane /\ lane.send = old.send
      BY <3>1, <3>2 DEF Lane
    <3> QED  BY <3>3 DEF old
  <2> HIDE DEF lane
  <2>6. GrowsAcks(lanes', q, st[q])
    BY <1>1, <2>1, <2>4, <2>5, SetLaneAcks
  <2> QED  BY <1>1, <1>2, <2>1, <2>6, UpdateEnd
<1> QED  BY <1>3, <1>4

LEMMA RouteRetiredEnd ==
  ASSUME HInv, NEW q \in Participants, NEW d \in Deliveries(q),
         RouteRetired(q, d)
  PROVE  EndShape(q)
<1>1. IInv /\ EndsHold /\ WellTypedLanes /\ d.frame \in ExecFrame
      /\ Genuine(d.source, d.frame)
  BY HandshakeFacts, DeliveryFacts
<1>2. IsTerminal(st[q])
  BY <1>1 DEF RouteRetired, EndsHold
<1>3. Heard(d.frame, st[q])
  BY <1>1, <1>2, HeardWhenConcluded
<1>4. GrowsAcks(lanes', q, st[q])
  BY <1>1, <1>3, RetiredVerdictRange, AnswerAcks DEF RouteRetired
<1> QED  BY <1>4, KeepEnd DEF RouteRetired

\* A step of p that clears one of its lanes, or leaves what it sent.
LEMMA OwnLaneAcks ==
  ASSUME WellTypedLanes, NEW p \in Participants, NEW q \in Participants,
         NEW lane \in Lane, lane.send = None \/ lane.send = lanes[p][q].send,
         NEW t
  PROVE  GrowsAcks(SetLane(lanes, p, q, lane), p, t)
<1>1. Acked(lane.send) => lane.send = lanes[p][q].send
  BY DEF Acked
<1> QED  BY <1>1, AcksKept, SetLaneAcks

LEMMA SettleSendEnd ==
  ASSUME HInv, NEW p \in Participants, NEW q \in Participants,
         SettleSend(p, q)
  PROVE  EndShape(p)
<1> DEFINE lane  == lanes[p][q]
           frame == lane.send.frame
           final == IsTerminal(st[p]) /\ frame = TerminalEvidence(st[p])
           free  == [lane EXCEPT !.send = None, !.retry = FALSE]
           answer == lane.send.answer
           next == CASE answer = "Ack" -> [free EXCEPT !.acked = @ \cup {frame}]
                     [] answer = "NotYet" -> [free EXCEPT !.retry = TRUE]
                     [] answer = "Rejected" /\ ~final ->
                          [free EXCEPT !.rejected = @ \cup {frame}]
                     [] OTHER -> [free EXCEPT !.suppressed = TRUE]
           t == IF answer = "Ack" /\ final THEN ConfirmEnd(st[p], q) ELSE st[p]
<1>1. /\ lane \in Lane /\ WellTypedLanes /\ st[p] \in ExecutionStates
      /\ IInv /\ TypeInv /\ EndsHold
  BY HandshakeFacts DEF WellTypedLanes
<1>2. /\ lane.send # None /\ lanes' = SetLane(lanes, p, q, next)
      /\ Update(p, t, "progress")
  BY DEF SettleSend
<1>3. frame \in ExecFrame
  BY <1>1, <1>2 DEF Lane
<1>4. t \in ExecutionStates /\ Ending(p, t)
  <2>1. CASE answer = "Ack" /\ final
    <3>1. Heard(TerminalEvidence(st[p]), st[q])
      BY <1>2, <2>1 DEF HInv, EndInv, AcksHold, Acked
    <3>2. IsTerminal(st[q])
      BY <1>1, <2>1, <3>1, AcknowledgedEnd
    <3> QED  BY <1>1, <2>1, <3>2, TerminalEffects, ConfirmEnding
  <2>2. CASE ~(answer = "Ack" /\ final)
    BY <1>1, <2>2, SameEnding DEF SameEnd
  <2> QED  BY <2>1, <2>2
<1> HIDE DEF frame, final, answer
<1>5. free \in Lane /\ free.send = None
  BY <1>1 DEF Lane
<1>6. next \in Lane /\ next.send = None
  <2> HIDE DEF free
  <2>1. /\ [free EXCEPT !.acked = @ \cup {frame}] \in Lane
        /\ [free EXCEPT !.acked = @ \cup {frame}].send = None
    BY <1>3, <1>5 DEF Lane
  <2>2. /\ [free EXCEPT !.retry = TRUE] \in Lane
        /\ [free EXCEPT !.retry = TRUE].send = None
    BY <1>5 DEF Lane
  <2>3. /\ [free EXCEPT !.rejected = @ \cup {frame}] \in Lane
        /\ [free EXCEPT !.rejected = @ \cup {frame}].send = None
    BY <1>3, <1>5 DEF Lane
  <2>4. /\ [free EXCEPT !.suppressed = TRUE] \in Lane
        /\ [free EXCEPT !.suppressed = TRUE].send = None
    BY <1>5 DEF Lane
  <2> QED  BY <2>1, <2>2, <2>3, <2>4
<1> HIDE DEF next, t
<1>7. GrowsAcks(lanes', p, t)
  BY <1>1, <1>2, <1>6, OwnLaneAcks
<1> QED  BY <1>2, <1>4, <1>7, UpdateEnd

LEMMA SendTimeoutEnd ==
  ASSUME HInv, NEW p \in Participants, NEW q \in Participants,
         SendTimeout(p, q)
  PROVE  EndShape(p)
<1> DEFINE old  == lanes[p][q]
           lane == [lanes[p][q] EXCEPT !.send = None, !.retry = TRUE]
<1>1. old \in Lane /\ WellTypedLanes /\ st[p] \in ExecutionStates /\ EndsHold
  BY HandshakeFacts DEF WellTypedLanes
<1>2. lane \in Lane /\ lane.send = None
  <2> HIDE DEF old
  <2>1. lane = [old EXCEPT !.send = None, !.retry = TRUE]
    BY DEF old
  <2> QED  BY <1>1, <2>1 DEF Lane
<1>3. lanes' = SetLane(lanes, p, q, lane) /\ Update(p, st[p], "progress")
  BY DEF SendTimeout
<1> HIDE DEF lane
<1>4. GrowsAcks(lanes', p, st[p])
  BY <1>1, <1>2, <1>3, OwnLaneAcks
<1>5. Ending(p, st[p])
  BY <1>1, SameEnding DEF SameEnd
<1> QED  BY <1>1, <1>3, <1>4, <1>5, UpdateEnd

LEMMA RetryDueEnd ==
  ASSUME HInv, NEW p \in Participants, NEW q \in Participants,
         RetryDue(p, q)
  PROVE  EndShape(p)
<1> DEFINE old  == lanes[p][q]
           lane == [lanes[p][q] EXCEPT !.retry = FALSE]
<1>1. old \in Lane /\ WellTypedLanes
  BY HandshakeFacts DEF WellTypedLanes
<1>2. lane \in Lane /\ lane.send = lanes[p][q].send
  <2> HIDE DEF old
  <2>1. lane = [old EXCEPT !.retry = FALSE]
    BY DEF old
  <2> QED  BY <1>1, <2>1 DEF Lane, old
<1>3. lanes' = SetLane(lanes, p, q, lane)
  BY DEF RetryDue
<1> HIDE DEF lane
<1>4. GrowsAcks(lanes', p, st[p])
  BY <1>1, <1>2, <1>3, OwnLaneAcks
<1> QED  BY <1>4, KeepEnd DEF RetryDue

\* Each action of Next, with its participant.
LEMMA StepEnd ==
  ASSUME HInv, Next
  PROVE  \E p \in Participants : Shape(p) /\ EndShape(p)
<1>0. TypeInv
  BY DEF HInv, IInv
<1>1. ASSUME NEW p \in Participants,
             \/ Restart(p) \/ Resume(p) \/ LocalEvent(p)
             \/ Terminate(p) \/ FailTerminal(p)
             \/ Progress(p) \/ ExpireWindow(p) \/ Crash(p)
      PROVE  Shape(p) /\ EndShape(p)
  <2>1. Shape(p)
    BY <1>0, <1>1, RestartShape, LocalEventShape, TerminateShape,
       FailTerminalShape, StartSessionShape, SignStepShape,
       AuthorNextMessageShape, DropRejectedMessageShape, RedeliverShape,
       ProgressTerminalShape, PublishFailureShape, ExpireWindowShape,
       CrashShape DEF Progress
  <2>2. EndShape(p)
    BY <1>1, StartupEnd, LocalEventEnd, TerminateEnd, FailTerminalEnd,
       StartSessionEnd, SignStepEnd, AuthorNextMessageEnd,
       DropRejectedMessageEnd, RedeliverEnd, ProgressTerminalEnd,
       PublishFailureEnd, ExpireWindowEnd, CrashEnd DEF Progress
  <2> QED  BY <2>1, <2>2
<1>2. ASSUME NEW p \in Participants, NEW d \in Deliveries(p),
             Inbound(p, d) \/ DivergeOnMessage(p, d)
      PROVE  Shape(p) /\ EndShape(p)
  <2>1. Shape(p)
    BY <1>0, <1>2, AcceptFrameShape, ApplyMessageShape, RefuseFrameShape,
       RouteRetiredShape, DivergeOnMessageShape DEF Inbound
  <2>2. EndShape(p)
    BY <1>2, AcceptFrameEnd, ApplyMessageEnd, RefuseFrameEnd,
       RouteRetiredEnd, DivergeOnMessageEnd DEF Inbound
  <2> QED  BY <2>1, <2>2
<1>3. ASSUME NEW p \in Participants, NEW q \in Participants,
             SettleSend(p, q) \/ SendTimeout(p, q) \/ RetryDue(p, q)
      PROVE  Shape(p) /\ EndShape(p)
  BY <1>0, <1>3, SettleSendShape, SendTimeoutShape, RetryDueShape,
     SettleSendEnd, SendTimeoutEnd, RetryDueEnd
<1> QED  BY <1>1, <1>2, <1>3 DEF Next

-----------------------------------------------------------------------------
(* EndInv is inductive together with IInv.                                 *)

\* A step of p to t, as both shapes describe it.
EndSteps(p, t) ==
  /\ HInv /\ Steps(p, t) /\ Ending(p, t)
  /\ GrowsAcks(lanes', p, t) /\ Launches(p, Owed(t, p))

LEMMA BothShapes ==
  ASSUME HInv, Next
  PROVE  \E p \in Participants, t \in ExecutionStates : EndSteps(p, t)
<1>1. PICK p \in Participants : Shape(p) /\ EndShape(p)
  BY StepEnd
<1>2. PICK t \in ExecutionStates :
        st' = [st EXCEPT ![p] = t] /\ Moves(p, t) /\ Launches(p, Owed(t, p))
  BY <1>1 DEF Shape
<1>3. PICK u \in ExecutionStates :
        st' = [st EXCEPT ![p] = u] /\ Ending(p, u) /\ GrowsAcks(lanes', p, u)
  BY <1>1 DEF EndShape
<1>4. u = t
  BY <1>2, <1>3, HandshakeFacts
<1>5. Steps(p, t)
  BY <1>2, MoveEffects DEF Steps, HInv
<1> QED  BY <1>2, <1>3, <1>4, <1>5 DEF EndSteps

\* What has been heard stays heard, and a conclusion stays.
LEMMA HeardStays ==
  ASSUME NEW p \in Participants, NEW t, Steps(p, t), NEW a \in Participants
  PROVE  /\ IsTerminal(st[a]) =>
              /\ IsTerminal(st'[a])
              /\ st'[a].log = st[a].log /\ st'[a].stop = st[a].stop
         /\ \A f \in ExecFrame : Heard(f, st[a]) => Heard(f, st'[a])
<1>1. /\ st'[p] = t /\ (a # p => st'[a] = st[a])
      /\ st[p] \in ExecutionStates /\ st[a] \in ExecutionStates
  BY StepFacts
<1>2. IsTerminal(st[p]) =>
        IsTerminal(t) /\ t.log = st[p].log /\ t.stop = st[p].stop
  BY DEF Steps, Effect, Quiet, Stages, Collects, Installs, Halts, Unsettled
<1>3. Len(st[p].log) \in Nat /\ Len(t.log) \in Nat /\ Len(st[p].log) <= Len(t.log)
  <2>1. st[p].log \in Seq(Entry) /\ Len(st[p].log) \in Nat
    BY <1>1, LenProperties DEF ExecutionStates
  <2>2. CASE t.log = st[p].log
    BY <2>1, <2>2
  <2>3. CASE Installs(p, t)
    <3>1. st[p].proposal # None
      BY <2>3 DEF Installs, Unsettled
    <3>2. st[p].proposal.entry \in Entry
      BY <1>1, <3>1, CommitmentType DEF Proposal
    <3>3. t.log = Append(st[p].log, st[p].proposal.entry)
      BY <2>3 DEF Installs
    <3> QED  BY <2>1, <3>2, <3>3, AppendProperties
  <2> QED  BY <2>2, <2>3 DEF Steps, Effect, Quiet, Stages, Collects, Halts
<1>4. ASSUME NEW f \in ExecFrame, Heard(f, st[p]) PROVE Heard(f, t)
  <2>1. ASSUME f.type = "StepCertificate"
        PROVE  Len(f.commitment.prefix) < Len(t.log)
    <3>1. f.commitment \in Commitment
      BY <2>1, CommittedCommitment
    <3>2. Len(f.commitment.prefix) \in Nat
      BY <3>1, LenProperties DEF Commitment
    <3>3. Len(f.commitment.prefix) < Len(st[p].log)
      BY <1>4, <2>1 DEF Heard
    <3> QED  BY <1>3, <3>2, <3>3
  <2> QED  BY <1>2, <1>4, <2>1 DEF Heard
<1> QED  BY <1>1, <1>2, <1>4

LEMMA AcksStep ==
  ASSUME NEW p \in Participants, NEW t \in ExecutionStates, EndSteps(p, t)
  PROVE  AcksHold'
<1>1. Steps(p, t) /\ AcksHold /\ GrowsAcks(lanes', p, t) /\ WellTypedLanes
  BY HandshakeFacts DEF EndSteps, HInv, EndInv
<1>2. ASSUME NEW a \in Participants, NEW b \in Participants,
             Acked(lanes'[a][b].send)
      PROVE  Heard(lanes'[a][b].send.frame, st'[b])
  <2>1. CASE lanes'[a][b].send = lanes[a][b].send
    <3>1. Heard(lanes[a][b].send.frame, st[b])
      BY <1>1, <1>2, <2>1 DEF AcksHold
    <3>2. lanes[a][b].send.frame \in ExecFrame
      BY <1>1, <1>2, <2>1 DEF WellTypedLanes, Lane, Acked
    <3> QED  BY <1>1, <2>1, <3>1, <3>2, HeardStays
  <2>2. CASE b = p /\ Heard(lanes'[a][b].send.frame, t)
    <3>1. st'[p] = t
      BY <1>1, StepFacts
    <3> QED  BY <2>2, <3>1
  <2> QED  BY <1>1, <1>2, <2>1, <2>2 DEF GrowsAcks
<1> QED  BY <1>2 DEF AcksHold, Acked, Heard, IsTerminal

LEMMA SendersStep ==
  ASSUME NEW p \in Participants, NEW t \in ExecutionStates, EndSteps(p, t),
         IInv'
  PROVE  SendersHold'
<1>1. Steps(p, t) /\ SendersHold /\ Launches(p, Owed(t, p))
  BY DEF EndSteps, HInv, EndInv
<1>2. st'[p] = t
  BY <1>1, StepFacts
<1>3. ASSUME NEW f \in Owed(t, p) PROVE Heard(f, t)
  <2>1. CASE t.stop # None /\ f = [type |-> "Abort", occurrence |-> t.stop]
    <3>1. IsTerminal(t)
      BY <1>2, <2>1 DEF IInv, SignedWordHolds, StopsHold, IsTerminal
    <3> QED  BY <2>1, <3>1 DEF Heard
  <2>2. CASE t.cert # None /\ f = Frame("StepCertificate", t.cert)
    <3>1. t.cert \in Commitment
      BY <2>2 DEF ExecutionStates
    <3>2. t.cert.prefix \in Seq(Entry) /\ t.cert.entry \in Entry
      BY <3>1 DEF Commitment
    <3>3. t.log = Append(t.cert.prefix, t.cert.entry)
      BY <1>2, <2>2 DEF IInv, SignedWordHolds, CertificatesHold
    <3>4. Len(t.cert.prefix) < Len(t.log)
      BY <3>2, <3>3, AppendProperties, LenProperties
    <3> QED  BY <2>2, <3>4 DEF Heard, Frame
  <2>3. CASE \/ f = Frame("Message", ProposalCommitment(t))
             \/ f = Frame("StepSignature", ProposalCommitment(t))
    BY <2>3 DEF Heard, Frame
  <2> QED  BY <2>1, <2>2, <2>3 DEF Owed
<1>4. ASSUME NEW a \in Participants, NEW f \in ExecFrame, InFlight(a, f)'
      PROVE  Heard(f, st'[a])
  <2>1. CASE InFlight(a, f)
    BY <1>1, <2>1, HeardStays DEF SendersHold
  <2>2. CASE a = p /\ f \in Owed(t, p)
    BY <1>2, <1>3, <2>2
  <2> QED  BY <1>1, <1>4, <2>1, <2>2 DEF Launches
<1> QED  BY <1>4 DEF SendersHold, Heard, IsTerminal

LEMMA EndsStep ==
  ASSUME NEW p \in Participants, NEW t \in ExecutionStates, EndSteps(p, t)
  PROVE  /\ EndsHold' /\ ConfirmedPeersConcluded'
         /\ IsTerminal(st[p]) =>
              /\ t.status \in {st[p].status, PublishReceipt(st[p]).status}
              /\ t.unconfirmed \subseteq st[p].unconfirmed
<1>1. /\ Steps(p, t) /\ EndsHold /\ ConfirmedPeersConcluded /\ Ending(p, t)
  BY DEF EndSteps, HInv, EndInv
<1>2. st'[p] = t /\ \A a \in Participants : a # p => st'[a] = st[a]
  BY <1>1, StepFacts
<1>3. \A a \in Participants : IsTerminal(st[a]) => IsTerminal(st'[a])
  BY <1>1, HeardStays
<1>4. /\ IsTerminal(t) <=> t.end # "Open"
      /\ t.end # "Open" => \A q \in Participants \ (t.unconfirmed \cup {p}) :
                             IsTerminal(st[q])
  <2>1. CASE IsTerminal(st[p])
    <3>1. Winds(p, t) /\ IsTerminal(t) /\ st[p].end # "Open"
      BY <1>1, <1>2, <1>3, <2>1 DEF Ending, EndsHold
    <3>2. \A q \in Participants \ (st[p].unconfirmed \cup {p}) : IsTerminal(st[q])
      BY <1>1, <3>1 DEF ConfirmedPeersConcluded
    <3> QED  BY <3>1, <3>2 DEF Winds
  <2>2. CASE ~IsTerminal(st[p])
    <3>1. Begins(st[p], t, p) /\ st[p].end = "Open"
      BY <1>1, <2>2 DEF Ending, EndsHold
    <3> QED  BY <3>1 DEF Begins
  <2> QED  BY <2>1, <2>2
<1>5. \A a \in Participants : IsTerminal(st'[a]) <=> st'[a].end # "Open"
  BY <1>1, <1>2, <1>4 DEF EndsHold
<1>6. ASSUME NEW a \in Participants, st'[a].end # "Open",
             NEW q \in Participants \ (st'[a].unconfirmed \cup {a})
      PROVE  IsTerminal(st'[q])
  BY <1>1, <1>2, <1>3, <1>4, <1>6 DEF ConfirmedPeersConcluded
<1>7. EndsHold' /\ ConfirmedPeersConcluded'
  BY <1>5, <1>6 DEF EndsHold, ConfirmedPeersConcluded, IsTerminal
<1> QED  BY <1>1, <1>7 DEF Ending, Winds

LEMMA HandshakeStep ==
  ASSUME HInv, Next
  PROVE  HInv'
<1>1. PICK p \in Participants, t \in ExecutionStates : EndSteps(p, t)
  BY BothShapes
<1>2. IInv'
  BY InvariantStep DEF HInv
<1> QED  BY <1>1, <1>2, AcksStep, SendersStep, EndsStep DEF HInv, EndInv

LEMMA HandshakeInit ==
  ASSUME Init
  PROVE  HInv
<1>1. IInv
  BY InvariantInit
<1>2. /\ \A p \in Participants : st[p] = NewExecution
      /\ \A p, q \in Participants : lanes[p][q] = NewLane
      /\ late = {}
  BY DEF Init
<1>3. /\ NewExecution.end = "Open" /\ NewExecution.status = "Activating"
      /\ NewLane.send = None
  BY DEF NewExecution, NewLane
<1>4. AcksHold /\ SendersHold
  BY <1>2, <1>3 DEF AcksHold, SendersHold, Acked, InFlight
<1>5. EndsHold /\ ConfirmedPeersConcluded
  BY <1>2, <1>3 DEF EndsHold, ConfirmedPeersConcluded, IsTerminal
<1> QED  BY <1>1, <1>4, <1>5 DEF HInv, EndInv

LEMMA HandshakeStutter ==
  ASSUME HInv, UNCHANGED vars
  PROVE  HInv'
<1>1. IInv'
  BY InvariantStutter DEF HInv
<1>2. UNCHANGED <<st, lanes, late>>
  BY DEF vars
<1>3. EndInv'
  BY <1>2 DEF HInv, EndInv, AcksHold, SendersHold, EndsHold, Acked, Heard,
              InFlight, ConfirmedPeersConcluded, IsTerminal
<1> QED  BY <1>1, <1>3 DEF HInv

LEMMA HandshakeInvariance == Spec => []HInv
<1>1. Init => HInv
  BY HandshakeInit
<1>2. HInv /\ [Next]_vars => HInv'
  BY HandshakeStep, HandshakeStutter
<1> QED  BY <1>1, <1>2, PTL DEF Spec

-----------------------------------------------------------------------------
(* The theorems.                                                           *)

\* The actors implement the abstract session: whatever crashes, is repeated
\* or is late, the certified logs (certify_step) grow in lockstep as one trace
\* and every stop (record_stop, accept_frame) falls at its end.
THEOREM Refinement == Spec => ImplementsAgreedSession
<1>1. Init => Session!Init
  BY SessionInit
<1>2. ASSUME IInv, IInv', [Next]_vars PROVE [Session!Next]_(Session!vars)
  <2>1. CASE Next
    BY <1>2, <2>1, SessionStep
  <2>2. CASE UNCHANGED vars
    <3>1. st' = st
      BY <2>2 DEF vars
    <3> QED  BY <1>2, <3>1, AgreedStates, AgreedAfter, SessionStutters
  <2> QED  BY <1>2, <2>1, <2>2
<1> QED  BY <1>1, <1>2, Invariance, PTL DEF Spec, ImplementsAgreedSession, Session!Spec

\* The end handshake is sound: confirm_end drops a peer only when it has
\* durably concluded, whether its answer or its own evidence says so, and
\* neither accept_frame nor route_exec ever refuses genuine evidence.
THEOREM HandshakeSound == Spec => []HandshakeIsSound
<1>1. HInv => HandshakeIsSound
  BY EvidenceAccepted DEF HInv, EndInv, HandshakeIsSound
<1> QED  BY <1>1, HandshakeInvariance, PTL

\* A conclusion is final: after it, publish_receipt, confirm_end and the
\* confirmation window are all that touch the aggregate.
THEOREM ConclusionFinal == Spec => ConclusionIsFinal
<1> DEFINE Final(p) ==
      IsTerminal(st[p]) =>
        /\ st'[p].log = st[p].log /\ st'[p].stop = st[p].stop
        /\ st'[p].status \in {st[p].status, PublishReceipt(st[p]).status}
        /\ st'[p].unconfirmed \subseteq st[p].unconfirmed
<1>1. ASSUME HInv, Next PROVE \A a \in Participants : Final(a)
  <2>1. PICK p \in Participants, t \in ExecutionStates : EndSteps(p, t)
    BY <1>1, BothShapes
  <2>2. Steps(p, t)
    BY <2>1 DEF EndSteps
  <2>3. st'[p] = t /\ \A a \in Participants : a # p => st'[a] = st[a]
    BY <2>2, StepFacts
  <2>4. IsTerminal(st[p]) => t.log = st[p].log /\ t.stop = st[p].stop
    BY <2>2, <2>3, HeardStays
  <2>5. IsTerminal(st[p]) =>
          /\ t.status \in {st[p].status, PublishReceipt(st[p]).status}
          /\ t.unconfirmed \subseteq st[p].unconfirmed
    BY <2>1, EndsStep
  <2> QED  BY <2>3, <2>4, <2>5
<1>2. ASSUME HInv, [Next]_vars
      PROVE  [\A p \in Participants : Final(p)]_vars
  BY <1>1, <1>2
<1>3. Spec => [][\A p \in Participants : Final(p)]_vars
  BY <1>2, HandshakeInvariance, PTL DEF Spec
<1> QED  BY <1>3 DEF ConclusionIsFinal

=============================================================================
