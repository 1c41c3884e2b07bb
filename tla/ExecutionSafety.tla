--------------------------- MODULE ExecutionSafety ---------------------------
(***************************************************************************)
(* The agreement theorems of Execution, for any ensemble, any program and  *)
(* any number of crashes, timeouts, stops and expired windows. They rest   *)
(* on SignedWordHolds, which is inductive together with TypeInv; the last  *)
(* one, about the order of a participant's broadcasts, on OrderInv.        *)
(***************************************************************************)
EXTENDS ExecutionProofs

IInv == TypeInv /\ SignedWordHolds

-----------------------------------------------------------------------------
(* The seven moves have five effects.                                      *)

\* A signature of the staged step by q is recorded, and others are missing.
Collects(p, t) ==
  LET s == st[p] IN
  /\ Unsettled(p)
  /\ t.log = s.log /\ t.cert = s.cert /\ t.stop = s.stop
  /\ IsTerminal(t) <=> IsTerminal(s)
  /\ t.proposal # None /\ t.proposal.entry = s.proposal.entry
  /\ \E q \in Participants :
       /\ t.proposal.signatures = s.proposal.signatures \cup {q}
       /\ ProposalCommitment(s) \in signed'[q]
       /\ signed' # signed => q = p

\* The staged step, signed by everybody, becomes the last of the trace.
Installs(p, t) ==
  LET s == st[p] IN
  /\ Unsettled(p)
  /\ t.log = Append(s.log, s.proposal.entry)
  /\ t.cert = ProposalCommitment(s)
  /\ t.proposal = None /\ t.stop = s.stop
  /\ IsTerminal(t) <=> s.proposal.entry.terminal # "None"
  /\ \A r \in Participants : ProposalCommitment(s) \in signed'[r]

\* The execution stops where it is, by itself or after a peer that has.
Halts(p, t) ==
  LET s == st[p] IN
  /\ ~IsTerminal(s) /\ IsTerminal(t)
  /\ t.log = s.log /\ t.cert = s.cert /\ t.proposal = None
  /\ t.stop \in Occurrence /\ t.stop.cursor = s.log
  /\ \/ t.stop.sender = p /\ ~HasSigned(s, p)
     \/ t.stop.sender # p /\ st[t.stop.sender].stop = t.stop
  /\ UNCHANGED signed

Effect(p, t) ==
  \/ Quiet(st[p], t) /\ UNCHANGED signed
  \/ Stages(p, t) \/ Collects(p, t) \/ Installs(p, t) \/ Halts(p, t)

\* The step signatures given so far, and the one a step may add.
SignedGrows(p) ==
  \/ UNCHANGED signed
  \/ /\ Unsettled(p) /\ ~HasSigned(st[p], p)
     /\ signed' = [signed EXCEPT ![p] = @ \cup {ProposalCommitment(st[p])}]

\* FramesHold, in terms of frames in flight.
LEMMA InFlightGenuine ==
  ASSUME FramesHold, NEW p \in Participants, NEW f, InFlight(p, f)
  PROVE  Genuine(p, f)
BY DEF FramesHold, InFlight

LEMMA GrowthFacts ==
  ASSUME TypeInv, NEW p \in Participants, SignedGrows(p)
  PROVE  /\ \A a \in Participants : signed[a] \subseteq signed'[a]
         /\ \A a \in Participants : a # p => signed'[a] = signed[a]
         /\ \A c \in signed'[p] : c \in signed[p] \/
              ( /\ c = ProposalCommitment(st[p]) /\ signed' # signed
                /\ Unsettled(p) /\ ~HasSigned(st[p], p))
<1>1. signed \in [Participants -> SUBSET Commitment]
  BY TypeFacts
<1> QED  BY <1>1 DEF SignedGrows

\* An execution with no stop of its own gives nobody else one.
LEMMA RunningHasNoStop ==
  ASSUME StopsHold, NEW p \in Participants, ~IsTerminal(st[p])
  PROVE  st[p].stop = None /\ \A a \in Participants :
           st[a].stop # None => st[a].stop.sender # p
BY DEF StopsHold

LEMMA MoveEffects ==
  ASSUME IInv, NEW p \in Participants, NEW t \in ExecutionStates, Moves(p, t)
  PROVE  Effect(p, t) /\ SignedGrows(p)
<1>1. /\ st[p] \in ExecutionStates
      /\ signed \in [Participants -> SUBSET Commitment]
  BY TypeFacts DEF IInv
<1>2. CASE Quiet(st[p], t) /\ UNCHANGED signed
  BY <1>2 DEF Effect, SignedGrows
<1>3. CASE Stages(p, t)
  BY <1>3 DEF Effect, SignedGrows, Stages
<1>4. ASSUME NEW q \in Participants, Unsettled(p), SignedGrows(p),
             t = AddStepSignature(st[p], p, q),
             ProposalCommitment(st[p]) \in signed'[q],
             signed' # signed => q = p
      PROVE  Effect(p, t)
  <2>1. st[p].proposal # None /\ ~IsTerminal(st[p])
    BY <1>4 DEF Unsettled
  <2>2. CASE /\ st[p].proposal.signatures \cup {q} = Participants
             /\ t = InstallCertified(st[p], p)
    <3>1. ASSUME NEW r \in Participants
          PROVE  ProposalCommitment(st[p]) \in signed'[r]
      <4>1. r \in st[p].proposal.signatures =>
              ProposalCommitment(st[p]) \in signed[r]
        BY <2>1 DEF IInv, SignedWordHolds, ProposalsHold
      <4>2. signed[r] \subseteq signed'[r]
        BY <1>4, GrowthFacts DEF IInv
      <4> QED  BY <1>4, <2>2, <4>1, <4>2
    <3>2. Installs(p, t)
      BY <1>1, <1>4, <2>1, <2>2, <3>1, InstallCertifiedEffect DEF Installs
    <3> QED  BY <3>2 DEF Effect
  <2>3. CASE /\ t.log = st[p].log /\ t.cert = st[p].cert
             /\ t.stop = st[p].stop /\ t.status = st[p].status
             /\ t.proposal # None
             /\ t.proposal.entry = st[p].proposal.entry
             /\ t.proposal.signatures = st[p].proposal.signatures \cup {q}
    BY <1>4, <2>3 DEF Effect, Collects, IsTerminal
  <2> QED  BY <1>1, <1>4, <2>1, <2>2, <2>3, AddStepSignatureEffect
<1>5. CASE Signs(p, t)
  <2>1. SignedGrows(p) /\ Unsettled(p)
    BY <1>5 DEF Signs, SignedGrows
  <2>2. ProposalCommitment(st[p]) \in signed'[p]
    BY <1>1, <1>5 DEF Signs
  <2> QED  BY <1>4, <1>5, <2>1, <2>2 DEF Signs
<1>6. CASE Counts(p, t)
  <2>1. PICK q \in Participants, f \in ExecFrame :
          /\ InFlight(q, f) /\ f.type = "StepSignature"
          /\ f.commitment = ProposalCommitment(st[p])
          /\ t = AddStepSignature(st[p], p, q)
    BY <1>6 DEF Counts
  <2>2. ProposalCommitment(st[p]) \in signed[q]
    BY <2>1, InFlightGenuine DEF Genuine, IInv, SignedWordHolds
  <2>3. SignedGrows(p) /\ Unsettled(p) /\ signed' = signed
    BY <1>6 DEF Counts, SignedGrows
  <2> QED  BY <1>4, <2>1, <2>2, <2>3
<1>7. CASE Certifies(p, t)
  <2>1. PICK q \in Participants, f \in ExecFrame :
          /\ InFlight(q, f) /\ f.type = "StepCertificate"
          /\ f.commitment = ProposalCommitment(st[p])
    BY <1>7 DEF Certifies
  <2>2. \A r \in Participants : ProposalCommitment(st[p]) \in signed[r]
    BY <2>1, InFlightGenuine DEF Genuine, IInv, SignedWordHolds
  <2>3. /\ Unsettled(p) /\ st[p].proposal # None /\ signed' = signed
        /\ t = InstallCertified(st[p], p)
    BY <1>7 DEF Certifies, Unsettled
  <2>4. Installs(p, t)
    BY <1>1, <2>2, <2>3, InstallCertifiedEffect DEF Installs
  <2> QED  BY <2>3, <2>4 DEF Effect, SignedGrows
<1>8. CASE StopsItself(p, t)
  <2>1. PICK occ \in Occurrence : /\ occ.sender = p /\ occ.cursor = st[p].log
                                  /\ t = Stop(st[p], p, occ)
    BY <1>8 DEF StopsItself
  <2>2. ~IsTerminal(st[p]) /\ ~HasSigned(st[p], p) /\ UNCHANGED signed
    BY <1>8 DEF StopsItself, MayStop
  <2>3. Halts(p, t)
    BY <1>1, <2>1, <2>2, StopEffect DEF Halts
  <2> QED  BY <2>2, <2>3 DEF Effect, SignedGrows
<1>9. CASE Adopts(p, t)
  <2>1. PICK q \in Participants, f \in ExecFrame :
          /\ InFlight(q, f) /\ f.type = "Abort"
          /\ f.occurrence.cursor = st[p].log
          /\ t = Stop(st[p], p, f.occurrence)
    BY <1>9 DEF Adopts
  <2>2. ~IsTerminal(st[p]) /\ UNCHANGED signed
    BY <1>9 DEF Adopts
  <2>3. f.occurrence \in Occurrence /\ st[f.occurrence.sender].stop = f.occurrence
    BY <2>1, InFlightGenuine, AbortOccurrence DEF Genuine, IInv, SignedWordHolds
  <2>4. f.occurrence.sender # p
    BY <2>2, <2>3, RunningHasNoStop, NoneAssumption DEF IInv, SignedWordHolds
  <2>5. Halts(p, t)
    BY <1>1, <2>1, <2>2, <2>3, <2>4, StopEffect DEF Halts
  <2> QED  BY <2>2, <2>5 DEF Effect, SignedGrows
<1> QED  BY <1>2, <1>3, <1>5, <1>6, <1>7, <1>8, <1>9 DEF Moves

-----------------------------------------------------------------------------
(* Each conjunct of SignedWordHolds is preserved.                          *)

Steps(p, t) ==
  /\ IInv /\ t \in ExecutionStates /\ st' = [st EXCEPT ![p] = t]
  /\ Effect(p, t) /\ SignedGrows(p)

LEMMA StepFacts ==
  ASSUME NEW p \in Participants, NEW t, Steps(p, t)
  PROVE  /\ st'[p] = t /\ t \in ExecutionStates
         /\ \A a \in Participants : a # p => st'[a] = st[a]
         /\ \A a \in Participants : st[a] \in ExecutionStates
         /\ \A a \in Participants : signed[a] \subseteq signed'[a]
         /\ \A a \in Participants : a # p => signed'[a] = signed[a]
<1>1. st \in [Participants -> ExecutionStates]
  BY DEF Steps, IInv, TypeInv, TypeOK
<1> QED  BY <1>1, GrowthFacts DEF Steps, IInv

\* While p runs, what it signed is in its trace or is its staged step.
LEMMA RunningSignatures ==
  ASSUME SignaturesHold, StopsHold, NEW p \in Participants, ~IsTerminal(st[p]),
         NEW c \in signed[p]
  PROVE  \/ Includes(st[p].log, c)
         \/ HasSigned(st[p], p) /\ ProposalCommitment(st[p]) = c
BY DEF SignaturesHold, StopsHold

\* Containment in a longer trace.
LEMMA IncludesAppend ==
  ASSUME NEW log \in Seq(Entry), NEW c \in Commitment, NEW e \in Entry
  PROVE  /\ Includes(log, c) => Includes(Append(log, e), c)
         /\ c.prefix = log /\ c.entry = e => Includes(Append(log, e), c)
<1>1. c.prefix \in Seq(Entry) /\ c.entry \in Entry
  BY DEF Commitment
<1>2. /\ Len(Append(log, e)) = Len(log) + 1
      /\ \A i \in 1..Len(log) : Append(log, e)[i] = log[i]
      /\ Append(log, e)[Len(log) + 1] = e
  BY AppendProperties
<1>3. Len(log) \in Nat /\ DOMAIN log = 1..Len(log)
  BY LenProperties
<1>4. Len(c.prefix) \in Nat /\ DOMAIN c.prefix = 1..Len(c.prefix)
  BY <1>1, LenProperties
<1> DEFINE longer == Append(log, e)
<1> HIDE DEF longer
<1>5. Includes(log, c) => Includes(longer, c)
  BY <1>1, <1>2, <1>3, <1>4 DEF Includes, longer
<1>6. c.prefix = log /\ c.entry = e => Includes(longer, c)
  BY <1>2, <1>3 DEF Includes, longer
<1> QED  BY <1>5, <1>6 DEF longer

LEMMA SignaturesStep ==
  ASSUME NEW p \in Participants, NEW t, Steps(p, t)
  PROVE  SignaturesHold'
<1> DEFINE Held(s, a, c) ==
      \/ Includes(s.log, c)
      \/ /\ c.prefix = s.log
         /\ \/ HasSigned(s, a) /\ ProposalCommitment(s) = c
            \/ s.stop # None /\ s.stop.sender # a
<1>1. /\ st'[p] = t /\ t \in ExecutionStates /\ st[p] \in ExecutionStates
      /\ \A a \in Participants : a # p => st'[a] = st[a] /\ signed'[a] = signed[a]
  BY StepFacts
<1>2. /\ SignaturesHold /\ StopsHold /\ TypeInv
  BY DEF Steps, IInv, SignedWordHolds
<1>3. \A a \in Participants : \A c \in signed[a] : Held(st[a], a, c)
  BY <1>2 DEF SignaturesHold
<1>4. ASSUME NEW c \in signed'[p] PROVE Held(t, p, c)
  <2>1. \/ c \in signed[p]
        \/ /\ c = ProposalCommitment(st[p]) /\ signed' # signed
           /\ Unsettled(p) /\ ~HasSigned(st[p], p)
    BY <1>2, GrowthFacts DEF Steps
  <2>2. CASE Quiet(st[p], t) /\ UNCHANGED signed
    BY <1>3, <2>2 DEF Quiet, HasSigned, ProposalCommitment
  <2>3. CASE Stages(p, t)
    <3>1. c \in signed[p] /\ ~HasSigned(st[p], p) /\ ~IsTerminal(st[p])
      BY <2>3 DEF Stages, HasSigned
    <3>2. Includes(st[p].log, c)
      BY <1>2, <3>1, RunningSignatures
    <3> QED  BY <2>3, <3>2 DEF Stages
  <2>4. CASE Collects(p, t)
    <3>1. PICK q \in Participants :
            /\ t.proposal.signatures = st[p].proposal.signatures \cup {q}
            /\ signed' # signed => q = p
      BY <2>4 DEF Collects
    <3>2. /\ t.log = st[p].log /\ t.proposal # None /\ ~IsTerminal(st[p])
          /\ ProposalCommitment(t) = ProposalCommitment(st[p])
      BY <2>4 DEF Collects, Unsettled, ProposalCommitment
    <3>3. CASE c \in signed[p]
      <4>1. CASE Includes(st[p].log, c)
        BY <3>2, <4>1
      <4>2. CASE HasSigned(st[p], p) /\ ProposalCommitment(st[p]) = c
        BY <3>1, <3>2, <4>2 DEF HasSigned, ProposalCommitment
      <4> QED  BY <1>2, <3>2, <3>3, <4>1, <4>2, RunningSignatures
    <3>4. CASE c = ProposalCommitment(st[p]) /\ signed' # signed
      BY <3>1, <3>2, <3>4 DEF HasSigned, ProposalCommitment
    <3> QED  BY <2>1, <3>3, <3>4
  <2>5. CASE Installs(p, t)
    <3>1. /\ t.log = Append(st[p].log, st[p].proposal.entry)
          /\ Unsettled(p) /\ ~IsTerminal(st[p]) /\ st[p].proposal # None
      BY <2>5 DEF Installs, Unsettled
    <3>2. ProposalCommitment(st[p]) \in Commitment /\ st[p].proposal \in Proposal
      BY <1>1, <3>1, CommitmentType
    <3>3. /\ c \in Commitment
          /\ st[p].log \in Seq(Entry) /\ st[p].proposal.entry \in Entry
      BY <1>1, <1>2, <2>1, <3>2, TypeFacts DEF ExecutionStates, Proposal
    <3>4. Includes(st[p].log, c) \/ c = ProposalCommitment(st[p])
      BY <1>2, <2>1, <3>1, RunningSignatures
    <3>5. Includes(t.log, c)
      BY <3>1, <3>3, <3>4, IncludesAppend DEF ProposalCommitment
    <3> QED  BY <3>5
  <2>6. CASE Halts(p, t)
    <3>1. c \in signed[p] /\ ~IsTerminal(st[p]) /\ t.log = st[p].log
      BY <2>6 DEF Halts
    <3>2. CASE t.stop.sender = p /\ ~HasSigned(st[p], p)
      BY <1>2, <3>1, <3>2, RunningSignatures
    <3>3. CASE t.stop.sender # p
      BY <1>3, <2>6, <3>1, <3>3, NoneAssumption DEF Halts, ProposalCommitment
    <3> QED  BY <2>6, <3>2, <3>3 DEF Halts
  <2> QED  BY <2>2, <2>3, <2>4, <2>5, <2>6 DEF Steps, Effect
<1>5. \A a \in Participants : \A c \in signed'[a] : Held(st'[a], a, c)
  BY <1>1, <1>3, <1>4
<1> QED  BY <1>5 DEF SignaturesHold, HasSigned, ProposalCommitment, Includes

LEMMA SignsOnceStep ==
  ASSUME NEW p \in Participants, NEW t, Steps(p, t)
  PROVE  SignsOncePerStep'
<1>1. /\ SignaturesHold /\ StopsHold /\ TypeInv /\ SignsOncePerStep
      /\ SignedGrows(p)
  BY DEF Steps, IInv, SignedWordHolds
<1>2. ASSUME NEW c \in signed[p], Unsettled(p), ~HasSigned(st[p], p)
      PROVE  Len(c.prefix) # Len(ProposalCommitment(st[p]).prefix)
  <2>1. Includes(st[p].log, c)
    BY <1>1, <1>2, RunningSignatures DEF Unsettled
  <2>2. Len(c.prefix) \in Nat /\ Len(st[p].log) \in Nat
    BY <1>1, TypeFacts, LenProperties DEF Commitment, ExecutionStates
  <2> QED  BY <2>1, <2>2 DEF Includes, ProposalCommitment
<1>3. ASSUME NEW a \in Participants, NEW c \in signed'[a], NEW d \in signed'[a],
             Len(c.prefix) = Len(d.prefix)
      PROVE  c = d
  <2>1. CASE c \in signed[a] /\ d \in signed[a]
    BY <1>1, <1>3, <2>1 DEF SignsOncePerStep
  <2>2. CASE ~(c \in signed[a] /\ d \in signed[a])
    <3>1. a = p
      BY <1>1, <2>2, GrowthFacts
    <3> QED  BY <1>1, <1>2, <1>3, <2>2, <3>1, GrowthFacts
  <2> QED  BY <2>1, <2>2
<1> QED  BY <1>3 DEF SignsOncePerStep

LEMMA ProposalsStep ==
  ASSUME NEW p \in Participants, NEW t, Steps(p, t)
  PROVE  ProposalsHold'
<1> DEFINE Held(s, w) ==
      s.proposal # None =>
        /\ ~IsTerminal(s)
        /\ \A q \in s.proposal.signatures : ProposalCommitment(s) \in w[q]
<1>1. /\ st'[p] = t
      /\ \A a \in Participants : a # p => st'[a] = st[a]
      /\ \A a \in Participants : signed[a] \subseteq signed'[a]
      /\ \A a \in Participants : st[a] \in ExecutionStates
  BY StepFacts
<1>2. \A a \in Participants : Held(st[a], signed)
  BY DEF Steps, IInv, SignedWordHolds, ProposalsHold
<1>3. \A a \in Participants : st[a].proposal # None =>
        st[a].proposal.signatures \subseteq Participants
  BY <1>1, CommitmentType DEF Proposal
<1>4. \A a \in Participants : Held(st[a], signed')
  BY <1>1, <1>2, <1>3
<1>5. Held(t, signed')
  <2>1. CASE Quiet(st[p], t)
    BY <1>4, <2>1 DEF Quiet, ProposalCommitment
  <2>2. CASE Stages(p, t)
    BY <2>2 DEF Stages
  <2>3. CASE Collects(p, t)
    BY <1>4, <2>3 DEF Collects, Unsettled, ProposalCommitment
  <2>4. CASE Installs(p, t) \/ Halts(p, t)
    BY <2>4 DEF Installs, Halts
  <2> QED  BY <2>1, <2>2, <2>3, <2>4 DEF Steps, Effect
<1>6. \A a \in Participants : Held(st'[a], signed')
  BY <1>1, <1>4, <1>5
<1> QED  BY <1>6 DEF ProposalsHold, IsTerminal, ProposalCommitment

LEMMA CertificatesStep ==
  ASSUME NEW p \in Participants, NEW t, Steps(p, t)
  PROVE  CertificatesHold'
<1> DEFINE Held(s, w) ==
      \/ s.cert = None /\ s.log = <<>>
      \/ /\ s.cert # None /\ s.log = Append(s.cert.prefix, s.cert.entry)
         /\ \A r \in Participants : s.cert \in w[r]
<1>1. /\ st'[p] = t
      /\ \A a \in Participants : a # p => st'[a] = st[a]
      /\ \A a \in Participants : signed[a] \subseteq signed'[a]
      /\ st[p] \in ExecutionStates
  BY StepFacts
<1>2. \A a \in Participants : Held(st[a], signed)
  BY DEF Steps, IInv, SignedWordHolds, CertificatesHold
<1>3. \A a \in Participants : Held(st[a], signed')
  BY <1>1, <1>2
<1>4. Held(t, signed')
  <2>1. CASE t.log = st[p].log /\ t.cert = st[p].cert
    BY <1>3, <2>1
  <2>2. CASE Installs(p, t)
    <3>1. ProposalCommitment(st[p]) # None
      BY <1>1, <2>2, CommitmentType DEF Installs, Unsettled
    <3> QED  BY <2>2, <3>1 DEF Installs, ProposalCommitment
  <2> QED  BY <2>1, <2>2 DEF Steps, Effect, Quiet, Stages, Collects, Halts
<1>5. \A a \in Participants : Held(st'[a], signed')
  BY <1>1, <1>3, <1>4
<1> QED  BY <1>5 DEF CertificatesHold

\* A recorded stop stays.
LEMMA StopsStay ==
  ASSUME NEW p \in Participants, NEW t, Steps(p, t), NEW a \in Participants,
         st[a].stop # None
  PROVE  st'[a].stop = st[a].stop
<1>1. st'[p] = t /\ (a # p => st'[a] = st[a])
  BY StepFacts
<1>2. a = p => IsTerminal(st[p])
  BY DEF Steps, IInv, SignedWordHolds, StopsHold
<1>3. a = p => t.stop = st[p].stop
  BY <1>2 DEF Steps, Effect, Quiet, Stages, Collects, Installs, Halts, Unsettled
<1> QED  BY <1>1, <1>3

LEMMA StopsStep ==
  ASSUME NEW p \in Participants, NEW t, Steps(p, t)
  PROVE  StopsHold'
<1>1. /\ st'[p] = t /\ t \in ExecutionStates
      /\ \A a \in Participants : a # p => st'[a] = st[a]
      /\ \A a \in Participants : st[a] \in ExecutionStates
  BY StepFacts
<1>2. StopsHold
  BY DEF Steps, IInv, SignedWordHolds
<1>3. ASSUME NEW a \in Participants, st'[a].stop # None
      PROVE  /\ IsTerminal(st'[a])
             /\ st'[a].stop.cursor = st'[a].log
             /\ st'[st'[a].stop.sender].stop = st'[a].stop
  <2>1. CASE st[a].stop # None
    <3>1. st'[a].stop = st[a].stop
      BY <2>1, StopsStay
    <3>2. /\ IsTerminal(st[a]) /\ st[a].stop.cursor = st[a].log
          /\ st[st[a].stop.sender].stop = st[a].stop
      BY <1>2, <2>1 DEF StopsHold
    <3>3. st[a].stop.sender \in Participants
      BY <1>1, <2>1 DEF ExecutionStates, Occurrence
    <3>4. st'[st[a].stop.sender].stop = st[a].stop
      BY <2>1, <3>2, <3>3, StopsStay
    <3>5. a = p => Quiet(st[p], t)
      BY <3>2 DEF Steps, Effect, Stages, Collects, Installs, Halts, Unsettled
    <3>6. IsTerminal(st'[a]) /\ st'[a].log = st[a].log
      BY <1>1, <3>2, <3>5 DEF Quiet
    <3> QED  BY <3>1, <3>2, <3>4, <3>6
  <2>2. CASE st[a].stop = None
    <3>1. a = p /\ Halts(p, t)
      BY <1>1, <1>3, <2>2
         DEF Steps, Effect, Quiet, Stages, Collects, Installs
    <3>2. IsTerminal(t) /\ t.stop.cursor = t.log /\ t.stop \in Occurrence
      BY <3>1 DEF Halts
    <3>3. CASE t.stop.sender = p
      BY <1>1, <3>1, <3>2, <3>3
    <3>4. CASE t.stop.sender # p
      <4>1. st[t.stop.sender].stop = t.stop /\ t.stop.sender \in Participants
        BY <3>1, <3>2, <3>4 DEF Halts, Occurrence
      <4> QED  BY <1>1, <3>1, <3>2, <3>4, <4>1
    <3> QED  BY <3>3, <3>4
  <2> QED  BY <2>1, <2>2
<1> QED  BY <1>3 DEF StopsHold, IsTerminal

LEMMA EndingsStep ==
  ASSUME NEW p \in Participants, NEW t, Steps(p, t)
  PROVE  EndingsHold'
<1> DEFINE Held(s) == (IsTerminal(s) /\ s.stop = None) <=>
                        (s.log # <<>> /\ s.log[Len(s.log)].terminal # "None")
<1>1. /\ st'[p] = t /\ st[p] \in ExecutionStates
      /\ \A a \in Participants : a # p => st'[a] = st[a]
  BY StepFacts
<1>2. \A a \in Participants : Held(st[a])
  BY DEF Steps, IInv, SignedWordHolds, EndingsHold
<1>3. Held(t)
  <2>1. CASE Quiet(st[p], t) \/ Collects(p, t) \/ Stages(p, t)
    BY <1>2, <2>1 DEF Quiet, Collects, Stages
  <2>2. CASE Halts(p, t)
    BY <1>2, <2>2, NoneAssumption DEF Halts
  <2>3. CASE Installs(p, t)
    <3>1. /\ st[p].log \in Seq(Entry) /\ st[p].proposal \in Proposal
          /\ st[p].stop = None
      BY <1>1, <2>3, CommitmentType, RunningHasNoStop
         DEF Installs, Unsettled, ExecutionStates, Steps, IInv, SignedWordHolds
    <3>2. st[p].proposal.entry \in Entry
      BY <3>1 DEF Proposal
    <3>3. t.log # <<>> /\ t.log[Len(t.log)] = st[p].proposal.entry
      <4>1. t.log = Append(st[p].log, st[p].proposal.entry)
        BY <2>3 DEF Installs
      <4> QED  BY <3>1, <3>2, <4>1, AppendProperties
    <3> QED  BY <2>3, <3>1, <3>3 DEF Installs
  <2> QED  BY <2>1, <2>2, <2>3 DEF Steps, Effect
<1>4. \A a \in Participants : Held(st'[a])
  BY <1>1, <1>2, <1>3
<1> QED  BY <1>4 DEF EndingsHold, IsTerminal

LEMMA FramesStep ==
  ASSUME NEW p \in Participants, NEW t, Steps(p, t), Launches(p, Owed(t, p)),
         ProposalsHold', CertificatesHold', StopsHold'
  PROVE  FramesHold'
<1>1. /\ st'[p] = t /\ t \in ExecutionStates
      /\ \A a \in Participants : signed[a] \subseteq signed'[a]
  BY StepFacts
<1>2. ASSUME NEW a \in Participants, NEW f \in ExecFrame, InFlight(a, f)
      PROVE  Genuine(a, f)'
  <2>1. Genuine(a, f)
    BY <1>2, InFlightGenuine DEF Steps, IInv, SignedWordHolds
  <2>2. ASSUME f.type = "Abort"
        PROVE  st'[f.occurrence.sender].stop = f.occurrence
    <3>1. f.occurrence \in Occurrence /\ f.occurrence # None
      BY <2>2, AbortOccurrence, NoneAssumption
    <3>2. f.occurrence.sender \in Participants
      BY <3>1 DEF Occurrence
    <3> QED  BY <2>1, <2>2, <3>1, <3>2, StopsStay DEF Genuine
  <2> QED  BY <1>1, <2>1, <2>2 DEF Genuine
<1>3. ASSUME NEW f \in Owed(t, p) PROVE Genuine(p, f)'
  <2>1. CASE t.stop # None /\ f = [type |-> "Abort", occurrence |-> t.stop]
    BY <1>1, <2>1 DEF Genuine, StopsHold
  <2>2. CASE t.cert # None /\ f = Frame("StepCertificate", t.cert)
    BY <1>1, <2>2 DEF Genuine, CertificatesHold, Frame
  <2>3. CASE f = Frame("Message", ProposalCommitment(t))
    BY <2>3 DEF Genuine, Frame
  <2>4. CASE HasSigned(t, p) /\ f = Frame("StepSignature", ProposalCommitment(t))
    <3>1. ProposalCommitment(t) \in signed'[p]
      BY <1>1, <2>4 DEF ProposalsHold, HasSigned, ProposalCommitment
    <3> QED  BY <2>4, <3>1 DEF Genuine, Frame
  <2> QED  BY <2>1, <2>2, <2>3, <2>4 DEF Owed
<1>4. ASSUME NEW a \in Participants, NEW f \in ExecFrame, InFlight(a, f)'
      PROVE  Genuine(a, f)'
  BY <1>2, <1>3, <1>4 DEF Launches
<1>5. WellTypedLanes'
  BY DEF Launches
<1>6. ASSUME NEW a \in Participants, NEW q \in Participants,
             lanes'[a][q].send # None
      PROVE  Genuine(a, lanes[a][q].send.frame)'
  <2>1. lanes'[a][q] \in Lane
    BY <1>5 DEF WellTypedLanes
  <2>2. lanes'[a][q].send.frame \in ExecFrame
    BY <1>6, <2>1 DEF Lane
  <2>3. InFlight(a, lanes[a][q].send.frame)'
    BY <1>6 DEF InFlight
  <2>4. \A g \in ExecFrame : InFlight(a, g)' => Genuine(a, g)'
    BY <1>4
  <2> QED  BY <2>2, <2>3, <2>4 DEF InFlight, Genuine
<1>7. ASSUME NEW m \in late' PROVE Genuine(m.source, m.frame)'
  <2>1. m.source \in Participants /\ m.frame \in ExecFrame
    BY <1>5 DEF WellTypedLanes, Transits
  <2>2. InFlight(m.source, m.frame)'
    BY DEF InFlight
  <2> QED  BY <1>4, <2>1, <2>2
<1> QED  BY <1>6, <1>7 DEF FramesHold

LEMMA InvariantInit ==
  ASSUME Init
  PROVE  IInv
<1>1. TypeInv
  BY InitType
<1>2. \A p \in Participants :
        /\ st[p] = NewExecution /\ signed[p] = {}
        /\ \A q \in Participants : lanes[p][q] = NewLane
  BY DEF Init
<1>3. /\ NewExecution.proposal = None /\ NewExecution.stop = None
      /\ NewExecution.cert = None /\ NewExecution.log = <<>>
      /\ ~IsTerminal(NewExecution) /\ NewLane.send = None /\ late = {}
  BY DEF NewExecution, NewLane, Init, IsTerminal
<1>4. SignaturesHold /\ SignsOncePerStep /\ ProposalsHold /\ FramesHold
  BY <1>2, <1>3 DEF SignaturesHold, SignsOncePerStep, ProposalsHold, FramesHold
<1>5. CertificatesHold /\ StopsHold /\ EndingsHold
  BY <1>2, <1>3 DEF CertificatesHold, StopsHold, EndingsHold
<1> QED  BY <1>1, <1>4, <1>5 DEF IInv, SignedWordHolds

LEMMA InvariantStep ==
  ASSUME IInv, Next
  PROVE  IInv'
<1>1. PICK p \in Participants : Shape(p)
  BY StepShape DEF IInv
<1>2. PICK t \in ExecutionStates :
        st' = [st EXCEPT ![p] = t] /\ Moves(p, t) /\ Launches(p, Owed(t, p))
  BY <1>1 DEF Shape
<1>3. Steps(p, t)
  BY <1>2, MoveEffects DEF Steps
<1>4. TypeInv'
  BY <1>1, ShapeType DEF IInv
<1>5. ProposalsHold' /\ CertificatesHold' /\ StopsHold'
  BY <1>3, ProposalsStep, CertificatesStep, StopsStep
<1>6. SignaturesHold' /\ SignsOncePerStep' /\ EndingsHold' /\ FramesHold'
  BY <1>2, <1>3, <1>5, SignaturesStep, SignsOnceStep, EndingsStep, FramesStep
<1> QED  BY <1>4, <1>5, <1>6 DEF IInv, SignedWordHolds

LEMMA InvariantStutter ==
  ASSUME IInv, UNCHANGED vars
  PROVE  IInv'
<1>1. TypeInv'
  BY StutterType DEF IInv
<1>2. st' = st /\ lanes' = lanes /\ late' = late /\ signed' = signed
  BY DEF vars
<1>3. SignaturesHold' /\ SignsOncePerStep'
  <2>1. SignaturesHold /\ SignsOncePerStep
    BY DEF IInv, SignedWordHolds
  <2> QED  BY <1>2, <2>1 DEF SignaturesHold, SignsOncePerStep, Includes,
                HasSigned, ProposalCommitment
<1>4. ProposalsHold' /\ CertificatesHold'
  <2>1. ProposalsHold /\ CertificatesHold
    BY DEF IInv, SignedWordHolds
  <2> QED  BY <1>2, <2>1 DEF ProposalsHold, CertificatesHold,
                ProposalCommitment, IsTerminal
<1>5. StopsHold' /\ EndingsHold'
  <2>1. StopsHold /\ EndingsHold
    BY DEF IInv, SignedWordHolds
  <2> QED  BY <1>2, <2>1 DEF StopsHold, EndingsHold, IsTerminal
<1>6. FramesHold'
  <2>1. FramesHold
    BY DEF IInv, SignedWordHolds
  <2> QED  BY <1>2, <2>1 DEF FramesHold, Genuine
<1>7. SignedWordHolds'
  BY <1>3, <1>4, <1>5, <1>6 DEF SignedWordHolds
<1> QED  BY <1>1, <1>7 DEF IInv

LEMMA Invariance == Spec => []IInv
<1>1. Init => IInv
  BY InvariantInit
<1>2. IInv /\ [Next]_vars => IInv'
  BY InvariantStep, InvariantStutter
<1> QED  BY <1>1, <1>2, PTL DEF Spec

-----------------------------------------------------------------------------
(* The theorems.                                                           *)

\* Whoever has a certificate has a step that q signed, so q has it in its
\* trace, or is exactly that step behind.
LEMMA CertificateReach ==
  ASSUME IInv, NEW p \in Participants, NEW q \in Participants,
         st[p].log # <<>>
  PROVE  /\ st[p].cert \in Commitment /\ st[p].cert \in signed[q]
         /\ st[p].log = Append(st[p].cert.prefix, st[p].cert.entry)
         /\ Len(st[p].log) = Len(st[p].cert.prefix) + 1
         /\ \/ /\ Len(st[p].log) <= Len(st[q].log)
               /\ \A i \in DOMAIN st[p].log : st[q].log[i] = st[p].log[i]
            \/ /\ st[q].log = st[p].cert.prefix
               /\ \A i \in DOMAIN st[q].log : st[p].log[i] = st[q].log[i]
<1> DEFINE c == st[p].cert
<1>1. st[p].log \in Seq(Entry) /\ st[q].log \in Seq(Entry)
  BY TypeFacts DEF IInv, ExecutionStates
<1>2. c \in signed[q] /\ st[p].log = Append(c.prefix, c.entry)
  BY DEF IInv, SignedWordHolds, CertificatesHold
<1>3. c \in Commitment
  BY <1>2, TypeFacts DEF IInv
<1>4. c.prefix \in Seq(Entry) /\ c.entry \in Entry
  BY <1>3 DEF Commitment
<1>5. /\ Len(st[p].log) = Len(c.prefix) + 1
      /\ \A i \in 1..Len(c.prefix) : st[p].log[i] = c.prefix[i]
      /\ st[p].log[Len(c.prefix) + 1] = c.entry
  BY <1>2, <1>4, AppendProperties, SMTT(30)
<1>6. /\ Len(c.prefix) \in Nat /\ DOMAIN c.prefix = 1..Len(c.prefix)
      /\ Len(st[q].log) \in Nat /\ DOMAIN st[p].log = 1..Len(st[p].log)
  BY <1>1, <1>4, LenProperties
<1>7. Includes(st[q].log, c) \/ c.prefix = st[q].log
  BY <1>2 DEF IInv, SignedWordHolds, SignaturesHold
<1>8. CASE Includes(st[q].log, c)
  <2>1. /\ Len(c.prefix) < Len(st[q].log)
        /\ st[q].log[Len(c.prefix) + 1] = c.entry
        /\ \A i \in 1..Len(c.prefix) : st[q].log[i] = c.prefix[i]
    BY <1>6, <1>8 DEF Includes
  <2>2. \A i \in DOMAIN st[p].log : st[q].log[i] = st[p].log[i]
    <3>1. ASSUME NEW i \in DOMAIN st[p].log PROVE st[q].log[i] = st[p].log[i]
      <4>1. i \in 1..Len(c.prefix) \/ i = Len(c.prefix) + 1
        BY <1>5, <1>6
      <4> QED  BY <1>5, <2>1, <4>1
    <3> QED  BY <3>1
  <2>3. Len(st[p].log) <= Len(st[q].log)
    BY <1>5, <1>6, <2>1
  <2> QED  BY <1>2, <1>3, <1>5, <2>2, <2>3
<1>9. CASE c.prefix = st[q].log
  BY <1>2, <1>3, <1>5, <1>6, <1>9
<1> QED  BY <1>7, <1>8, <1>9

LEMMA TracesAgree ==
  ASSUME IInv
  PROVE  CertifiedTracesAgree
<1>1. SUFFICES ASSUME NEW p \in Participants, NEW q \in Participants,
                      NEW i \in DOMAIN st[p].log \cap DOMAIN st[q].log
               PROVE  st[p].log[i] = st[q].log[i]
  BY DEF CertifiedTracesAgree
<1>2. st[p].log # <<>>
  BY <1>1
<1> QED  BY <1>1, <1>2, CertificateReach

\* A participant that stopped never signed the step after its cursor, unless
\* it stopped after somebody else.
LEMMA StopperUnsigned ==
  ASSUME IInv, NEW r \in Participants, NEW c \in signed[r],
         c.prefix = st[r].log, st[r].stop # None
  PROVE  st[r].stop.sender # r
<1>1. Len(st[r].log) \in Nat
  BY TypeFacts, LenProperties DEF IInv, ExecutionStates
<1>2. ~Includes(st[r].log, c)
  BY <1>1 DEF Includes
<1>3. IsTerminal(st[r])
  BY DEF IInv, SignedWordHolds, StopsHold
<1>4. ~HasSigned(st[r], r)
  BY <1>3 DEF IInv, SignedWordHolds, ProposalsHold, HasSigned
<1> QED  BY <1>2, <1>4 DEF IInv, SignedWordHolds, SignaturesHold

\* Nobody gives up, for a stop, a step that everybody signed.
LEMMA CertifiedNotStopped ==
  ASSUME IInv, NEW c \in Commitment, \A r \in Participants : c \in signed[r],
         NEW q \in Participants, c.prefix = st[q].log
  PROVE  st[q].stop = None
<1>1. SUFFICES ASSUME st[q].stop # None PROVE FALSE
  OBVIOUS
<1> DEFINE r == st[q].stop.sender
<1>2. r \in Participants /\ st[r].stop = st[q].stop /\ st[q].stop.cursor = st[q].log
  BY <1>1, TypeFacts DEF IInv, SignedWordHolds, StopsHold, ExecutionStates, Occurrence
<1>3. st[r].log = c.prefix
  BY <1>1, <1>2 DEF IInv, SignedWordHolds, StopsHold
<1> QED  BY <1>1, <1>2, <1>3, StopperUnsigned

LEMMA Laggard ==
  ASSUME IInv
  PROVE  LaggardHoldsTheStep
<1>1. SUFFICES ASSUME NEW p \in Participants, NEW q \in Participants,
                      Len(st[q].log) < Len(st[p].log)
               PROVE  /\ Len(st[p].log) = Len(st[q].log) + 1
                      /\ ~IsTerminal(st[q])
                      /\ HasSigned(st[q], q)
                      /\ ProposalCommitment(st[q]) = st[p].cert
  BY DEF LaggardHoldsTheStep
<1> DEFINE c == st[p].cert
<1>2. Len(st[q].log) \in Nat /\ Len(st[p].log) \in Nat
  BY TypeFacts, LenProperties DEF IInv, ExecutionStates
<1>3. st[p].log # <<>>
  BY <1>1, <1>2
<1>4. /\ c \in Commitment /\ c.prefix = st[q].log
      /\ Len(st[p].log) = Len(c.prefix) + 1
  BY <1>1, <1>2, <1>3, CertificateReach
<1>5. \A r \in Participants : c \in signed[r]
  BY <1>3, CertificateReach
<1>6. st[q].stop = None
  BY <1>4, <1>5, CertifiedNotStopped
<1>7. ~Includes(st[q].log, c)
  BY <1>2, <1>4 DEF Includes
<1>8. HasSigned(st[q], q) /\ ProposalCommitment(st[q]) = c
  BY <1>5, <1>6, <1>7 DEF IInv, SignedWordHolds, SignaturesHold
<1>9. ~IsTerminal(st[q])
  BY <1>8 DEF IInv, SignedWordHolds, ProposalsHold, HasSigned
<1> QED  BY <1>4, <1>8, <1>9

LEMMA NoStepPast ==
  ASSUME IInv
  PROVE  NoStepPastAStop
<1>1. SUFFICES ASSUME NEW p \in Participants, NEW q \in Participants,
                      st[p].stop # None
               PROVE  Len(st[q].log) <= Len(st[p].log)
  BY DEF NoStepPastAStop
<1>2. IsTerminal(st[p])
  BY <1>1 DEF IInv, SignedWordHolds, StopsHold
<1>3. ~(Len(st[p].log) < Len(st[q].log))
  BY <1>2, Laggard DEF LaggardHoldsTheStep
<1>4. Len(st[q].log) \in Nat /\ Len(st[p].log) \in Nat
  BY TypeFacts, LenProperties DEF IInv, ExecutionStates
<1> QED  BY <1>3, <1>4

LEMMA ConclusionAgreement ==
  ASSUME IInv
  PROVE  ConclusionsAgree
<1>1. SUFFICES ASSUME NEW p \in Participants, NEW q \in Participants,
                      IsTerminal(st[p]), IsTerminal(st[q])
               PROVE  /\ st[p].log = st[q].log
                      /\ (st[p].stop = None) <=> (st[q].stop = None)
  BY DEF ConclusionsAgree
<1>2. st[p].log \in Seq(Entry) /\ st[q].log \in Seq(Entry)
  BY TypeFacts DEF IInv, ExecutionStates
<1>3. Len(st[p].log) = Len(st[q].log)
  <2>1. ~(Len(st[p].log) < Len(st[q].log)) /\ ~(Len(st[q].log) < Len(st[p].log))
    BY <1>1, Laggard DEF LaggardHoldsTheStep
  <2> QED  BY <1>2, <2>1, LenProperties
<1>4. \A i \in 1..Len(st[p].log) : st[p].log[i] = st[q].log[i]
  BY <1>2, <1>3, TracesAgree, LenProperties DEF CertifiedTracesAgree
<1>5. st[p].log = st[q].log
  BY <1>2, <1>3, <1>4, SeqEqual
<1>6. (st[p].stop = None) <=> (st[q].stop = None)
  BY <1>1, <1>5 DEF IInv, SignedWordHolds, EndingsHold
<1> QED  BY <1>5, <1>6

\* The invariant behind all of them: no crash, late or repeated frame, or stop
\* makes a signature, certificate, occurrence or frame say what its signers
\* did not durably do (state.rs persists a signature before it is sent).
THEOREM SignedWord == Spec => []SignedWordHolds
<1>1. IInv => SignedWordHolds
  BY DEF IInv
<1> QED  BY <1>1, Invariance, PTL

\* N-of-N agreement: certified traces (add_step_signature,
\* install_certificate) never disagree on a step.
THEOREM Agreement == Spec => []CertifiedTracesAgree
<1>1. IInv => CertifiedTracesAgree
  BY TracesAgree
<1> QED  BY <1>1, Invariance, PTL

\* A participant signs at most one commitment per step, across crashes
\* (ensure_step_signature signs only the durable staged step).
THEOREM OneSignaturePerStep == Spec => []SignsOncePerStep
<1>1. IInv => SignsOncePerStep
  BY DEF IInv, SignedWordHolds
<1> QED  BY <1>1, Invariance, PTL

\* A stop and the step after it exclude each other, however the stop, the
\* signatures and the certificates race (record_stop refuses a signer).
THEOREM StopsExcludeSteps == Spec => []NoStepPastAStop
<1>1. IInv => NoStepPastAStop
  BY NoStepPast
<1> QED  BY <1>1, Invariance, PTL

\* A peer lags by at most one step, and has it staged and signed, so the last
\* certificate is all that deliver_frames must send again.
THEOREM CertificateSuffices == Spec => []LaggardHoldsTheStep
<1>1. IInv => LaggardHoldsTheStep
  BY Laggard
<1> QED  BY <1>1, Invariance, PTL

\* Executions that end, end alike: same trace, and by its last step or by a
\* unilateral stop at all of them (end_conclusion_matches never differs).
THEOREM OneConclusion == Spec => []ConclusionsAgree
<1>1. IInv => ConclusionsAgree
  BY ConclusionAgreement
<1> QED  BY <1>1, Invariance, PTL

\* A participant leaves a step it signed only by certifying it, or for the
\* stop of one that never signed it (accept_frame's abort case).
THEOREM SignatureIsBinding == Spec => SignatureBinds
<1> DEFINE Binds(p) ==
      HasSigned(st[p], p) /\ ~HasSigned(st'[p], p) =>
        \/ st'[p].log = Append(st[p].log, st[p].proposal.entry)
        \/ /\ st'[p].stop # None
           /\ ProposalCommitment(st[p]) \notin signed[st'[p].stop.sender]
<1>1. ASSUME IInv, Next PROVE \A a \in Participants : Binds(a)
  <2>1. PICK p \in Participants : Shape(p)
    BY <1>1, StepShape DEF IInv
  <2>2. PICK t \in ExecutionStates :
          st' = [st EXCEPT ![p] = t] /\ Moves(p, t)
    BY <2>1 DEF Shape
  <2>3. Steps(p, t)
    BY <1>1, <2>2, MoveEffects DEF Steps
  <2>4. st'[p] = t /\ \A a \in Participants : a # p => st'[a] = st[a]
    BY <2>3, StepFacts
  <2>5. ASSUME HasSigned(st[p], p), ~HasSigned(t, p)
        PROVE  \/ t.log = Append(st[p].log, st[p].proposal.entry)
               \/ /\ t.stop # None
                  /\ ProposalCommitment(st[p]) \notin signed[t.stop.sender]
    <3>1. CASE Installs(p, t)
      BY <3>1 DEF Installs
    <3>2. CASE Halts(p, t)
      <4> DEFINE r == t.stop.sender
      <4>1. /\ r \in Participants /\ t.stop # None /\ r # p
            /\ st[r].stop = t.stop /\ t.stop.cursor = st[p].log
        BY <2>5, <3>2, NoneAssumption DEF Halts, Occurrence
      <4>2. st[r].log = st[p].log
        BY <1>1, <4>1 DEF IInv, SignedWordHolds, StopsHold
      <4>3. ASSUME ProposalCommitment(st[p]) \in signed[r] PROVE FALSE
        BY <1>1, <4>1, <4>2, <4>3, StopperUnsigned DEF ProposalCommitment
      <4> QED  BY <4>1, <4>3
    <3>3. CASE Quiet(st[p], t) \/ Stages(p, t) \/ Collects(p, t)
      BY <2>5, <3>3 DEF Quiet, Stages, Collects, HasSigned
    <3> QED  BY <2>3, <3>1, <3>2, <3>3 DEF Steps, Effect
  <2> QED  BY <2>4, <2>5
<1>2. ASSUME IInv, [Next]_vars
      PROVE  [\A p \in Participants : Binds(p)]_vars
  BY <1>1, <1>2
<1>3. Spec => [][\A p \in Participants : Binds(p)]_vars
  BY <1>2, Invariance, PTL DEF Spec
<1> QED  BY <1>3 DEF SignatureBinds

-----------------------------------------------------------------------------
(* A participant's own broadcasts. The invariant is about the state and    *)
(* about the image its staged step would install.                          *)

Ordered(s, p) ==
  /\ InOrder(p, s.log, s.outgoing, s.local)
  /\ s.proposal # None =>
       InOrder(p, Append(s.log, s.proposal.entry), s.proposal.outgoing,
               s.proposal.local)

OrderInv == TypeInv /\ \A p \in Participants : Ordered(st[p], p)

\* A handler's broadcasts come after everything before them.
LEMMA BroadcastsInOrder ==
  ASSUME NEW p, NEW log \in Seq(Entry), NEW queue \in Seq(Nat),
         NEW s \in ExecutionStates, NEW k \in Nat,
         InOrder(p, log, queue, s.local)
  PROVE  InOrder(p, log, queue \o Broadcasts(s, k), s.local + k)
<1> DEFINE more == Broadcasts(s, k)
           all  == queue \o more
<1>1. s.local \in Nat /\ more \in Seq(Nat) /\ Len(more) = k
  BY BroadcastsType DEF ExecutionStates, Broadcasts
<1>2. \A n \in 1..k : more[n] = s.local + n
  BY DEF Broadcasts
<1> HIDE DEF more
<1>3. /\ all \in Seq(Nat) /\ Len(all) = Len(queue) + k /\ Len(queue) \in Nat
      /\ \A n \in 1..Len(queue) + k :
           all[n] = IF n <= Len(queue) THEN queue[n] ELSE more[n - Len(queue)]
  <2>1. /\ queue \o more \in Seq(Nat)
        /\ Len(queue \o more) = Len(queue) + Len(more)
        /\ \A n \in 1..Len(queue) + Len(more) : (queue \o more)[n] =
             IF n <= Len(queue) THEN queue[n] ELSE more[n - Len(queue)]
    BY <1>1, ConcatProperties, Zenon
  <2>2. Len(queue) \in Nat
    OBVIOUS
  <2> QED  BY <1>1, <2>1, <2>2, Zenon
<1>4. \A n \in DOMAIN all :
        \/ n \in 1..Len(queue) /\ all[n] = queue[n]
        \/ /\ n \in Len(queue) + 1..Len(queue) + k
           /\ all[n] = s.local + (n - Len(queue))
  <2>1. SUFFICES ASSUME NEW n \in DOMAIN all
                 PROVE  \/ n \in 1..Len(queue) /\ all[n] = queue[n]
                        \/ /\ n \in Len(queue) + 1..Len(queue) + k
                           /\ all[n] = s.local + (n - Len(queue))
    OBVIOUS
  <2> HIDE DEF all
  <2>2. n \in 1..Len(queue) + k
    BY <1>3
  <2>3. CASE n <= Len(queue)
    BY <1>3, <2>2, <2>3
  <2>4. CASE ~(n <= Len(queue))
    <3>1. n \in Len(queue) + 1..Len(queue) + k /\ n - Len(queue) \in 1..k
      BY <1>3, <2>2, <2>4
    <3> QED  BY <1>2, <1>3, <2>2, <2>4, <3>1
  <2> QED  BY <2>3, <2>4
<1>5. \A i \in DOMAIN log : log[i].data \in Nat
  <2>1. \A i \in DOMAIN log : log[i] \in Entry
    OBVIOUS
  <2> QED  BY <2>1 DEF Entry
<1> HIDE DEF more, all
<1>6. /\ \A n \in DOMAIN queue : queue[n] \in Nat /\ queue[n] <= s.local
      /\ Len(queue) \in Nat /\ DOMAIN queue = 1..Len(queue)
  BY DEF InOrder
<1>7. IsIncreasing(all)
  <2>1. SUFFICES ASSUME NEW i \in DOMAIN all, NEW j \in DOMAIN all, i < j
                 PROVE  all[i] < all[j]
    BY DEF IsIncreasing
  <2>2. i \in Nat /\ j \in Nat
    BY <1>3
  <2>3. CASE j \in 1..Len(queue) /\ all[j] = queue[j]
    <3>1. i \in 1..Len(queue) /\ all[i] = queue[i]
      BY <1>4, <1>6, <2>1, <2>2, <2>3
    <3>2. IsIncreasing(queue)
      BY DEF InOrder
    <3> QED  BY <1>6, <2>1, <2>3, <3>1, <3>2 DEF IsIncreasing
  <2>4. CASE /\ j \in Len(queue) + 1..Len(queue) + k
             /\ all[j] = s.local + (j - Len(queue))
    <3>1. CASE i \in 1..Len(queue) /\ all[i] = queue[i]
      BY <1>1, <1>6, <2>4, <3>1, SMTT(30)
    <3>2. CASE /\ i \in Len(queue) + 1..Len(queue) + k
               /\ all[i] = s.local + (i - Len(queue))
      BY <1>1, <1>6, <2>1, <2>4, <3>2
    <3> QED  BY <1>4, <3>1, <3>2
  <2> QED  BY <1>4, <2>3, <2>4
<1>8. \A n \in DOMAIN all : all[n] <= s.local + k
  BY <1>1, <1>4, <1>6, SMTT(30)
<1>9. ASSUME NEW i \in DOMAIN log, log[i].from = p
      PROVE  /\ log[i].data <= s.local + k
             /\ \A n \in DOMAIN all : log[i].data < all[n]
  <2>1. log[i].data <= s.local /\ \A n \in DOMAIN queue : log[i].data < queue[n]
    BY <1>9 DEF InOrder
  <2>2. log[i].data \in Nat
    BY <1>5
  <2>3. log[i].data <= s.local + k
    BY <1>1, <2>1, <2>2
  <2>4. ASSUME NEW n \in DOMAIN all
        PROVE  log[i].data < all[n]
    <3>1. CASE n \in 1..Len(queue) /\ all[n] = queue[n]
      BY <1>6, <2>1, <3>1
    <3>2. CASE /\ n \in Len(queue) + 1..Len(queue) + k
               /\ all[n] = s.local + (n - Len(queue))
      <4>1. Len(queue) \in Nat
        BY <1>6
      <4> QED  BY <1>1, <2>1, <2>2, <3>2, <4>1
    <3> QED  BY <1>4, <2>4, <3>1, <3>2
  <2> QED  BY <2>3, <2>4
<1> QED  BY <1>7, <1>8, <1>9 DEF InOrder, all, more

\* An own message that leaves the queue may be dropped or become the next
\* entry; an entry of somebody else may always follow.
LEMMA HeadInOrder ==
  ASSUME NEW p, NEW log \in Seq(Entry), NEW queue \in Seq(Nat),
         NEW local \in Nat, queue # <<>>, InOrder(p, log, queue, local)
  PROVE  /\ InOrder(p, log, Tail(queue), local)
         /\ \A e \in Entry : e.from = p /\ e.data = Head(queue) =>
              InOrder(p, Append(log, e), Tail(queue), local)
<1> DEFINE rest == Tail(queue)
<1>1. /\ rest \in Seq(Nat) /\ DOMAIN rest = 1..Len(queue) - 1
      /\ \A n \in DOMAIN rest : n + 1 \in DOMAIN queue /\ rest[n] = queue[n + 1]
      /\ 1 \in DOMAIN queue /\ Head(queue) = queue[1]
  OBVIOUS
<1> HIDE DEF rest
<1>2. /\ \A n \in DOMAIN queue : queue[n] \in Nat /\ queue[n] <= local
      /\ IsIncreasing(queue)
  BY DEF InOrder
<1>3. /\ IsIncreasing(rest)
      /\ \A n \in DOMAIN rest : rest[n] <= local /\ queue[1] < rest[n]
  <2>1. IsIncreasing(rest)
    <3>1. SUFFICES ASSUME NEW i \in DOMAIN rest, NEW j \in DOMAIN rest, i < j
                   PROVE  rest[i] < rest[j]
      BY DEF IsIncreasing
    <3>2. i + 1 < j + 1
      BY <1>1, <3>1
    <3> QED  BY <1>1, <1>2, <3>1, <3>2 DEF IsIncreasing
  <2>2. ASSUME NEW n \in DOMAIN rest
        PROVE  rest[n] <= local /\ queue[1] < rest[n]
    <3>1. 1 < n + 1 /\ n + 1 \in DOMAIN queue /\ rest[n] = queue[n + 1]
      BY <1>1
    <3> QED  BY <1>1, <1>2, <3>1 DEF IsIncreasing
  <2> QED  BY <2>1, <2>2
<1>4. InOrder(p, log, rest, local)
  BY <1>1, <1>3 DEF InOrder
<1>5. ASSUME NEW e \in Entry, e.from = p, e.data = Head(queue)
      PROVE  InOrder(p, Append(log, e), rest, local)
  <2> DEFINE more == Append(log, e)
  <2>1. /\ DOMAIN more = 1..Len(log) + 1 /\ DOMAIN log = 1..Len(log)
        /\ \A i \in DOMAIN log : more[i] = log[i]
        /\ more[Len(log) + 1] = e /\ Len(log) \in Nat
    OBVIOUS
  <2>2. \A i \in DOMAIN more : i \in DOMAIN log \/ i = Len(log) + 1
    BY <2>1
  <2> HIDE DEF more
  <2>3. \A i \in DOMAIN log : log[i].from = p => log[i].data < e.data
    BY <1>1, <1>5 DEF InOrder
  <2>4. \A i, j \in DOMAIN more :
          i < j /\ more[i].from = p /\ more[j].from = p =>
            more[i].data < more[j].data
    <3>1. SUFFICES ASSUME NEW i \in DOMAIN more, NEW j \in DOMAIN more,
                          i < j, more[i].from = p, more[j].from = p
                   PROVE  more[i].data < more[j].data
      OBVIOUS
    <3>2. i \in DOMAIN log
      BY <2>1, <2>2, <3>1
    <3>3. CASE j \in DOMAIN log
      BY <2>1, <3>1, <3>2, <3>3 DEF InOrder
    <3>4. CASE j = Len(log) + 1
      BY <2>1, <2>3, <3>1, <3>2, <3>4
    <3> QED  BY <2>2, <3>3, <3>4
  <2>5. ASSUME NEW i \in DOMAIN more, more[i].from = p
        PROVE  /\ more[i].data <= local
               /\ \A n \in DOMAIN rest : more[i].data < rest[n]
    <3>1. CASE i \in DOMAIN log
      BY <1>1, <2>1, <2>5, <3>1 DEF InOrder
    <3>2. CASE i = Len(log) + 1
      BY <1>1, <1>2, <1>3, <1>5, <2>1, <3>2
    <3> QED  BY <2>2, <2>5, <3>1, <3>2
  <2> QED  BY <1>3, <2>4, <2>5 DEF InOrder, more
<1> QED  BY <1>4, <1>5 DEF rest

LEMMA OthersInOrder ==
  ASSUME NEW p, NEW log \in Seq(Entry), NEW queue, NEW local, NEW e \in Entry,
         e.from # p, InOrder(p, log, queue, local)
  PROVE  InOrder(p, Append(log, e), queue, local)
<1> DEFINE more == Append(log, e)
<1>1. \A i \in DOMAIN more : more[i].from = p =>
        i \in DOMAIN log /\ more[i] = log[i]
  OBVIOUS
<1> QED  BY <1>1 DEF InOrder

-----------------------------------------------------------------------------
(* The order survives every change to a state.                             *)

\* The broadcasts are as before, or the staged step is gone.
Alike(s, t) ==
  /\ t.log = s.log /\ t.outgoing = s.outgoing /\ t.local = s.local
  /\ \/ t.proposal = None
     \/ /\ s.proposal # None
        /\ t.proposal.entry = s.proposal.entry
        /\ t.proposal.outgoing = s.proposal.outgoing
        /\ t.proposal.local = s.proposal.local
     \/ t.proposal = s.proposal

LEMMA AlikeOrdered ==
  ASSUME NEW s, NEW t, NEW p, Alike(s, t), Ordered(s, p)
  PROVE  Ordered(t, p)
BY DEF Alike, Ordered

LEMMA BeginEndAlike ==
  ASSUME NEW s \in ExecutionStates, NEW me \in Participants
  PROVE  Alike(s, BeginEnd(s, me))
BY DEF BeginEnd, ExecutionStates, Alike

LEMMA StopAlike ==
  ASSUME NEW s \in ExecutionStates, NEW me \in Participants,
         NEW occ \in Occurrence
  PROVE  Alike(s, Stop(s, me, occ))
<1> DEFINE u == [s EXCEPT !.proposal = None, !.status = "Stopped", !.stop = occ]
<1>1. /\ u \in ExecutionStates /\ u.log = s.log /\ u.outgoing = s.outgoing
      /\ u.local = s.local /\ u.proposal = None
  BY DEF ExecutionStates, Status
<1>2. Stop(s, me, occ) = BeginEnd(u, me)
  BY DEF Stop
<1> HIDE DEF u
<1>3. Alike(u, BeginEnd(u, me))
  BY <1>1, BeginEndAlike
<1> QED  BY <1>1, <1>2, <1>3 DEF Alike

LEMMA InstallOrdered ==
  ASSUME NEW s \in ExecutionStates, NEW me \in Participants,
         s.proposal # None, Ordered(s, me)
  PROVE  Ordered(InstallCertified(s, me), me)
<1> DEFINE c == ProposalCommitment(s)
           e == s.proposal.entry
           log == Append(s.log, e)
           out == s.proposal.outgoing
           loc == s.proposal.local
           status == CertifiedStatus(e)
           u == [s EXCEPT !.log = log, !.cert = c, !.outgoing = out,
                          !.local = loc, !.status = status, !.proposal = None]
<1>1. s.proposal \in Proposal /\ c \in Commitment
  BY CommitmentType
<1>2. e \in Entry /\ out \in Seq(Nat) /\ loc \in Nat
  BY <1>1 DEF Proposal
<1>3. log \in Seq(Entry)
  BY <1>2 DEF ExecutionStates
<1>4. status \in Status
  BY DEF CertifiedStatus, Status
<1>5. InOrder(me, log, out, loc)
  BY DEF Ordered
<1>6. InstallCertified(s, me) = BeginEnd(u, me)
  BY DEF InstallCertified
<1> HIDE DEF c, e, log, out, loc, status
<1>7. /\ u \in ExecutionStates /\ u.log = log /\ u.outgoing = out
      /\ u.local = loc /\ u.proposal = None
  BY <1>1, <1>2, <1>3, <1>4 DEF ExecutionStates
<1> HIDE DEF u
<1>8. Ordered(u, me)
  BY <1>5, <1>7 DEF Ordered
<1> QED  BY <1>6, <1>7, <1>8, BeginEndAlike, AlikeOrdered

LEMMA SignatureOrdered ==
  ASSUME NEW s \in ExecutionStates, NEW me \in Participants,
         NEW q \in Participants, s.proposal # None, Ordered(s, me)
  PROVE  Ordered(AddStepSignature(s, me, q), me)
<1> DEFINE sigs == s.proposal.signatures \cup {q}
           prop == [s.proposal EXCEPT !.signatures = sigs]
<1>1. CASE sigs = Participants
  BY <1>1, InstallOrdered DEF AddStepSignature
<1>2. CASE sigs # Participants
  <2>1. s.proposal \in Proposal
    BY CommitmentType
  <2>2. AddStepSignature(s, me, q) = [s EXCEPT !.proposal = prop]
    BY <1>2 DEF AddStepSignature
  <2>3. /\ prop.entry = s.proposal.entry /\ prop.local = s.proposal.local
        /\ prop.outgoing = s.proposal.outgoing
    BY <2>1 DEF Proposal
  <2> HIDE DEF prop
  <2>4. Alike(s, [s EXCEPT !.proposal = prop])
    BY <2>3 DEF Alike, ExecutionStates
  <2> QED  BY <2>2, <2>4, AlikeOrdered
<1> QED  BY <1>1, <1>2

LEMMA DispatchOrdered ==
  ASSUME NEW s \in ExecutionStates, NEW me \in Participants, NEW k \in Nat,
         s.proposal = None, Ordered(s, me)
  PROVE  /\ Ordered(InstallDispatch(s, k), me)
         /\ s.outgoing # <<>> => Ordered(DropOutgoingHead(s), me)
<1>1. /\ s.log \in Seq(Entry) /\ s.outgoing \in Seq(Nat) /\ s.local \in Nat
      /\ InOrder(me, s.log, s.outgoing, s.local)
  BY DEF ExecutionStates, Ordered
<1>2. Ordered(InstallDispatch(s, k), me)
  <2> DEFINE queue == s.outgoing \o Broadcasts(s, k)
             sum   == s.local + k
             t     == [s EXCEPT !.outgoing = queue, !.local = sum]
  <2>1. InOrder(me, s.log, queue, sum)
    BY <1>1, BroadcastsInOrder
  <2>2. InstallDispatch(s, k) = t
    BY DEF InstallDispatch
  <2> HIDE DEF queue, sum
  <2>3. /\ t.log = s.log /\ t.outgoing = queue /\ t.local = sum
        /\ t.proposal = None
    BY DEF ExecutionStates
  <2> HIDE DEF t
  <2> QED  BY <2>1, <2>2, <2>3 DEF Ordered
<1>3. ASSUME s.outgoing # <<>> PROVE Ordered(DropOutgoingHead(s), me)
  <2> DEFINE rest == Tail(s.outgoing)
             t    == [s EXCEPT !.outgoing = rest]
  <2>1. InOrder(me, s.log, rest, s.local)
    BY <1>1, <1>3, HeadInOrder
  <2>2. DropOutgoingHead(s) = t
    BY DEF DropOutgoingHead
  <2> HIDE DEF rest
  <2>3. /\ t.log = s.log /\ t.outgoing = rest /\ t.local = s.local
        /\ t.proposal = None
    BY DEF ExecutionStates
  <2> HIDE DEF t
  <2> QED  BY <2>1, <2>2, <2>3 DEF Ordered
<1> QED  BY <1>2, <1>3

LEMMA StageOrdered ==
  ASSUME NEW s \in ExecutionStates, NEW me \in Participants, NEW k \in Nat,
         NEW from \in Participants \cup {None}, NEW data \in Nat,
         from = me => s.outgoing # <<>> /\ data = Head(s.outgoing),
         Ordered(s, me)
  PROVE  Ordered(StageProposal(s, me, from, data, k), me)
<1> DEFINE queue == IF from = me THEN Tail(s.outgoing) ELSE s.outgoing
           e == EntryOf(s, from, data)
           out == queue \o Broadcasts(s, k)
           loc == s.local + k
           staged == [entry |-> e, outgoing |-> out, local |-> loc,
                      signatures |-> {}]
           t == StageProposal(s, me, from, data, k)
<1>1. /\ s.log \in Seq(Entry) /\ s.outgoing \in Seq(Nat) /\ s.local \in Nat
      /\ InOrder(me, s.log, s.outgoing, s.local)
  BY DEF ExecutionStates, Ordered
<1>2. e \in Entry /\ e.from = from /\ e.data = data
  BY EntryType DEF EntryOf
<1>3. t = [s EXCEPT !.proposal = staged]
  BY DEF StageProposal
<1>4. queue \in Seq(Nat) /\ Append(s.log, e) \in Seq(Entry)
  BY <1>1, <1>2
<1>5. InOrder(me, Append(s.log, e), queue, s.local)
  <2>1. CASE from = me
    <3>1. e.from = me /\ e.data = Head(s.outgoing) /\ s.outgoing # <<>>
      BY <1>2, <2>1
    <3>2. queue = Tail(s.outgoing)
      BY <2>1
    <3> HIDE DEF queue, e
    <3> QED  BY <1>1, <1>2, <3>1, <3>2, HeadInOrder
  <2>2. CASE from # me
    <3>1. e.from # me /\ queue = s.outgoing
      BY <1>2, <2>2
    <3> HIDE DEF queue, e
    <3> QED  BY <1>1, <1>2, <3>1, OthersInOrder
  <2> QED  BY <2>1, <2>2
<1> HIDE DEF queue, e
<1>6. InOrder(me, Append(s.log, e), out, loc)
  BY <1>4, <1>5, BroadcastsInOrder
<1> HIDE DEF out, loc
<1>7. staged.entry = e /\ staged.outgoing = out /\ staged.local = loc
  OBVIOUS
<1> HIDE DEF staged
<1>8. /\ t.log = s.log /\ t.outgoing = s.outgoing /\ t.local = s.local
      /\ t.proposal = staged
  BY <1>3 DEF ExecutionStates
<1> HIDE DEF t
<1>9. Ordered(t, me)
  BY <1>1, <1>6, <1>7, <1>8 DEF Ordered
<1> QED  BY <1>9 DEF t

\* Publication, confirmation, activation and the window leave them alone.
LEMMA QuietAlike ==
  ASSUME NEW s \in ExecutionStates, NEW q
  PROVE  /\ Alike(s, s) /\ Alike(s, Activate(s))
         /\ Alike(s, PublishReceipt(s)) /\ Alike(s, ConfirmEnd(s, q))
         /\ Alike(s, ExpireEnd(PublishReceipt(s)))
<1>1. Alike(s, s)
  BY DEF Alike
<1>2. Alike(s, Activate(s)) /\ Alike(s, ConfirmEnd(s, q))
  BY DEF Alike, Activate, ConfirmEnd, ExecutionStates
<1>3. ASSUME NEW t \in ExecutionStates PROVE Alike(t, ExpireEnd(t))
  BY DEF Alike, ExpireEnd, ExecutionStates
<1>4. PublishReceipt(s) \in ExecutionStates /\ Alike(s, PublishReceipt(s))
  <2>1. ASSUME NEW status \in Status
        PROVE  LET t == [s EXCEPT !.status = status] IN
               t \in ExecutionStates /\ Alike(s, t)
    BY DEF Alike, ExecutionStates
  <2>2. "Completed" \in Status /\ "StoppedPublished" \in Status
    BY DEF Status
  <2> QED  BY <1>1, <2>1, <2>2 DEF PublishReceipt
<1>5. Alike(s, ExpireEnd(PublishReceipt(s)))
  <2>1. Alike(PublishReceipt(s), ExpireEnd(PublishReceipt(s)))
    BY <1>3, <1>4
  <2> QED  BY <1>4, <2>1 DEF Alike
<1> QED  BY <1>1, <1>2, <1>4, <1>5

\* What the proofs below use of OrderInv.
LEMMA OrderFacts ==
  ASSUME OrderInv, NEW p \in Participants
  PROVE  /\ TypeInv /\ st[p] \in ExecutionStates /\ Ordered(st[p], p)
         /\ st \in [Participants -> ExecutionStates] /\ WellTypedLanes
BY TypeFacts DEF OrderInv

StaysOrdered == \A a \in Participants : Ordered(st'[a], a)

LEMMA UpdateOrdered ==
  ASSUME OrderInv, NEW p \in Participants, NEW t, NEW next,
         Update(p, t, next), Ordered(t, p)
  PROVE  StaysOrdered
<1>1. st \in [Participants -> ExecutionStates]
  BY OrderFacts
<1>2. \A a \in Participants : st'[a] = IF a = p THEN t ELSE st[a]
  BY <1>1 DEF Update
<1> QED  BY <1>2 DEF OrderInv, StaysOrdered

LEMMA UpdateAlike ==
  ASSUME OrderInv, NEW p \in Participants, NEW t, NEW next,
         Update(p, t, next), Alike(st[p], t)
  PROVE  StaysOrdered
BY UpdateOrdered, AlikeOrdered, OrderFacts

\* Startup, local events, stops, and the terminal boundary.
LEMMA LocalOrdered ==
  ASSUME OrderInv, NEW p \in Participants,
         \/ Restart(p) \/ Resume(p) \/ Redeliver(p) \/ PublishFailure(p)
         \/ ProgressTerminal(p) \/ ExpireWindow(p) \/ Crash(p)
  PROVE  StaysOrdered
<1>1. /\ Alike(st[p], st[p]) /\ Alike(st[p], Activate(st[p]))
      /\ Alike(st[p], PublishReceipt(st[p]))
      /\ Alike(st[p], ExpireEnd(PublishReceipt(st[p])))
  BY OrderFacts, QuietAlike
<1>2. CASE Restart(p)
  BY <1>1, <1>2, UpdateAlike DEF Restart
<1>3. CASE Resume(p)
  BY <1>1, <1>3, UpdateAlike DEF Resume
<1>4. CASE Redeliver(p)
  BY <1>1, <1>4, UpdateAlike DEF Redeliver
<1>5. CASE PublishFailure(p)
  BY <1>1, <1>5, UpdateAlike DEF PublishFailure
<1>6. CASE ProgressTerminal(p)
  BY <1>1, <1>6, UpdateAlike DEF ProgressTerminal
<1>7. CASE ExpireWindow(p)
  BY <1>1, <1>7, UpdateAlike DEF ExpireWindow
<1>8. CASE Crash(p)
  BY <1>8 DEF Crash, OrderInv, StaysOrdered
<1> QED  BY <1>2, <1>3, <1>4, <1>5, <1>6, <1>7, <1>8

LEMMA StopHereAlike ==
  ASSUME NEW s \in ExecutionStates, NEW p \in Participants,
         NEW kind \in {"Abort", "Fail"}
  PROVE  Alike(s, StopHere(s, p, kind))
<1>1. [sender |-> p, kind |-> kind, cursor |-> s.log] \in Occurrence
  BY DEF Occurrence, ExecutionStates
<1> QED  BY <1>1, StopAlike DEF StopHere

LEMMA StopOrdered ==
  ASSUME OrderInv, NEW p \in Participants,
         \/ Terminate(p) \/ FailTerminal(p)
         \/ \E d \in Deliveries(p) : DivergeOnMessage(p, d)
  PROVE  StaysOrdered
<1>1. /\ Alike(st[p], st[p])
      /\ Alike(st[p], StopHere(st[p], p, "Abort"))
      /\ Alike(st[p], StopHere(st[p], p, "Fail"))
  BY OrderFacts, QuietAlike, StopHereAlike
<1>2. CASE Terminate(p)
  BY <1>1, <1>2, UpdateAlike DEF Terminate
<1>3. CASE FailTerminal(p)
  BY <1>1, <1>3, UpdateAlike DEF FailTerminal
<1>4. ASSUME NEW d, DivergeOnMessage(p, d) PROVE StaysOrdered
  BY <1>1, <1>4, UpdateAlike DEF DivergeOnMessage
<1> QED  BY <1>2, <1>3, <1>4

\* Dispatches and the own signature.
LEMMA DispatchStepOrdered ==
  ASSUME OrderInv, NEW p \in Participants,
         \/ LocalEvent(p) \/ StartSession(p) \/ SignStep(p)
         \/ AuthorNextMessage(p) \/ DropRejectedMessage(p)
  PROVE  StaysOrdered
<1>1. st[p] \in ExecutionStates /\ Ordered(st[p], p)
  BY OrderFacts
<1>2. \A k \in BroadcastCounts(st[p]) : k \in Nat
  BY DEF BroadcastCounts
<1>3. CASE LocalEvent(p)
  <2>1. PICK k \in BroadcastCounts(st[p]) :
          Update(p, InstallDispatch(st[p], k), "progress")
    BY <1>3 DEF LocalEvent
  <2>2. Ordered(InstallDispatch(st[p], k), p)
    BY <1>1, <1>2, <1>3, DispatchOrdered DEF LocalEvent, CanDispatch
  <2> QED  BY <2>1, <2>2, UpdateOrdered
<1>4. CASE StartSession(p)
  <2>1. PICK k \in BroadcastCounts(st[p]) :
          Update(p, StageProposal(st[p], p, None, 0, k), "progress")
    BY <1>4 DEF StartSession
  <2>2. Ordered(StageProposal(st[p], p, None, 0, k), p)
    BY <1>1, <1>2, StageOrdered, NoneAssumption
  <2> QED  BY <2>1, <2>2, UpdateOrdered
<1>5. CASE SignStep(p)
  <2>1. Ordered(AddStepSignature(st[p], p, p), p)
    BY <1>1, <1>5, SignatureOrdered DEF SignStep
  <2> QED  BY <1>5, <2>1, UpdateOrdered DEF SignStep
<1>6. CASE AuthorNextMessage(p)
  <2> DEFINE head == Head(st[p].outgoing)
  <2>1. PICK k \in BroadcastCounts(st[p]) :
          Update(p, StageProposal(st[p], p, p, head, k), "idle")
    BY <1>6 DEF AuthorNextMessage
  <2>2. st[p].outgoing # <<>> /\ head \in Nat
    BY <1>1, <1>6 DEF AuthorNextMessage, ExecutionStates
  <2>3. Ordered(StageProposal(st[p], p, p, head, k), p)
    BY <1>1, <1>2, <2>2, StageOrdered
  <2> QED  BY <2>1, <2>3, UpdateOrdered
<1>7. CASE DropRejectedMessage(p)
  <2>1. Ordered(DropOutgoingHead(st[p]), p)
    BY <1>1, <1>7, DispatchOrdered DEF DropRejectedMessage, CanDispatch
  <2> QED  BY <1>7, <2>1, UpdateOrdered DEF DropRejectedMessage
<1> QED  BY <1>3, <1>4, <1>5, <1>6, <1>7

\* Inbound frames. A message never claims the receiver as its author, for a
\* participant does not send to itself.
LEMMA InboundOrdered ==
  ASSUME OrderInv, NEW p \in Participants, NEW d \in Deliveries(p),
         Inbound(p, d)
  PROVE  StaysOrdered
<1>1. /\ st[p] \in ExecutionStates /\ Ordered(st[p], p)
      /\ TypeInv /\ WellTypedLanes
  BY OrderFacts
<1>2. d.source \in Participants /\ d.source # p /\ d.frame \in ExecFrame
  BY <1>1, DeliveryInFlight DEF Peers
<1>3. CASE AcceptFrame(p, d)
  <2> DEFINE f == d.frame
             t == Apply(st[p], p, d.source, f)
  <2>1. /\ Update(p, t, "progress") /\ Verdict(st[p], d.source, f) = "Apply"
        /\ ~IsStepMessage(st[p], f)
    BY <1>3 DEF AcceptFrame
  <2>2. CASE IsTerminal(st[p])
    BY <1>1, <2>1, <2>2, QuietAlike, UpdateAlike DEF Apply
  <2>3. CASE ~IsTerminal(st[p]) /\ f.type = "StepSignature"
    <3>1. st[p].proposal # None
      BY <1>2, <2>1, <2>3, AppliedFrame
    <3>2. t = AddStepSignature(st[p], p, d.source)
      BY <2>3 DEF Apply
    <3> QED  BY <1>1, <1>2, <2>1, <3>1, <3>2, SignatureOrdered, UpdateOrdered
  <2>4. CASE ~IsTerminal(st[p]) /\ f.type = "StepCertificate"
    <3>1. st[p].proposal # None
      BY <1>2, <2>1, <2>4, AppliedFrame
    <3>2. t = InstallCertified(st[p], p)
      BY <2>4 DEF Apply
    <3> QED  BY <1>1, <2>1, <3>1, <3>2, InstallOrdered, UpdateOrdered
  <2>5. CASE ~IsTerminal(st[p]) /\ f.type = "Abort"
    <3>1. t = Stop(st[p], p, f.occurrence)
      BY <2>5 DEF Apply
    <3> QED  BY <1>1, <1>2, <2>1, <2>5, <3>1, StopAlike, AbortOccurrence, UpdateAlike
  <2>6. f.type \in {"Message", "StepSignature", "StepCertificate", "Abort"}
    BY <1>2 DEF ExecFrame, CommittedFrame, AbortFrame
  <2> QED  BY <2>1, <2>2, <2>3, <2>4, <2>5, <2>6 DEF IsStepMessage
<1>4. CASE ApplyMessage(p, d)
  <2> DEFINE data == d.frame.commitment.entry.data
  <2>1. PICK k \in BroadcastCounts(st[p]) :
          Update(p, StageProposal(st[p], p, d.source, data, k), "progress")
    BY <1>4 DEF ApplyMessage
  <2>2. d.frame.type = "Message"
    BY <1>4 DEF ApplyMessage, IsStepMessage
  <2>3. data \in Nat /\ k \in Nat
    BY <1>2, <2>2, CommittedCommitment DEF Commitment, Entry, BroadcastCounts
  <2>4. Ordered(StageProposal(st[p], p, d.source, data, k), p)
    BY <1>1, <1>2, <2>3, StageOrdered
  <2> QED  BY <2>1, <2>4, UpdateOrdered
<1>5. CASE RefuseFrame(p, d)
  <2>1. Alike(st[p], st[p])
    BY <1>1, QuietAlike
  <2> QED  BY <1>5, <2>1, UpdateAlike DEF RefuseFrame
<1>6. CASE RouteRetired(p, d)
  BY <1>6 DEF RouteRetired, OrderInv, StaysOrdered
<1> QED  BY <1>3, <1>4, <1>5, <1>6 DEF Inbound

LEMMA SendOrdered ==
  ASSUME OrderInv, NEW p \in Participants, NEW q \in Participants,
         SettleSend(p, q) \/ SendTimeout(p, q) \/ RetryDue(p, q)
  PROVE  StaysOrdered
<1>1. Alike(st[p], st[p]) /\ Alike(st[p], ConfirmEnd(st[p], q))
  BY OrderFacts, QuietAlike
<1>2. CASE SettleSend(p, q)
  BY <1>1, <1>2, UpdateAlike DEF SettleSend
<1>3. CASE SendTimeout(p, q)
  BY <1>1, <1>3, UpdateAlike DEF SendTimeout
<1>4. CASE RetryDue(p, q)
  BY <1>4 DEF RetryDue, OrderInv, StaysOrdered
<1> QED  BY <1>2, <1>3, <1>4

LEMMA StepOrdered ==
  ASSUME OrderInv, Next
  PROVE  StaysOrdered
<1>1. ASSUME NEW p \in Participants,
             \/ Restart(p) \/ Resume(p) \/ LocalEvent(p)
             \/ Terminate(p) \/ FailTerminal(p)
             \/ Progress(p) \/ ExpireWindow(p) \/ Crash(p)
      PROVE  StaysOrdered
  BY <1>1, LocalOrdered, StopOrdered, DispatchStepOrdered DEF Progress
<1>2. ASSUME NEW p \in Participants, NEW d \in Deliveries(p),
             Inbound(p, d) \/ DivergeOnMessage(p, d)
      PROVE  StaysOrdered
  BY <1>2, InboundOrdered, StopOrdered
<1>3. ASSUME NEW p \in Participants, NEW q \in Participants,
             SettleSend(p, q) \/ SendTimeout(p, q) \/ RetryDue(p, q)
      PROVE  StaysOrdered
  BY <1>3, SendOrdered
<1> QED  BY <1>1, <1>2, <1>3 DEF Next

LEMMA OrderInvariance == Spec => []OrderInv
<1>1. Init => OrderInv
  <2>1. \A p : Ordered(NewExecution, p)
    BY DEF Ordered, NewExecution, InOrder, IsIncreasing
  <2> QED  BY <2>1, InitType DEF Init, OrderInv
<1>2. OrderInv /\ Next => OrderInv'
  <2>1. SUFFICES ASSUME OrderInv, Next PROVE OrderInv'
    OBVIOUS
  <2>2. TypeInv'
    BY <2>1, StepShape, ShapeType DEF OrderInv
  <2>3. \A a \in Participants : Ordered(st'[a], a)
    BY <2>1, StepOrdered DEF StaysOrdered
  <2> QED  BY <2>2, <2>3 DEF OrderInv
<1>3. OrderInv /\ UNCHANGED vars => OrderInv'
  BY StutterType DEF OrderInv, vars
<1> QED  BY <1>1, <1>2, <1>3, PTL DEF Spec

\* Broadcasts are neither repeated nor reordered: an own message leaves the
\* queue only with the step that certifies it (stage_proposal, install of a
\* certified step) or when the program refuses it, whatever crashes, stops or
\* steps of other authors fall in between.
THEOREM OwnOrder == Spec => []OwnMessagesOnceInOrder
<1>1. OrderInv => OwnMessagesOnceInOrder
  BY DEF OrderInv, Ordered, OwnMessagesOnceInOrder
<1> QED  BY <1>1, OrderInvariance, PTL

=============================================================================
