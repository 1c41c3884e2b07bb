--------------------------- MODULE ExecutionState ---------------------------
(***************************************************************************)
(* The durable aggregate one participant keeps for one session             *)
(* (arena0-protocol, execution/state.rs, end.rs and status.rs), as a       *)
(* record, and its transitions, as operators from records to records.      *)
(*                                                                         *)
(*   log          the certified public trace; its length is agreed_step,   *)
(*                and the sequence itself stands for agreed_state and      *)
(*                agreed_link, which hash it                               *)
(*   cert         last_certificate (only its commitment: a certificate     *)
(*                that verifies names every participant as a signer)       *)
(*   proposal     the staged step: its entry, the outgoing queue and local *)
(*                memory it would install, the signatures collected so far *)
(*   status, stop ExecutionStatus; stop is the authenticated occurrence of *)
(*                StopCause::Authenticated, None for StopCause::Shared     *)
(*   outgoing     broadcasts the program queued and not yet staged         *)
(*   local        the local memory image, abstracted to the number of      *)
(*                broadcasts the program has made; the n-th carries data n *)
(*   end, unconfirmed   EndPhase                                           *)
(*                                                                         *)
(* Hashes are taken to be injective: a commitment is the trace it extends  *)
(* together with the entry it adds.                                        *)
(***************************************************************************)
EXTENDS Naturals, Sequences

CONSTANTS
  Participants,         \* the ensemble of the activation
  None,                 \* an absent value
  MaxOutgoing,          \* MAX_OUTGOING_MESSAGES
  Ends(_, _, _),        \* whether the program ends, or else aborts or fails,
  Aborts(_, _, _)       \* the session: of the trace, author and data

-----------------------------------------------------------------------------
(* Entries, commitments, occurrences and frames.                           *)

Terminals == {"None", "End", "Abort"}

\* A SessionStarted entry has no author.
Entry == [from : Participants \cup {None}, data : Nat, terminal : Terminals]

Commitment == [prefix : Seq(Entry), entry : Entry]

Occurrence == [sender : Participants, kind : {"Abort", "Fail"},
               cursor : Seq(Entry)]

CommittedFrame ==
  [type : {"Message", "StepSignature", "StepCertificate"},
   commitment : Commitment]

AbortFrame == [type : {"Abort"}, occurrence : Occurrence]

ExecFrame == CommittedFrame \cup AbortFrame

Frame(type, commitment) == [type |-> type, commitment |-> commitment]

Proposal ==
  [entry : Entry, outgoing : Seq(Nat), local : Nat,
   signatures : SUBSET Participants]

Status == {"Activating", "Active", "Certified", "Completed", "Stopped",
           "StoppedPublished"}

ExecutionStates ==
  [log : Seq(Entry), cert : Commitment \cup {None},
   proposal : Proposal \cup {None}, status : Status,
   stop : Occurrence \cup {None}, outgoing : Seq(Nat), local : Nat,
   end : {"Open", "Ending", "Ended"}, unconfirmed : SUBSET Participants]

NewExecution ==
  [log |-> <<>>, cert |-> None, proposal |-> None, status |-> "Activating",
   stop |-> None, outgoing |-> <<>>, local |-> 0,
   end |-> "Open", unconfirmed |-> {}]

ASSUME NoneAssumption ==
  /\ None \notin Participants /\ None \notin Commitment
  /\ None \notin Proposal /\ None \notin Occurrence

-----------------------------------------------------------------------------
(* Observers.                                                              *)

IsTerminal(s) == s.status \notin {"Activating", "Active"}

\* receipt_work() = Published
IsPublished(s) == s.status \in {"Completed", "StoppedPublished"}

CanDispatch(s) == s.status = "Active" /\ s.proposal = None

ProposalCommitment(s) == [prefix |-> s.log, entry |-> s.proposal.entry]

HasSigned(s, q) == s.proposal # None /\ q \in s.proposal.signatures

\* The one lifecycle effect of an agreed dispatch, from_effect.
TerminalOf(log, from, data) ==
  IF Ends(log, from, data) THEN "End"
  ELSE IF Aborts(log, from, data) THEN "Abort" ELSE "None"

\* The entry author and receivers build from the agreed cursor and message.
EntryOf(s, from, data) ==
  [from |-> from, data |-> data, terminal |-> TerminalOf(s.log, from, data)]

-----------------------------------------------------------------------------
(* Dispatch results.                                                       *)

Activate(s) == [s EXCEPT !.status = "Active"]

\* The k messages a handler broadcasts after its first s.local ones.
Broadcasts(s, k) == [i \in 1..k |-> s.local + i]

\* A local event installs its result at once: only local memory and the
\* outgoing queue change.
InstallDispatch(s, k) ==
  [s EXCEPT !.outgoing = @ \o Broadcasts(s, k), !.local = @ + k]

\* Mutant: an own message stays in the queue it was staged from.
StageWithoutPop(s, me, from, data, k) ==
  [s EXCEPT !.proposal =
     [entry |-> EntryOf(s, from, data),
      outgoing |-> s.outgoing \o Broadcasts(s, k),
      local |-> s.local + k,
      signatures |-> {}]]

\* An agreed event stages its result. An own message leaves the queue it
\* came from in the staged image only.
StageProposal(s, me, from, data, k) ==
  LET queue == IF from = me THEN Tail(s.outgoing) ELSE s.outgoing IN
  [s EXCEPT !.proposal =
     [entry |-> EntryOf(s, from, data),
      outgoing |-> queue \o Broadcasts(s, k),
      local |-> s.local + k,
      signatures |-> {}]]

\* append_broadcasts refuses a queue longer than its bound.
QueueFits(s, me, from, k) ==
  Len(s.outgoing) - (IF from = me THEN 1 ELSE 0) + k <= MaxOutgoing

DropOutgoingHead(s) == [s EXCEPT !.outgoing = Tail(@)]

-----------------------------------------------------------------------------
(* The end handshake, and what makes an execution terminal.                *)

BeginEnd(s, me) ==
  IF IsTerminal(s) /\ s.end = "Open"
  THEN [s EXCEPT !.end = "Ending", !.unconfirmed = Participants \ {me}]
  ELSE s

CertifiedStatus(entry) ==
  CASE entry.terminal = "None" -> "Active"
    [] entry.terminal = "End" -> "Certified"
    [] OTHER -> "Stopped"

InstallCertified(s, me) ==
  BeginEnd([s EXCEPT !.log = Append(@, s.proposal.entry),
                     !.cert = ProposalCommitment(s),
                     !.outgoing = s.proposal.outgoing,
                     !.local = s.proposal.local,
                     !.status = CertifiedStatus(s.proposal.entry),
                     !.proposal = None], me)

\* Mutant: all signatures but one certify the step.
AllButOneCertify(s, me, q) ==
  LET signatures == s.proposal.signatures \cup {q} IN
  IF \E r \in Participants : signatures \cup {r} = Participants
  THEN InstallCertified(s, me)
  ELSE [s EXCEPT !.proposal = [@ EXCEPT !.signatures = signatures]]

AddStepSignature(s, me, q) ==
  LET signatures == s.proposal.signatures \cup {q} IN
  IF signatures = Participants
  THEN InstallCertified(s, me)
  ELSE [s EXCEPT !.proposal = [@ EXCEPT !.signatures = signatures]]

\* Mutants: a signer may stop; a concluded execution may stop.
SignerMayStop(s, sender) == ~IsTerminal(s)

\* A participant that signed the staged step cannot stop before it.
MayStop(s, sender) == ~IsTerminal(s) /\ ~HasSigned(s, sender)

Stop(s, me, occurrence) ==
  BeginEnd([s EXCEPT !.proposal = None, !.status = "Stopped",
                     !.stop = occurrence], me)

StopHere(s, me, kind) ==
  Stop(s, me, [sender |-> me, kind |-> kind, cursor |-> s.log])

PublishReceipt(s) ==
  CASE s.status = "Certified" -> [s EXCEPT !.status = "Completed"]
    [] s.status = "Stopped" -> [s EXCEPT !.status = "StoppedPublished"]
    [] OTHER -> s

ConfirmEnd(s, q) ==
  LET left == s.unconfirmed \ {q} IN
  [s EXCEPT !.unconfirmed = left,
            !.end = IF q \in s.unconfirmed /\ left = {} THEN "Ended" ELSE @]

ExpireEnd(s) == [s EXCEPT !.end = "Ended"]

-----------------------------------------------------------------------------
(* Frames a participant still owes its peers.                              *)

\* Mutant: a stop is announced by the last certificate.
CertificateAsEvidence(s) == Frame("StepCertificate", s.cert)

TerminalEvidence(s) ==
  IF s.stop # None
  THEN [type |-> "Abort", occurrence |-> s.stop]
  ELSE Frame("StepCertificate", s.cert)

\* In the order the actor sends them.
CurrentFrames(s, me) ==
     (IF s.cert # None THEN <<Frame("StepCertificate", s.cert)>> ELSE <<>>)
  \o (IF s.proposal # None /\ s.proposal.entry.from = me
      THEN <<Frame("Message", ProposalCommitment(s))>> ELSE <<>>)
  \o (IF HasSigned(s, me)
      THEN <<Frame("StepSignature", ProposalCommitment(s))>> ELSE <<>>)

\* end_conclusion_matches, for a terminal s.
EndMatch(s, f) ==
  CASE /\ f.type = "StepCertificate" /\ s.stop = None
       /\ f.commitment = s.cert -> "Same"
    [] /\ f.type = "Abort" /\ s.stop # None
       /\ f.occurrence.cursor = s.log -> "Same"
    [] /\ f.type = "StepCertificate"
       /\ Len(f.commitment.prefix) <
            (IF s.stop = None THEN Len(s.cert.prefix) ELSE Len(s.log))
         -> "NotTerminalEvidence"
    [] f.type \in {"Message", "StepSignature"} -> "NotTerminalEvidence"
    [] OTHER -> "Different"

=============================================================================
