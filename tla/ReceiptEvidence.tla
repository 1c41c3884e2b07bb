--------------------------- MODULE ReceiptEvidence ---------------------------
(***************************************************************************)
(* Portable evidence of a session: the certified trace, how it ended, and  *)
(* the two verifications of it, light (validation.rs, at every             *)
(* construction or decoding of a ReceiptArtifact) and full (replay.rs).    *)
(* Hashes are the data they are computed from, so the link of a commitment *)
(* is the previous commitment, and a signature is the pair of its signer   *)
(* and what it signs.  The program is the one that records the data it was *)
(* given: its shared state is the sequence of them.                        *)
(***************************************************************************)
EXTENDS Naturals, Sequences, FiniteSets

CONSTANTS Ensemble,    \* the participants of each session
          Data,        \* what a participant can send
          Ends,        \* the data with which the program ends the session
          Aborts,      \* the data with which the program aborts it
          Rejects      \* the data the program rejects

Sessions == DOMAIN Ensemble

EnsembleAssumption == \A s \in Sessions : Ensemble[s] # {}
DataAssumption == /\ Ends \cup Aborts \cup Rejects \subseteq Data
                         /\ Ends \cap Aborts = {}

-----------------------------------------------------------------------------
(* The program: initialize, dispatch and the outcome projection.           *)

Initial == <<>>
Started(s) == [kind |-> "start", ensemble |-> Ensemble[s]]
Message(p, d) == [kind |-> "message", from |-> p, data |-> d]
DataOf(event) == IF event.kind = "start" THEN "start" ELSE event.data

Accepts(event) == DataOf(event) \notin Rejects
Apply(state, event) == Append(state, DataOf(event))
Outcome(state) == state

NoTerminal == [kind |-> "none", value |-> <<>>]
TerminalAfter(state, event) ==
    CASE DataOf(event) \in Ends   -> [kind |-> "end", value |-> Outcome(state)]
      [] DataOf(event) \in Aborts -> [kind |-> "abort", value |-> <<>>]
      [] OTHER                    -> NoTerminal

-----------------------------------------------------------------------------
(* Entries and commitments.                                                *)

Entry(step, event, pre, post, terminal) ==
    [step |-> step, event |-> event, pre |-> pre, post |-> post,
     terminal |-> terminal]

ChainStart == <<>>

CommitmentOf(s, entry, link) ==
    [session |-> s, step |-> entry.step, entry |-> entry, link |-> link]

Genesis == [step |-> 0, state |-> Initial, chain |-> ChainStart]

Advance(cursor, commitment) ==
    [step |-> cursor.step + 1, state |-> commitment.entry.post,
     chain |-> <<commitment>>]

\* An agreement: who is marked in the bitmap, and the signatures aggregated.
\* SignerSet: exactly the committed participants are marked.
IsFull(signers, keys) ==
    Cardinality(signers) = Cardinality(keys) /\ keys \subseteq signers

\* verify_signatures: no bit beyond the participants, and the aggregate is
\* that of the marked ones over this message.
SignaturesVerify(agreement, commitment, keys) ==
    /\ agreement.signers \subseteq keys
    /\ agreement.signers # {}
    /\ agreement.aggregate = {<<p, commitment>> : p \in agreement.signers}

FullAgreement(agreement, commitment, keys) ==
    /\ IsFull(agreement.signers, keys)
    /\ SignaturesVerify(agreement, commitment, keys)

SharedEntry(s, step, entry) ==
    /\ entry.step = step
    /\ IF entry.event.kind = "start"
       THEN step = 0 /\ entry.event.ensemble = Ensemble[s]
       ELSE step # 0 /\ entry.event.from \in Ensemble[s]

\* The entries of a trace in a receipt carry their agreement with them.
Certified(entry, agreement) == [entry |-> entry, agreement |-> agreement]

(* validate_agreed_trace: the cursor after a trace, and whether every entry
   is well formed, extends the chain, and is signed by everyone; only the
   last one may be terminal. *)
AgreedTrace(s, trace) ==
    LET after[k \in 0 .. Len(trace)] ==
          IF k = 0 THEN [ok |-> TRUE, cursor |-> Genesis]
          ELSE LET before     == after[k - 1].cursor
                   entry      == trace[k].entry
                   commitment == CommitmentOf(s, entry, before.chain)
               IN [ok |-> /\ after[k - 1].ok
                          /\ SharedEntry(s, before.step, entry)
                          /\ entry.pre = before.state
                          /\ FullAgreement(trace[k].agreement, commitment,
                                           Ensemble[s])
                          /\ k < Len(trace) => entry.terminal = NoTerminal,
                   cursor |-> Advance(before, commitment)]
    IN after[Len(trace)]

LastTerminal(trace) ==
    IF trace = <<>> THEN NoTerminal ELSE trace[Len(trace)].entry.terminal

-----------------------------------------------------------------------------
(* Receipt bodies.                                                         *)

Completed == [kind |-> "completed"]
SharedStop(commitment) == [kind |-> "shared", commitment |-> commitment]
AuthenticatedStop(occurrence) ==
    [kind |-> "authenticated", occurrence |-> occurrence]

\* A signed unilateral stop; `key' is whose key made the signature.
Occurrence(s, sender, coordinate, key) ==
    [session |-> s, sender |-> sender, coordinate |-> coordinate, key |-> key]

Body(s, termination, outcome, trace) ==
    [session |-> s, termination |-> termination, outcome |-> outcome,
     trace |-> trace]

\* validate_receipt_trace for a completion, and the shape of the body.
ValidCompletion(b, agreed) ==
    /\ b.trace # <<>>
    /\ LastTerminal(b.trace) = [kind |-> "end", value |-> b.outcome]

\* StopCause::validate_binding: the commitment is the last one agreed.
BoundToCursor(commitment, s, cursor) ==
    /\ commitment.session = s
    /\ commitment.step + 1 = cursor.step
    /\ commitment.entry.post = cursor.state
    /\ <<commitment>> = cursor.chain

\* validate_stopped_receipt: everyone agreed to stop.
ValidSharedStop(b, agreed) ==
    LET commitment == b.termination.commitment IN
    /\ b.outcome = <<>>
    /\ b.trace # <<>>
    /\ LastTerminal(b.trace).kind = "abort"
    /\ b.trace[Len(b.trace)].entry = commitment.entry
    /\ BoundToCursor(commitment, b.session, agreed.cursor)

\* AbortOccurrence: bound to the session and signed by the sender it names.
OccurrenceHolds(s, occurrence) ==
    /\ occurrence.session = s
    /\ occurrence.coordinate.step = 0 => occurrence.coordinate.chain = ChainStart
    /\ occurrence.key = occurrence.sender

\* validate_stopped_receipt: one participant stopped, at a coordinate that
\* the certified prefix reaches.
ValidAuthenticatedStop(b, agreed) ==
    LET occurrence == b.termination.occurrence IN
    /\ b.outcome = <<>>
    /\ OccurrenceHolds(b.session, occurrence)
    /\ occurrence.sender \in Ensemble[b.session]
    /\ LastTerminal(b.trace) = NoTerminal
    /\ occurrence.coordinate = agreed.cursor

ValidBody(b) ==
    LET agreed == AgreedTrace(b.session, b.trace) IN
    /\ agreed.ok
    /\ CASE b.termination.kind = "completed"     -> ValidCompletion(b, agreed)
         [] b.termination.kind = "shared"        -> ValidSharedStop(b, agreed)
         [] b.termination.kind = "authenticated" ->
                ValidAuthenticatedStop(b, agreed)

(* ReceiptArtifact::new, which every decoding and every import goes
   through. *)
ValidArtifact(b) == b.session \in Sessions /\ ValidBody(b)

(* A step that is staged and not yet agreed (validate_proposal): it follows
   the agreed cursor, and ends the session only as its entry says. *)
ValidProposal(s, cursor, commitment) ==
    /\ SharedEntry(s, cursor.step, commitment.entry)
    /\ commitment.entry.pre = cursor.state
    /\ commitment = CommitmentOf(s, commitment.entry, cursor.chain)

StatusAfter(terminal) == IF terminal = NoTerminal THEN "active" ELSE "ended"

KindOf(b) ==
    IF b.termination.kind = "authenticated" THEN "stop_report" ELSE "receipt"

(* replay_shared: run the trace in a fresh instance of the program. *)
Replay(trace) ==
    LET after[k \in 0 .. Len(trace)] ==
          IF k = 0 THEN [ok |-> TRUE, state |-> Initial]
          ELSE LET entry == trace[k].entry
                   next  == Apply(after[k - 1].state, entry.event)
               IN [ok |-> /\ after[k - 1].ok
                          /\ entry.step = k - 1
                          /\ Accepts(entry.event)
                          /\ next = entry.post
                          /\ TerminalAfter(next, entry.event) = entry.terminal,
                   state |-> next]
    IN after[Len(trace)]

VerifyFull(b) ==
    LET replayed == Replay(b.trace) IN
    /\ replayed.ok
    /\ b.termination.kind = "completed" => Outcome(replayed.state) = b.outcome

=============================================================================
