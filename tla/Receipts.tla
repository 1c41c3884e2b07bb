------------------------------ MODULE Receipts ------------------------------
(***************************************************************************)
(* What a Host keeps as evidence (arena0-store database/receipt.rs), next  *)
(* to everything the other participants can sign.  The Host runs its own   *)
(* session honestly; every other participant signs whatever it likes, and  *)
(* any artifact put together from the signatures that exist is brought to  *)
(* the Host for import.  The Host of a session nobody honest takes part in *)
(* has only the checks of the artifact itself to go by.                    *)
(***************************************************************************)
EXTENDS ReceiptEvidence, TLAPS

CONSTANTS Host, Own,       \* this Host and the session it takes part in
          Wrong,           \* a state the program never computes
          MaxSteps,        \* bound on a trace
          MaxOwnSteps,     \* bound on the steps the Host takes
          MaxForged,       \* bound on commitments made up by the others
          MaxStops,        \* bound on the stops they sign
          MaxImports, MaxRestarts,
          None

HostAssumption == /\ Own \in Sessions /\ Host \in Ensemble[Own]
                         /\ \A s \in Sessions \ {Own} : Host \notin Ensemble[s]

Others(s) == Ensemble[s] \ {Host}

VARIABLES signed,      \* <<signer, commitment>>: every signature that exists
          stops,       \* every signed stop that exists
          forged,      \* commitments made up so far
          exec,        \* the Host's execution of its own session
          log,         \* history: the commitments the Host signed
          receipts,    \* the table of artifacts
          imports,     \* which of them were imported
          production,  \* the artifact the execution published, or None
          refused,     \* history: <<operation, session>> the store refused
          restarts

vars == <<signed, stops, forged, exec, log, receipts, imports, production,
          refused, restarts>>

Agreement(commitment, s, marked) ==
    [signers |-> marked,
     aggregate |-> {x \in signed : x[2] = commitment /\ x[1] \in Ensemble[s]}]

TraceCursor == AgreedTrace(Own, exec.trace).cursor

Init ==
    /\ signed = {} /\ stops = {} /\ forged = 0 /\ log = <<>>
    /\ exec = [status |-> "active", trace |-> <<>>, staged |-> None,
               cause |-> Completed]
    /\ receipts = {} /\ imports = {} /\ production = None
    /\ refused = {} /\ restarts = 0

store == <<receipts, imports, production, refused, restarts>>

-----------------------------------------------------------------------------
(* The Host's own execution.                                               *)

HostEvents == IF exec.trace = <<>> THEN {Started(Own)}
              ELSE {Message(p, d) : p \in Ensemble[Own], d \in Data}

\* The guest runs the next event and the Host signs what it computed.
SignStep ==
    /\ exec.status = "active" /\ exec.staged = None
    /\ Len(exec.trace) < MaxOwnSteps
    /\ \E event \in HostEvents :
         LET cursor == TraceCursor
             post   == Apply(cursor.state, event)
             entry  == Entry(cursor.step, event, cursor.state, post,
                             TerminalAfter(post, event))
             commitment == CommitmentOf(Own, entry, cursor.chain)
         IN /\ Accepts(event)
            /\ signed' = signed \cup {<<Host, commitment>>}
            /\ log' = Append(log, commitment)
            /\ exec' = [exec EXCEPT !.staged = commitment]
    /\ UNCHANGED <<stops, forged, store>>

SignedBy(p, commitment) == <<p, commitment>> \in signed

\* Everyone's signature over the staged commitment: the step is agreed.
CertifyStep ==
    /\ exec.status = "active" /\ exec.staged # None
    /\ \A p \in Ensemble[Own] : SignedBy(p, exec.staged)
    /\ LET entry == exec.staged.entry
           kind  == entry.terminal.kind
       IN exec' = [exec EXCEPT
            !.trace = Append(@, Certified(entry,
                        Agreement(exec.staged, Own, Ensemble[Own]))),
            !.staged = None,
            !.status = StatusAfter(entry.terminal),
            !.cause = IF kind = "abort" THEN SharedStop(exec.staged) ELSE @]
    /\ UNCHANGED <<signed, stops, forged, log, store>>

\* The Host stops by itself, or on a participant's signed stop at its own
\* coordinate; a step that is staged is given up.
StopAt(occurrence) ==
    exec' = [exec EXCEPT !.status = "ended", !.staged = None,
                         !.cause = AuthenticatedStop(occurrence)]

StopItself ==
    /\ exec.status = "active"
    /\ LET occurrence == Occurrence(Own, Host, TraceCursor, Host)
       IN stops' = stops \cup {occurrence} /\ StopAt(occurrence)
    /\ UNCHANGED <<signed, forged, log, store>>

HearStop ==
    /\ exec.status = "active"
    /\ \E occurrence \in stops :
         /\ OccurrenceHolds(Own, occurrence)
         /\ occurrence.sender \in Ensemble[Own]
         /\ occurrence.coordinate = TraceCursor
         /\ StopAt(occurrence)
    /\ UNCHANGED <<signed, stops, forged, log, store>>

-----------------------------------------------------------------------------
(* The other participants.                                                 *)

Commitments == {x[2] : x \in signed}
Links == {ChainStart} \cup {<<c>> : c \in Commitments}
StateAt(link) == IF link = ChainStart THEN Initial ELSE link[1].entry.post
StepAt(link) == IF link = ChainStart THEN 0 ELSE link[1].step + 1

CoSign ==
    /\ \E c \in Commitments :
         LET more == {<<p, c>> : p \in Others(c.session)}
         IN ~(more \subseteq signed) /\ signed' = signed \cup more
    /\ UNCHANGED <<stops, forged, exec, log, store>>

\* A commitment of their own: any event, computed rightly or not, ending the
\* session rightly or not, after any commitment there is.
Forge ==
    /\ forged < MaxForged /\ forged' = forged + 1
    /\ \E s \in Sessions, link \in Links :
       \E event \in {Started(x) : x \in Sessions}
                      \cup {Message(p, d) : p \in Others(s), d \in Data} :
       \E post \in {Apply(StateAt(link), event), Wrong} :
       \E terminal \in {NoTerminal, TerminalAfter(post, event),
                        [kind |-> "end", value |-> post]} :
         /\ StepAt(link) < MaxSteps
         /\ signed' = signed \cup
              {<<p, CommitmentOf(s, Entry(StepAt(link), event, StateAt(link),
                                          post, terminal), link)>> :
                 p \in Others(s)}
    /\ UNCHANGED <<stops, exec, log, store>>

Coordinates == {Genesis} \cup
    {[step |-> c.step + 1, state |-> c.entry.post, chain |-> <<c>>] :
       c \in Commitments}

SignStop ==
    /\ Cardinality(stops) < MaxStops
    /\ \E s \in Sessions, coordinate \in Coordinates, sender \in Ensemble[Own] :
       \E key \in Others(s) :
         stops' = stops \cup {Occurrence(s, sender, coordinate, key)}
    /\ UNCHANGED <<signed, forged, exec, log, store>>

-----------------------------------------------------------------------------
(* Every artifact that can be put together from what was signed.           *)

Entries(s) ==
    {Certified(c.entry, Agreement(c, s, marked)) :
       c \in Commitments,
       marked \in {Ensemble[s], {p \in Ensemble[s] : \E x \in signed : x[1] = p}}}

\* Traces are numbered from 0: any other fails at its first entry.
Traces(s) ==
    LET entries == Entries(s)
        of[n \in 0 .. MaxSteps] ==
          IF n = 0 THEN {<<>>}
          ELSE {Append(t, e) : t \in of[n - 1],
                               e \in {x \in entries : x.entry.step = n - 1}}
    IN UNION {of[n] : n \in 0 .. MaxSteps}

\* Of any session, since the evidence of one may be claimed for another.
CertifiedTraces ==
    {trace \in UNION {Traces(s) : s \in Sessions} :
       \E s \in Sessions : AgreedTrace(s, trace).ok}

Terminations ==
    {Completed} \cup {SharedStop(c) : c \in Commitments}
                \cup {AuthenticatedStop(o) : o \in stops}

Outcomes(trace) == {<<>>, LastTerminal(trace).value, Wrong}

Artifacts ==
    {b \in UNION {{Body(s, t, o, trace) : t \in Terminations,
                                          o \in Outcomes(trace)} :
                  s \in Sessions, trace \in CertifiedTraces} :
       ValidArtifact(b)}

-----------------------------------------------------------------------------
(* The receipt tables.                                                     *)

\* Any second artifact of a session is refused.
MayInsertFirst(b) == b \in receipts \/ \A r \in receipts : r.session # b.session

\* insert_artifact: an artifact is stored once; a second canonical receipt
\* of a session is refused.
MayInsert(b) ==
    \/ b \in receipts
    \/ KindOf(b) = "stop_report"
    \/ \A r \in receipts : r.session = b.session => KindOf(r) # "receipt"

Import(b) ==
    /\ b \notin imports
    /\ MayInsert(b) => Cardinality(imports) < MaxImports
    /\ IF MayInsert(b)
       THEN /\ receipts' = receipts \cup {b}
            /\ imports' = imports \cup {b}
            /\ UNCHANGED refused
       ELSE /\ refused' = refused \cup {<<"import", b.session>>}
            /\ UNCHANGED <<receipts, imports>>
    /\ UNCHANGED <<signed, stops, forged, exec, log, production, restarts>>

ImportSome == \E b \in Artifacts : Import(b)

\* assemble_terminal_artifact.
Assembled ==
    Body(Own, exec.cause,
         IF exec.cause.kind = "completed" THEN LastTerminal(exec.trace).value
                                          ELSE <<>>,
         exec.trace)

\* persist_terminal_publication, in the transaction that archives the
\* execution.
Publish ==
    /\ exec.status = "ended"
    /\ IF ValidArtifact(Assembled) /\ MayInsert(Assembled)
       THEN /\ receipts' = receipts \cup {Assembled}
            /\ production' = Assembled
            /\ exec' = [exec EXCEPT !.status = "published"]
            /\ UNCHANGED refused
       ELSE /\ refused' = refused \cup {<<"publish", Own>>}
            /\ UNCHANGED <<receipts, production, exec>>
    /\ UNCHANGED <<signed, stops, forged, log, imports, restarts>>

\* load_receipt: the Host's own publication, never an import.
LoadReceipt(s) == IF production # None /\ production.session = s
                  THEN production ELSE None

\* from_facts over the two tables.
Provenance(b) ==
    CASE b \in imports /\ b = production -> "both"
      [] b = production                  -> "produced"
      [] b \in imports                   -> "imported"
      [] OTHER                           -> "none"

\* A row decodes to the artifact it is indexed by; what was produced here
\* belongs to the ended execution.
Decodes(b) ==
    /\ ValidArtifact(b)
    /\ b = production => b.session = Own /\ exec.status = "published"
    /\ Provenance(b) # "none"

\* An unfinished execution has published nothing.
TerminalRowsValid == (exec.status = "published") = (production # None)

\* Artifacts produced here are not decoded.
ReceiptRowsValid == \A r \in receipts : r = production \/ Decodes(r)

\* Reopening: the rows of an execution that is not archived, then the
\* receipts.
OpenAccepts ==
    /\ exec.status # "published" =>
         /\ TerminalRowsValid
         /\ AgreedTrace(Own, exec.trace).ok
         /\ exec.staged # None => ValidProposal(Own, TraceCursor, exec.staged)
    /\ ReceiptRowsValid

Restart ==
    /\ restarts < MaxRestarts /\ restarts' = restarts + 1
    /\ refused' = IF OpenAccepts THEN refused
                  ELSE refused \cup {<<"open", Own>>}
    /\ UNCHANGED <<signed, stops, forged, exec, log, receipts, imports,
                   production>>

Next ==
    \/ SignStep \/ CertifyStep \/ StopItself \/ HearStop
    \/ CoSign \/ Forge \/ SignStop
    \/ ImportSome \/ Publish \/ Restart

Spec == Init /\ [][Next]_vars

-----------------------------------------------------------------------------
(* Properties.                                                             *)

\* The tables refer to what they hold, and the history of refusals names
\* operations of the store.
TypeOK ==
    /\ imports \subseteq receipts
    /\ production # None => production \in receipts
    /\ (production # None) = (exec.status = "published")
    /\ exec.status \in {"active", "ended", "published"}
    /\ Len(exec.trace) <= MaxOwnSteps
    /\ refused \subseteq {"import", "publish", "open"} \X Sessions

\* Whatever the other participants sign and whatever artifact is put
\* together from it, evidence of the Host's session that passes light
\* verification tells the steps the Host itself signed, in order, and
\* nothing else (validate_agreed_trace over one honest signature).
EvidenceIsWhatTheHostSigned ==
    \A b \in Artifacts : b.session = Own =>
        /\ Len(b.trace) <= Len(log)
        /\ \A k \in 1 .. Len(b.trace) : b.trace[k].entry = log[k].entry

\* Two certified receipts of a session one honest Host took part in are the
\* same artifact, which is why insert_artifact may treat a second one as
\* corruption.
OneReceiptPerSession ==
    \A a, b \in Artifacts :
        a.session = Own /\ b.session = Own
          /\ KindOf(a) = "receipt" /\ KindOf(b) = "receipt" => a = b

\* Evidence of the Host's session always passes full verification as well:
\* what an honest participant signed is what the program computes.
HonestEvidenceReplays ==
    \A b \in Artifacts : b.session = Own => VerifyFull(b)

\* Full verification of evidence nobody honest signed still shows a run of
\* the program: each entry holds the state of all the data so far, only the
\* last one ends it, in the way the program ends it, and a completion
\* reports the outcome of the final state.
FullyVerifiedIsARun ==
    \A b \in Artifacts : VerifyFull(b) =>
        LET states == [k \in 1 .. Len(b.trace) |->
                         [j \in 1 .. k |-> DataOf(b.trace[j].entry.event)]]
        IN /\ \A k \in 1 .. Len(b.trace) :
                /\ b.trace[k].entry.post = states[k]
                /\ DataOf(b.trace[k].entry.event) \notin Rejects
                /\ (k < Len(b.trace)) =>
                     DataOf(b.trace[k].entry.event) \notin Ends \cup Aborts
           /\ b.termination.kind = "completed" =>
                /\ b.outcome = states[Len(b.trace)]
                /\ DataOf(b.trace[Len(b.trace)].entry.event) \in Ends
           /\ b.termination.kind = "shared" =>
                DataOf(b.trace[Len(b.trace)].entry.event) \in Aborts
           /\ b.termination.kind = "authenticated" =>
                \A k \in 1 .. Len(b.trace) :
                   DataOf(b.trace[k].entry.event) \notin Ends \cup Aborts

\* The table never holds two certified receipts of a session, even one whose
\* participants all signed both (insert_artifact).
OneCanonicalRow ==
    \A a, b \in receipts :
        a.session = b.session /\ KindOf(a) = "receipt" /\ KindOf(b) = "receipt"
          => a = b

\* No import ever keeps the Host from publishing how its own session ended,
\* or from opening its store again; only evidence of sessions without an
\* honest participant is refused as a conflict.
NothingOwnIsRefused ==
    \A r \in refused : r[1] = "import" /\ r[2] # Own

\* What the Host published is its answer for the session from then on, and
\* what was imported stays imported, whatever is imported later.
PublicationIsKept ==
    [][/\ LoadReceipt(Own) # None => LoadReceipt(Own)' = LoadReceipt(Own)
       /\ production' # production =>
            /\ production' = Assembled
            /\ production' \in receipts'
       /\ imports \subseteq imports' /\ receipts \subseteq receipts']_vars

-----------------------------------------------------------------------------
(* Proofs. An execution is published once: only an ended one is, and from   *)
(* then on it is neither active nor ended.                                  *)

PublishedOnce ==
    /\ "status" \in DOMAIN exec
    /\ production # None => exec.status = "published"

LEMMA StatusStays ==
    ASSUME PublishedOnce, [Next]_vars
    PROVE  "status" \in DOMAIN exec'
<1>1. CASE SignStep
  BY <1>1 DEF PublishedOnce, SignStep
<1>2. CASE CertifyStep
  BY <1>2 DEF PublishedOnce, CertifyStep
<1>3. CASE StopItself \/ HearStop
  BY <1>3 DEF PublishedOnce, StopItself, HearStop, StopAt
<1>4. CASE Publish
  BY <1>4 DEF PublishedOnce, Publish
<1>5. CASE CoSign \/ Forge \/ SignStop \/ ImportSome \/ Restart \/ UNCHANGED vars
  BY <1>5 DEF PublishedOnce, vars, CoSign, Forge, SignStop, ImportSome, Import, Restart
<1> QED
  BY <1>1, <1>2, <1>3, <1>4, <1>5 DEF Next

\* Only Publish writes the publication, and an import only adds.
LEMMA StoreSteps ==
    ASSUME [Next]_vars, ~Publish
    PROVE  /\ production' = production
           /\ imports \subseteq imports' /\ receipts \subseteq receipts'
BY DEF Next, vars, store, SignStep, CertifyStep, StopItself, HearStop,
       CoSign, Forge, SignStop, ImportSome, Import, Restart

LEMMA PublishedStays ==
    ASSUME PublishedOnce, [Next]_vars
    PROVE  PublishedOnce'
<1>1. "status" \in DOMAIN exec'
  BY StatusStays
<1>2. CASE Publish
  BY <1>1, <1>2 DEF PublishedOnce, Publish
<1>3. CASE ~Publish
  <2>1. production' = production
    BY <1>3, StoreSteps
  <2>2. production # None => exec' = exec
    BY <1>3 DEF PublishedOnce, Next, vars, SignStep, CertifyStep, StopItself, HearStop,
       CoSign, Forge, SignStop, ImportSome, Import, Restart
  <2> QED  BY <1>1, <2>1, <2>2 DEF PublishedOnce
<1> QED
  BY <1>2, <1>3

\* What persist_terminal_publication recorded stays load_receipt's answer for
\* the session, and imports only add to the tables, whatever is signed, brought
\* in and restarted.
THEOREM PublicationKept == Spec => PublicationIsKept
<1>1. Init => PublishedOnce
  BY DEF Init, PublishedOnce
<1>2. PublishedOnce /\ [Next]_vars => PublishedOnce'
  BY PublishedStays
<1>3. ASSUME PublishedOnce, [Next]_vars
      PROVE  /\ LoadReceipt(Own) # None => LoadReceipt(Own)' = LoadReceipt(Own)
             /\ production' # production => production' = Assembled /\ production' \in receipts'
             /\ imports \subseteq imports' /\ receipts \subseteq receipts'
  <2>1. CASE Publish
    <3>1. production = None
      BY <1>3, <2>1 DEF PublishedOnce, Publish
    <3>2. LoadReceipt(Own) = None
      BY <3>1 DEF LoadReceipt
    <3>3. /\ production' # production => production' = Assembled /\ production' \in receipts'
          /\ imports \subseteq imports' /\ receipts \subseteq receipts'
      <4>1. CASE ValidArtifact(Assembled) /\ MayInsert(Assembled)
        BY <2>1, <4>1 DEF Publish
      <4>2. CASE ~(ValidArtifact(Assembled) /\ MayInsert(Assembled))
        BY <2>1, <4>2 DEF Publish
      <4> QED  BY <4>1, <4>2
    <3> QED  BY <3>2, <3>3
  <2>2. CASE ~Publish
    BY <1>3, <2>2, StoreSteps DEF LoadReceipt
  <2> QED  BY <2>1, <2>2
<1> QED
  BY <1>1, <1>2, <1>3, PTL DEF Spec, PublicationIsKept

\* insert_artifact keeps the canonical receipt of a session unique, also of a
\* session between strangers who signed two.
THEOREM CanonicalRow == Spec => []OneCanonicalRow
<1>1. Init => OneCanonicalRow
  BY DEF Init, OneCanonicalRow
<1>2. OneCanonicalRow /\ [Next]_vars => OneCanonicalRow'
  <2> SUFFICES ASSUME OneCanonicalRow, [Next]_vars PROVE OneCanonicalRow'
    OBVIOUS
  <2>1. ASSUME NEW b, MayInsert(b), receipts' = receipts \cup {b} PROVE OneCanonicalRow'
    BY <2>1 DEF MayInsert, OneCanonicalRow
  <2>2. ASSUME receipts' = receipts PROVE OneCanonicalRow'
    BY <2>2 DEF OneCanonicalRow
  <2>3. ASSUME NEW b \in Artifacts, Import(b) PROVE OneCanonicalRow'
    BY <2>1, <2>2, <2>3 DEF Import
  <2>4. CASE Publish
    BY <2>1, <2>2, <2>4 DEF Publish
  <2>5. CASE ~Publish /\ ~ImportSome
    BY <2>2, <2>5 DEF Next, vars, store, SignStep, CertifyStep, StopItself, HearStop,
       CoSign, Forge, SignStop, Restart
  <2> QED  BY <2>3, <2>4, <2>5 DEF ImportSome
<1> QED
  BY <1>1, <1>2, PTL DEF Spec

=============================================================================
