----------------------------- MODULE HostRecord -----------------------------
(***************************************************************************)
(* One Host's durable record of an execution: the aggregate, the event,    *)
(* step and timer rows beside it, and what the single actor that writes it *)
(* does with callouts and timers (arena0-node execution/guest.rs, actor.rs *)
(* and terminal.rs; arena0-protocol execution/state.rs; arena0-store       *)
(* database/execution.rs and timers.rs).                                   *)
(*                                                                         *)
(* An action runs to its durable write. What the handler does next is an   *)
(* action of its own, because the process may die between two writes and   *)
(* the ticker runs the same code anyway. The peers are one signer.         *)
(***************************************************************************)
EXTENDS Naturals, Sequences, FiniteSets

CONSTANTS
  Questions,          \* callout index and context, as derived by the program
  Delays,             \* delays a SetTimer effect may ask for
  None,
  MaxActiveTimers,    \* MAX_ACTIVE_TIMERS
  MaxTimerBatch,      \* MAX_TIMER_BATCH
  \* Bounds of the model.
  MaxEvents,          \* events other than firings of timers
  MaxFaults,          \* store writes that report an error
  MaxCrashes

RecordAssumption ==
  /\ MaxActiveTimers \in Nat /\ MaxTimerBatch \in Nat \ {0}
  /\ Delays \subseteq Nat
  /\ {MaxEvents, MaxFaults, MaxCrashes} \subseteq Nat
  /\ None \notin Questions

VARIABLES
  db,         \* the execution's rows
  actor,      \* "Up", "Failing" (an error reached continue_after) or "Down"
  now,        \* the wall clock
  told,       \* callouts the agent has been told of, and may answer any time
  faults, crashes

vars == <<db, actor, now, told, faults, crashes>>

Signers == {"own", "peers"}

OpenCallout == [id : Nat, question : Questions]

\* The staged step: what certification will install.
SharedProposal ==
  [position : Nat, delays : Seq(Delays), callout : OpenCallout \cup {None},
   ends : BOOLEAN, signed : SUBSET Signers]

ActiveTimer == [position : Nat, ordinal : Nat, deadline : Nat, armed : Nat]

\* The row stores the event and its effects. As history the model adds what
\* the event consumed (a callout or a timer), the callout it left the program
\* asking, and when it was dispatched.
EventRecord ==
  [kind : {"SessionStarted", "MessageReceived", "InputReceived",
           "TimerFired", "DirectReceived"},
   of : OpenCallout \cup ActiveTimer \cup {None},
   asked : OpenCallout \cup {None}, at : Nat]

Record ==
  [version : Nat, status : {"Activating", "Active", "Terminal", "Published"},
   position : Nat, agreed : Nat, callout : OpenCallout \cup {None},
   pending : SharedProposal \cup {None},
   events : Seq(EventRecord), steps : Seq([origin : Nat, version : Nat]),
   timers : SUBSET ActiveTimer, produced : BOOLEAN]

TypeOK ==
  /\ db \in Record
  /\ actor \in {"Up", "Failing", "Down"}
  /\ now \in Nat
  /\ told \subseteq OpenCallout
  /\ faults \in 0..MaxFaults /\ crashes \in 0..MaxCrashes

\* create_execution: the row of an execution that has not been activated.
NewExecution ==
  [version |-> 1, status |-> "Activating", position |-> 0, agreed |-> 0,
   callout |-> None, pending |-> None, events |-> <<>>, steps |-> <<>>,
   timers |-> {}, produced |-> FALSE]

Init ==
  /\ db = NewExecution
  /\ actor = "Up"
  /\ now = 0
  /\ told = {}
  /\ faults = 0 /\ crashes = 0

-----------------------------------------------------------------------------
(* The store.                                                              *)

\* One transaction. A write whose reply is an error may have committed; the
\* actor then reloads the rows, whatever they are, and goes where the error
\* leads.
Persist(next, error) ==
  \/ db' = next /\ actor' = "Up" /\ UNCHANGED faults
  \/ /\ faults < MaxFaults
     /\ faults' = faults + 1
     /\ db' \in {db, next}
     /\ actor' = error

\* A transaction the store itself refuses: nothing of it is kept.
Refused == db' = db /\ actor' = "Failing" /\ UNCHANGED faults

HasRoom(delays) == Cardinality(db.timers) + Len(delays) <= MaxActiveTimers

Armed(position, version, delays) ==
  {[position |-> position, ordinal |-> i, deadline |-> now + delays[i],
    armed |-> version] : i \in DOMAIN delays}

-----------------------------------------------------------------------------
(* Dispatching an event.                                                   *)

NotFrozen == actor = "Up" /\ db.status = "Active" /\ db.pending = None

\* The callout after an accepted event: an unchanged question keeps its
\* identity, unless this event answered it.
NextOpenCallout(kind, question) ==
  IF question = None THEN None
  ELSE IF /\ db.callout # None /\ kind # "InputReceived"
          /\ db.callout.question = question
       THEN db.callout
       ELSE [id |-> db.position, question |-> question]

EventRow(kind, of, question) ==
  Append(db.events, [kind |-> kind, of |-> of, at |-> now,
                     asked |-> NextOpenCallout(kind, question)])

\* An accepted local event: row, effects and consumed timer in one write.
\* The new timers are counted before the fired one is deleted.
LocalDispatch(kind, of, question, delays) ==
  /\ NotFrozen
  /\ IF HasRoom(delays)
     THEN Persist([db EXCEPT
            !.version = @ + 1, !.position = @ + 1,
            !.events = EventRow(kind, of, question),
            !.callout = NextOpenCallout(kind, question),
            !.timers = (@ \cup Armed(db.position, db.version + 1, delays))
                         \ {of}], "Failing")
     ELSE Refused

\* Mutant: an agreed event sets its timers when it is staged.
StageArmsTimers(kind, question, delays, ends) ==
  /\ NotFrozen
  /\ ends => question = None /\ delays = <<>>
  /\ HasRoom(delays)
  /\ Persist([db EXCEPT
       !.version = @ + 1, !.position = @ + 1,
       !.events = EventRow(kind, None, question),
       !.pending = [position |-> db.position, delays |-> <<>>,
                    callout |-> NextOpenCallout(kind, question),
                    ends |-> ends, signed |-> {}],
       !.timers = @ \cup Armed(db.position, db.version + 1, delays)],
       "Failing")

\* An accepted agreed event stages a proposal with its effects.
StageProposal(kind, question, delays, ends) ==
  /\ NotFrozen
  /\ ends => question = None /\ delays = <<>>
  /\ Persist([db EXCEPT
       !.version = @ + 1, !.position = @ + 1,
       !.events = EventRow(kind, None, question),
       !.pending = [position |-> db.position, delays |-> delays,
                    callout |-> NextOpenCallout(kind, question),
                    ends |-> ends, signed |-> {}]], "Failing")

-----------------------------------------------------------------------------
(* The actor's operations.                                                 *)

Activate ==
  /\ actor = "Up" /\ db.status = "Activating"
  /\ Persist([db EXCEPT !.version = @ + 1, !.status = "Active"], "Failing")
  /\ UNCHANGED <<now, told, crashes>>

EnsureSessionStarted(question, delays, ends) ==
  /\ db.agreed = 0
  /\ StageProposal("SessionStarted", question, delays, ends)
  /\ UNCHANGED <<now, told, crashes>>

\* A peer's message, or this participant's own queued one.
ApplyMessage(question, delays, ends) ==
  /\ db.agreed > 0 /\ db.position < MaxEvents
  /\ StageProposal("MessageReceived", question, delays, ends)
  /\ UNCHANGED <<now, told, crashes>>

\* The agent answers a callout it was told of, possibly long ago. Answers to
\* any other callout than the open one, answers while frozen and answers the
\* program rejects change nothing.
SubmitInput(answered, question, delays) ==
  /\ answered \in told
  /\ db.callout # None /\ db.callout.id = answered.id
  /\ db.position < MaxEvents
  /\ LocalDispatch("InputReceived", answered, question, delays)
  /\ UNCHANGED <<now, told, crashes>>

DispatchDirect(question, delays) ==
  /\ db.agreed > 0 /\ db.position < MaxEvents
  /\ LocalDispatch("DirectReceived", None, question, delays)
  /\ UNCHANGED <<now, told, crashes>>

Due(t) == t \in db.timers /\ t.deadline <= now

\* due_timers: the first MAX_TIMER_BATCH by deadline, ties broken by a hash.
DueTimers ==
  {t \in db.timers :
     /\ Due(t)
     /\ Cardinality({s \in db.timers : s.deadline < t.deadline})
          < MaxTimerBatch}

\* fire_due_timers dispatches one timer. A rejected one stays due.
FireTimer(t, question, delays) ==
  /\ t \in DueTimers
  /\ db.position < MaxEvents \/ delays = <<>>
  /\ LocalDispatch("TimerFired", t, question, delays)
  /\ UNCHANGED <<now, told, crashes>>

\* A dispatch ends in an error: a rejected session start, a trapped timer
\* handler, a peer message this program cannot reproduce.
DispatchFails ==
  /\ NotFrozen
  /\ Refused
  /\ UNCHANGED <<now, told, crashes>>

Certified(proposal) ==
  [db EXCEPT
     !.version = @ + 1, !.agreed = @ + 1, !.pending = None,
     !.status = IF proposal.ends THEN "Terminal" ELSE "Active",
     !.callout = proposal.callout,
     !.steps = Append(@, [origin |-> proposal.position,
                          version |-> db.version + 1]),
     !.timers = @ \cup Armed(proposal.position, db.version + 1,
                             proposal.delays)]

\* ensure_step_signature, or a signature frame of the peers. The last one
\* certifies the step and releases its effects in the same write.
AddStepSignature(who) ==
  LET signed == db.pending.signed \cup {who} IN
  /\ actor = "Up" /\ db.pending # None
  /\ who \notin db.pending.signed
  /\ IF signed # Signers
     THEN Persist([db EXCEPT !.version = @ + 1, !.pending.signed = signed],
                  "Failing")
     ELSE IF HasRoom(db.pending.delays)
          THEN Persist(Certified(db.pending), "Failing")
          ELSE Refused
  /\ UNCHANGED <<now, told, crashes>>

MayStop(who) ==
  /\ db.status \in {"Activating", "Active"}
  /\ db.pending # None => who \notin db.pending.signed

Stopped ==
  [db EXCEPT !.version = @ + 1, !.status = "Terminal",
             !.callout = None, !.pending = None]

\* The agent terminates, or a peer's abort occurrence arrives.
Stop(who) ==
  /\ actor = "Up" /\ MayStop(who)
  /\ Persist(Stopped, "Failing")
  /\ UNCHANGED <<now, told, crashes>>

PublishedRecord ==
  [db EXCEPT !.version = @ + 1, !.status = "Published", !.callout = None,
             !.produced = TRUE]

FinalizeReceipt ==
  /\ actor = "Up" /\ db.status = "Terminal"
  /\ Persist(PublishedRecord, "Failing")
  /\ UNCHANGED <<now, told, crashes>>

\* fail_terminal: a running execution stops with a local Fail unless its own
\* signature is already in a proposal; a terminal one only publishes.
FailTerminal ==
  /\ actor = "Failing"
  /\ CASE db.status = "Published" ->
            actor' = "Up" /\ UNCHANGED <<db, faults>>
       [] db.status = "Terminal" -> Persist(PublishedRecord, "Up")
       [] OTHER -> IF MayStop("own") THEN Persist(Stopped, "Down")
                   ELSE actor' = "Down" /\ UNCHANGED <<db, faults>>
  /\ UNCHANGED <<now, told, crashes>>

\* announce_callout: once per run and identity, and again after a restart.
AnnounceCallout ==
  /\ actor = "Up" /\ db.status = "Active"
  /\ db.callout # None /\ db.callout \notin told
  /\ told' = told \cup {db.callout}
  /\ UNCHANGED <<db, actor, now, faults, crashes>>

-----------------------------------------------------------------------------
(* Reopening the store.                                                    *)

\* validate_event_rows: as many rows as the cursor says, and a proposal is
\* paired with the last one.
EventRowsValid ==
  /\ Len(db.events) = db.position
  /\ db.pending # None => db.pending.position + 1 = db.position

\* validate_agreed_rows: one certified row per step, in the order of events.
AgreedRowsValid ==
  /\ Len(db.steps) = db.agreed
  /\ \A i \in DOMAIN db.steps :
       /\ db.steps[i].origin < db.position
       /\ db.events[db.steps[i].origin + 1].kind
            = IF i = 1 THEN "SessionStarted" ELSE "MessageReceived"
       /\ db.steps[i].version <= db.version
       /\ i > 1 => db.steps[i - 1].origin < db.steps[i].origin

\* validate_timer_rows.
TimerRowsValid ==
  \A t \in db.timers : t.armed >= 1 /\ t.armed <= db.version

\* validate_terminal_relation.
TerminalRowsValid == db.produced <=> db.status = "Published"

\* validate_recovered: the aggregate is consistent with itself.
RecoveredValid ==
  /\ db.callout # None => db.status = "Active"
  /\ db.pending # None => db.status = "Active"

Restart ==
  /\ actor = "Down"
  /\ EventRowsValid /\ AgreedRowsValid /\ TimerRowsValid
  /\ TerminalRowsValid /\ RecoveredValid
  /\ actor' = "Up"
  /\ UNCHANGED <<db, now, told, faults, crashes>>

Crash ==
  /\ actor # "Down" /\ crashes < MaxCrashes
  /\ crashes' = crashes + 1
  /\ actor' = "Down"
  /\ UNCHANGED <<db, now, told, faults>>

\* Time matters only while some timer waits for it.
Tick ==
  /\ \E t \in db.timers : t.deadline > now
  /\ now' = now + 1
  /\ UNCHANGED <<db, actor, told, faults, crashes>>

-----------------------------------------------------------------------------

\* At most one timer per dispatch is enough to fill the table.
DelaySeqs == {<<>>} \cup {<<d>> : d \in Delays}

Next ==
  \/ Activate
  \/ \E question \in Questions \cup {None}, delays \in DelaySeqs :
       \/ \E ends \in BOOLEAN : \/ EnsureSessionStarted(question, delays, ends)
                                \/ ApplyMessage(question, delays, ends)
       \/ \E answered \in told : SubmitInput(answered, question, delays)
       \/ DispatchDirect(question, delays)
       \/ \E t \in db.timers : FireTimer(t, question, delays)
  \/ DispatchFails
  \/ \E who \in Signers : AddStepSignature(who) \/ Stop(who)
  \/ FinalizeReceipt \/ FailTerminal \/ AnnounceCallout
  \/ Restart \/ Crash \/ Tick

Spec == Init /\ [][Next]_vars

(***************************************************************************)
(* Fairness. The 50 ms ticker runs progress, which activates, starts the   *)
(* session, fires the first due timer, signs and publishes; the supervisor *)
(* reopens an execution whose actor went down; clocks advance. Peers sign  *)
(* what they receive. The program accepts the timers it set.               *)
(***************************************************************************)
Fairness ==
  /\ WF_vars(Activate)
  /\ WF_vars(\E question \in Questions \cup {None}, delays \in DelaySeqs :
               EnsureSessionStarted(question, delays, FALSE))
  /\ WF_vars(\E t \in DueTimers, question \in Questions \cup {None},
               delays \in DelaySeqs : FireTimer(t, question, delays))
  /\ \A who \in Signers : WF_vars(AddStepSignature(who))
  /\ WF_vars(FinalizeReceipt) /\ WF_vars(FailTerminal)
  /\ WF_vars(Restart) /\ WF_vars(Tick)

FairSpec == Spec /\ Fairness

-----------------------------------------------------------------------------
(* Properties.                                                             *)

\* Whatever the actor does, loses or repeats, the rows always pass the
\* checks that reopening the store makes: an execution can be recovered from
\* every state a crash can leave.
ReopenValidates ==
  /\ EventRowsValid /\ AgreedRowsValid /\ TimerRowsValid
  /\ TerminalRowsValid /\ RecoveredValid

\* The event that armed t took effect before: it was local, or its step was
\* certified by the very write that armed t.
ArmedByAcceptedEvent(t) ==
  LET kind == db.events[t.position + 1].kind IN
  /\ t.position < db.position
  /\ kind \in {"SessionStarted", "MessageReceived"} =>
       \E i \in DOMAIN db.steps :
         db.steps[i] = [origin |-> t.position, version |-> t.armed]

\* Every firing is of a timer an accepted event set, not before its deadline
\* and not again: a timer of a staged step that was never certified does not
\* fire, and neither a lost reply, a crash between two firings of a batch nor
\* a freeze makes one fire twice.
TimersFireOnce ==
  /\ \A t \in db.timers : ArmedByAcceptedEvent(t)
  /\ \A i \in DOMAIN db.events : db.events[i].kind = "TimerFired" =>
       LET t == db.events[i].of IN
       /\ ArmedByAcceptedEvent(t) /\ t.position + 1 < i
       /\ t.deadline <= db.events[i].at
       /\ t \notin db.timers
       /\ \A j \in DOMAIN db.events : db.events[j].of = t => j = i

\* An answer reaches the program only while it asks that very question: from
\* the event that opened the callout to the answer every event left the same
\* callout open and none was an answer. An agent that answers late, twice or
\* across a restart is told so instead.
AnswersAreCurrent ==
  \A i \in DOMAIN db.events : db.events[i].kind = "InputReceived" =>
    LET answered == db.events[i].of IN
    /\ answered.id + 1 < i
    /\ \A j \in (answered.id + 1)..(i - 1) :
         /\ db.events[j].asked = answered
         /\ j > answered.id + 1 => db.events[j].kind # "InputReceived"

\* Nothing reaches the program after the conclusion, although timers remain
\* due and the agent may still answer: only the receipt is added.
NothingAfterConclusion ==
  [][db.status \in {"Terminal", "Published"} =>
       /\ db'.events = db.events /\ db'.steps = db.steps
       /\ db'.status \in {db.status, "Published"}]_vars

\* A step this Host signed whose timers do not fit: the write that certifies it
\* is refused (put_timer), and a signed step may not be stopped either.
StuckAtTheLimit ==
  /\ db.pending # None /\ "own" \in db.pending.signed
  /\ ~HasRoom(db.pending.delays)

TimersOf(position) == {t \in db.timers : t.position = position}

TimerSettled(position) ==
  \/ db.status \in {"Terminal", "Published"}
  \/ TimersOf(position) = {}
  \/ StuckAtTheLimit

\* A timer set is eventually fired or the session has concluded, or the Host has
\* signed a step for whose timers the table has no room: freezes, crashes,
\* failed writes and full batches only delay it.
SetTimersFire ==
  \A position \in 0..(MaxEvents - 1) :
    (TimersOf(position) # {}) ~> TimerSettled(position)
=============================================================================
