----------------------------- MODULE HostEvents -----------------------------
(* What the event stream of one Host says about one execution: which task     *)
(* emits which event, from which durable facts, in which order.  The request  *)
(* handler, the negotiation driver, the supervisor that reads the actor's     *)
(* observations, the answer handler and recovery all publish through the same *)
(* junction, each in its own task.                                            *)
EXTENDS Naturals, Sequences, FiniteSets, SequencesExt

CONSTANTS
    OpenJoin,      \* the request is a Join that names no negotiation yet
    MaxSteps,      \* bound: agreed steps
    MaxCallouts,   \* bound: callouts the program opens
    MaxBoots,      \* bound: lifetimes of the Host
    MaxWakes,      \* bound: peers that poke the ended session
    Peers,         \* how many other participants the session has
    LoadMayFail    \* the program may no longer load when the execution is resumed

BoundsAssumption ==
    /\ {OpenJoin, LoadMayFail} \subseteq BOOLEAN
    /\ {MaxSteps, MaxCallouts, MaxBoots, MaxWakes, Peers} \subseteq Nat

VARIABLES
    \* durable
    request,     \* "None", "Open" or "Failed"
    bound,       \* the request names its negotiation
    activation,  \* "None", "Prepared" or "Committed"
    status,      \* "None" without an aggregate
    published,   \* the receipt is published
    end,         \* the end phase
    unconfirmed, \* how many others have not confirmed the end
    trace,       \* per agreed step: the callout whose answer it consumes, or 0
    staged,      \* the proposal waiting for signatures: its answer, or 0; Nothing without one
    outgoing,    \* answers whose message is queued
    callout,     \* the open callout, or 0
    opened,      \* callouts opened so far
    \* volatile
    boots, wakes,
    live,        \* the execution has a handle
    driver,      \* where its negotiation task stands
    chatter,     \* the optional negotiation events of this lifetime are still to come
    actor,       \* "Off", "Starting" or "On"
    sessionStarted, terminalEmitted, announced,   \* the actor's emission flags
    messages,    \* the actor's observations, not yet handled
    supervisor,  \* [on, replay, callout]: callout is one projected and not yet emitted
    answer,      \* the answer handler: [pc, id]
    frames       \* history: the frames of this lifetime, in publication order

durable == <<request, bound, activation, status, published, end, unconfirmed, trace, staged, outgoing, callout, opened>>
actorVars == <<actor, sessionStarted, terminalEmitted, announced, messages>>
vars == <<durable, boots, wakes, live, driver, chatter, actorVars, supervisor, answer, frames>>

Nothing == MaxCallouts + 1
Terminals == {"Completed", "Abort", "Fail"}
Terminal == status \in Terminals

(* The public lifecycle: the failure of a request, an activation without an   *)
(* aggregate, or the aggregate's own.                                         *)
Lifecycle ==
    IF status # "None" THEN [Activating |-> "Activating", Active |-> "Active", Completed |-> "Completed",
                             Abort |-> "Aborted", Fail |-> "Failed"][status]
    ELSE IF request = "Failed" THEN "Failed"
    ELSE IF activation # "None" THEN "Activating" ELSE "Negotiating"

----------------------------------------------------------------------------
(* The junction.  An event has a source; the source and, for the activation   *)
(* events, the payload give the frame its correlation identifiers.            *)

most_specific == IF status # "None" THEN "Session" ELSE IF bound THEN "Negotiation" ELSE "Execution"

event_source == most_specific
recovery_event_source == most_specific
SessionSource == "Session"

Activations == {"NegotiationPrepared", "NegotiationResumed", "NegotiationCommitted"}
Negotiations == Activations \cup {"NegotiationPeers", "NegotiationStarted", "NegotiationOfferAccepted",
                                  "NegotiationTicketAccepted", "NegotiationRetried", "NegotiationRejoined",
                                  "NegotiationTimedOut"}
Sessions == {"SessionStarted", "SessionCallout", "SessionCalloutAnswered", "SessionStep", "SessionEnded",
             "SessionEndProgress"}

correlations(kind, source) == [exec |-> TRUE, session |-> source = "Session" \/ kind \in Activations]

\* api_event: an abort is the end of a session, or the termination of an execution without one.
AbortKindOf(source) == IF source = "Session" THEN "SessionEnded" ELSE "Terminated"

(* EventFrame::new refuses a frame whose identifiers do not fit its kind, and *)
(* the junction panics.                                                       *)
requires_session_id(kind) == kind \in Activations \cup Sessions
allows_session_id(kind) == requires_session_id(kind) \/ kind = "Terminated"
is_exec_scoped(kind) == kind \in Negotiations \cup Sessions \cup {"Created", "Terminated"}
validate_correlations(f) ==
    /\ f.exec = is_exec_scoped(f.kind)
    /\ requires_session_id(f.kind) => f.session
    /\ f.session => allows_session_id(f.kind)

(* n: the step, the callout or the end phase the event names; says: the       *)
(* terminal, the failure class or the origin.                                 *)
Frame(kind, source, n, says) ==
    [kind |-> kind, exec |-> correlations(kind, source).exec, session |-> correlations(kind, source).session,
     n |-> n, says |-> says]

emit(kind, source, n, says) == frames' = Append(frames, Frame(kind, source, n, says))

emit_created(origin) == emit("Created", "Execution", 0, origin)

Closing == {"SessionEnded", "Terminated"}

----------------------------------------------------------------------------
Init ==
    /\ request = "None" /\ bound = ~OpenJoin /\ activation = "None"
    /\ status = "None" /\ published = FALSE /\ end = "Open" /\ unconfirmed = 0
    /\ trace = <<>> /\ staged = Nothing /\ outgoing = <<>> /\ callout = 0 /\ opened = 0
    /\ boots = 1 /\ wakes = 0
    /\ live = FALSE /\ driver = "Off" /\ chatter = {}
    /\ actor = "Off" /\ sessionStarted = FALSE /\ terminalEmitted = FALSE /\ announced = 0
    /\ messages = <<>>
    /\ supervisor = [on |-> FALSE, replay |-> FALSE, callout |-> 0]
    /\ answer = [pc |-> "Idle", id |-> 0]
    /\ frames = <<>>

Chatter == {"NegotiationTicketAccepted", "NegotiationRetried"}

(* exec.new: the request row, the live handle, the event, and only then the   *)
(* negotiation task.                                                          *)
ExecNew ==
    /\ request = "None" /\ driver = "Off"
    /\ request' = "Open" /\ live' = TRUE /\ driver' = "Select" /\ chatter' = Chatter
    /\ emit_created("request")
    /\ UNCHANGED <<bound, activation, status, published, end, unconfirmed, trace, staged, outgoing, callout, opened,
                   boots, wakes, actorVars, supervisor, answer>>

(* drive_negotiation: an open Join is bound to the negotiation it selects     *)
(* before its peers are published.                                            *)
SelectOffer ==
    /\ driver = "Select"
    /\ bound' = TRUE /\ driver' = "Peers"
    /\ UNCHANGED <<request, activation, status, published, end, unconfirmed, trace, staged, outgoing, callout, opened,
                   boots, wakes, live, chatter, actorVars, supervisor, answer, frames>>

publish_negotiation_peers ==
    /\ driver = "Peers"
    /\ driver' = "Attempt"
    /\ IF bound THEN emit("NegotiationPeers", "Negotiation", 0, Lifecycle) ELSE UNCHANGED frames
    /\ UNCHANGED <<durable, boots, wakes, live, chatter, actorVars, supervisor, answer>>

\* The driver's first events: started, resumed for a prepared activation, offer accepted.
DriverStarts ==
    /\ driver = "Attempt"
    /\ driver' = "Gossip"
    /\ frames' = frames \o <<Frame("NegotiationStarted", "Negotiation", 0, "")>>
                        \o (IF activation = "Prepared" THEN <<Frame("NegotiationResumed", "Negotiation", 0, "")>>
                            ELSE <<>>)
                        \o <<Frame("NegotiationOfferAccepted", "Negotiation", 0, "")>>
    /\ UNCHANGED <<durable, boots, wakes, live, chatter, actorVars, supervisor, answer>>

DriverChatters(kind) ==
    /\ driver = "Gossip" /\ kind \in chatter
    /\ chatter' = chatter \ {kind}
    /\ emit(kind, "Negotiation", 0, "")
    /\ UNCHANGED <<durable, boots, wakes, live, driver, actorVars, supervisor, answer>>

\* The prepared and the committed activation are durable before their events.
DriverPrepares ==
    /\ driver = "Gossip" /\ activation = "None"
    /\ activation' = "Prepared"
    /\ emit("NegotiationPrepared", "Negotiation", 0, "")
    /\ UNCHANGED <<request, bound, status, published, end, unconfirmed, trace, staged, outgoing, callout, opened,
                   boots, wakes, live, driver, chatter, actorVars, supervisor, answer>>

DriverCommits ==
    /\ driver = "Gossip" /\ activation = "Prepared"
    /\ activation' = "Committed" /\ driver' = "Spawn"
    /\ emit("NegotiationCommitted", "Negotiation", 0, "")
    /\ UNCHANGED <<request, bound, status, published, end, unconfirmed, trace, staged, outgoing, callout, opened,
                   boots, wakes, live, chatter, actorVars, supervisor, answer>>


spawn(replay) ==
    /\ actor' = "Starting" /\ sessionStarted' = FALSE /\ terminalEmitted' = FALSE /\ announced' = 0
    /\ messages' = <<>>
    /\ supervisor' = [on |-> TRUE, replay |-> replay, callout |-> 0]

DriverSpawns ==
    /\ driver = "Spawn"
    /\ driver' = "Off"
    /\ spawn(FALSE)
    /\ UNCHANGED <<durable, boots, wakes, live, chatter, answer, frames>>

(* The attempt times out, is withdrawn or fails: record_negotiation_failure   *)
(* leaves a request with an activation as it is, and finish_negotiation       *)
(* reports the failure in either case.                                        *)
record_negotiation_failure ==
    /\ driver \in {"Select", "Peers", "Attempt", "Gossip", "Spawn"}
    /\ request' = IF activation = "None" THEN "Failed" ELSE request
    /\ driver' = "Failed"
    /\ UNCHANGED <<bound, activation, status, published, end, unconfirmed, trace, staged, outgoing, callout, opened,
                   boots, wakes, live, chatter, actorVars, supervisor, answer, frames>>

finish_negotiation ==
    /\ driver = "Failed"
    /\ driver' = "Off" /\ live' = FALSE
    /\ emit("Terminated", event_source, 0, "negotiation")
    /\ UNCHANGED <<durable, boots, wakes, chatter, actorVars, supervisor, answer>>

----------------------------------------------------------------------------
(* The actor.  Every durable transition is followed by its observation on the *)
(* message channel; an end phase that changed is observed first.              *)

Send(ms) == messages' = messages \o ms
Message(kind, n) == [kind |-> kind, n |-> n]

\* begin_end: the first terminal status opens the confirmation of every other participant.
BeginEnd ==
    /\ end' = IF end = "Open" THEN "Ending" ELSE end
    /\ unconfirmed' = IF end = "Open" THEN Peers ELSE unconfirmed

EndReported(phase) == <<Message("EndChanged", IF phase = "Ended" THEN 2 ELSE 1)>>
EndChanged == IF end = "Open" THEN EndReported("Ending") ELSE <<>>

ensure_execution ==
    /\ actor = "Starting"
    /\ \/ /\ status' = IF status \in {"None", "Activating"} THEN "Active" ELSE status
          /\ actor' = "On"
          /\ UNCHANGED messages
       \* Without an aggregate the failure cannot be recorded either: the request has an activation.
       \/ /\ status = "None"
          /\ actor' = "Off"
          /\ Send(<<Message("Failed", 0)>>)
          /\ UNCHANGED status
    /\ UNCHANGED <<request, bound, activation, published, end, unconfirmed, trace, staged, outgoing, callout, opened,
                   boots, wakes, live, driver, chatter, sessionStarted, terminalEmitted, announced,
                   supervisor, answer, frames>>

session_start_is_durable == Len(trace) > 0 \/ staged # Nothing

ensure_session_started ==
    /\ actor = "On" /\ status = "Active" /\ ~sessionStarted
    /\ staged' = IF session_start_is_durable THEN staged ELSE 0
    /\ sessionStarted' = TRUE
    /\ Send(<<Message("SessionStarted", 0)>>)
    /\ UNCHANGED <<request, bound, activation, status, published, end, unconfirmed, trace, outgoing, callout, opened,
                   boots, wakes, live, driver, chatter, actor, terminalEmitted, announced,
                   supervisor, answer, frames>>

\* A peer's message, or the head of the own queue, becomes the next proposal.
Stage ==
    /\ actor = "On" /\ status = "Active" /\ sessionStarted /\ staged = Nothing /\ Len(trace) < MaxSteps
    /\ \/ staged' = 0 /\ UNCHANGED outgoing
       \/ outgoing # <<>> /\ staged' = Head(outgoing) /\ outgoing' = Tail(outgoing)
    /\ UNCHANGED <<request, bound, activation, status, published, end, unconfirmed, trace, callout, opened, boots, wakes,
                   live, driver, chatter, actorVars, supervisor, answer, frames>>

NextCallouts == {0, callout} \cup IF opened < MaxCallouts THEN {opened + 1} ELSE {}
OpenCallout(c) == callout' = c /\ opened' = IF c > opened THEN c ELSE opened

\* The last signature certifies the step; the program may complete with it.
persist_step_signature ==
    /\ actor = "On" /\ status = "Active" /\ sessionStarted /\ staged # Nothing
    /\ trace' = Append(trace, staged) /\ staged' = Nothing
    /\ \/ /\ \E c \in NextCallouts : OpenCallout(c)
          /\ Send(<<Message("TraceAppended", Len(trace))>>)
          /\ UNCHANGED <<status, end, unconfirmed>>
       \/ /\ status' = "Completed" /\ BeginEnd /\ callout' = 0
          /\ Send(EndChanged \o <<Message("TraceAppended", Len(trace))>>)
          /\ UNCHANGED opened
    /\ UNCHANGED <<request, bound, activation, published, outgoing, boots, wakes, live, driver, chatter, actor,
                   sessionStarted, terminalEmitted, announced, supervisor, answer, frames>>

announce_callout ==
    /\ actor = "On" /\ status = "Active" /\ callout # 0 /\ callout # announced
    /\ announced' = callout
    /\ Send(<<Message("CalloutRequested", callout)>>)
    /\ UNCHANGED <<durable, boots, wakes, live, driver, chatter, actor, sessionStarted, terminalEmitted,
                   supervisor, answer, frames>>

\* A stop of this Host or of a peer, or a local failure.
persist_abort(kind) ==
    /\ actor = "On" /\ status = "Active" /\ staged = Nothing
    /\ status' = kind /\ BeginEnd /\ callout' = 0
    /\ Send(EndChanged)
    /\ UNCHANGED <<request, bound, activation, published, trace, staged, outgoing, opened, boots, wakes, live,
                   driver, chatter, actor, sessionStarted, terminalEmitted, announced, supervisor, answer, frames>>

publish_receipt ==
    /\ actor = "On" /\ Terminal /\ ~published
    /\ published' = TRUE
    /\ UNCHANGED <<request, bound, activation, status, end, unconfirmed, trace, staged, outgoing, callout, opened, boots, wakes,
                   live, driver, chatter, actorVars, supervisor, answer, frames>>

emit_published_terminal ==
    /\ actor = "On" /\ published /\ ~terminalEmitted
    /\ terminalEmitted' = TRUE
    /\ Send(<<Message([Completed |-> "Completed", Abort |-> "Aborted", Fail |-> "Failed"][status], 0)>>)
    /\ UNCHANGED <<durable, boots, wakes, live, driver, chatter, actor, sessionStarted, announced,
                   supervisor, answer, frames>>

\* A participant acknowledges or shows the same evidence, also after the window closed.
confirm_end ==
    /\ actor = "On" /\ end # "Open" /\ unconfirmed > 0
    /\ unconfirmed' = unconfirmed - 1
    /\ end' = IF unconfirmed = 1 THEN "Ended" ELSE end
    /\ Send(EndReported(end'))
    /\ UNCHANGED <<request, bound, activation, status, published, trace, staged, outgoing, callout, opened,
                   boots, wakes, live, driver, chatter, actor, sessionStarted, terminalEmitted, announced,
                   supervisor, answer, frames>>

\* The window for confirmations closes.
expire_end ==
    /\ actor = "On" /\ published /\ terminalEmitted /\ end = "Ending"
    /\ end' = "Ended"
    /\ Send(EndReported("Ended"))
    /\ UNCHANGED <<request, bound, activation, status, published, unconfirmed, trace, staged, outgoing, callout,
                   opened, boots, wakes, live, driver, chatter, actor, sessionStarted, terminalEmitted, announced,
                   supervisor, answer, frames>>

\* Nobody is left to confirm, or the window of this run is over.
end_run_finished ==
    /\ actor = "On" /\ published /\ terminalEmitted /\ end = "Ended"
    /\ actor' = "Off"
    /\ UNCHANGED <<durable, boots, wakes, live, driver, chatter, sessionStarted, terminalEmitted, announced,
                   messages, supervisor, answer, frames>>

----------------------------------------------------------------------------
(* exec.submit: the handler finds the callout pending, the actor accepts the  *)
(* answer (or refuses it: frozen, replaced, rejected by the program), and the *)
(* handler publishes the event after the actor's reply.                       *)
Submit ==
    /\ live /\ answer.pc = "Idle" /\ callout # 0
    /\ answer' = [pc |-> "Sent", id |-> callout]
    /\ UNCHANGED <<durable, boots, wakes, live, driver, chatter, actorVars, supervisor, frames>>

submit_input ==
    /\ answer.pc = "Sent"
    /\ \/ /\ actor = "On" /\ status = "Active" /\ callout = answer.id /\ staged = Nothing
          /\ outgoing' = Append(outgoing, answer.id)
          /\ \E c \in NextCallouts \ {callout} : OpenCallout(c)
          /\ answer' = [answer EXCEPT !.pc = "Acked"]
       \/ /\ answer' = [pc |-> "Idle", id |-> 0]
          /\ UNCHANGED <<outgoing, callout, opened>>
    /\ UNCHANGED <<request, bound, activation, status, published, end, unconfirmed, trace, staged, boots, wakes, live, driver,
                   chatter, actorVars, supervisor, frames>>

submit ==
    /\ answer.pc = "Acked"
    /\ answer' = [pc |-> "Idle", id |-> 0]
    /\ emit("SessionCalloutAnswered", event_source, answer.id, "")
    /\ UNCHANGED <<durable, boots, wakes, live, driver, chatter, actorVars, supervisor>>

----------------------------------------------------------------------------
(* The supervisor: one observation at a time; a replayed run reports nothing  *)
(* but its end phase.                                                         *)

Take == supervisor.on /\ supervisor.callout = 0 /\ messages # <<>>

handle_message ==
    /\ Take
    /\ messages' = Tail(messages)
    /\ LET m == Head(messages) IN
       /\ m.kind # "CalloutRequested"
       /\ IF supervisor.replay /\ m.kind # "EndChanged" THEN UNCHANGED frames
          ELSE CASE m.kind = "EndChanged" -> emit("SessionEndProgress", SessionSource, m.n, "")
                 [] m.kind = "SessionStarted" -> emit("SessionStarted", SessionSource, 0, "")
                 [] m.kind = "TraceAppended" -> emit("SessionStep", SessionSource, m.n, "")
                 [] m.kind = "Completed" -> emit("SessionEnded", SessionSource, 0, "Completed")
                 [] m.kind = "Aborted" -> emit("SessionEnded", SessionSource, 0, "Abort")
                 \* A failure is read back: without an aggregate there is nothing to report, and
                 \* an execution that stopped with an abort reports the abort.
                 [] m.kind = "Failed" /\ status = "None" -> UNCHANGED frames
                 [] m.kind = "Failed" /\ status = "Abort" ->
                        emit(AbortKindOf(event_source), event_source, 0, "Abort")
                 [] m.kind = "Failed" /\ status \notin {"None", "Abort"} ->
                        emit("Terminated", event_source, 0, "runtime")
    /\ UNCHANGED <<durable, boots, wakes, live, driver, chatter, actor, sessionStarted, terminalEmitted, announced,
                   supervisor, answer>>

\* project_callout reads whether the announced callout is still the open one, and the program's schema.
project_callout ==
    /\ Take
    /\ Head(messages).kind = "CalloutRequested"
    /\ messages' = Tail(messages)
    /\ supervisor' = [supervisor EXCEPT !.callout =
                         IF ~supervisor.replay /\ callout = Head(messages).n THEN callout ELSE 0]
    /\ UNCHANGED <<durable, boots, wakes, live, driver, chatter, actor, sessionStarted, terminalEmitted, announced,
                   answer, frames>>

EmitCallout ==
    /\ supervisor.on /\ supervisor.callout # 0
    /\ emit("SessionCallout", SessionSource, supervisor.callout, "")
    /\ supervisor' = [supervisor EXCEPT !.callout = 0]
    /\ UNCHANGED <<durable, boots, wakes, live, driver, chatter, actorVars, answer>>

\* The message channel is closed and drained: the handle goes.
SupervisorEnds ==
    /\ supervisor.on /\ supervisor.callout = 0 /\ messages = <<>> /\ actor = "Off"
    /\ supervisor' = [supervisor EXCEPT !.on = FALSE] /\ live' = FALSE
    /\ UNCHANGED <<durable, boots, wakes, driver, chatter, actorVars, answer, frames>>

----------------------------------------------------------------------------
(* The process dies and the Host starts again, with a new boot id.            *)
Crash ==
    /\ boots < MaxBoots
    /\ boots' = boots + 1
    /\ driver' = IF request = "None" THEN "Off" ELSE "Recover"
    /\ live' = FALSE /\ chatter' = {}
    /\ actor' = "Off" /\ sessionStarted' = FALSE /\ terminalEmitted' = FALSE /\ announced' = 0
    /\ messages' = <<>>
    /\ supervisor' = [on |-> FALSE, replay |-> FALSE, callout |-> 0]
    /\ answer' = [pc |-> "Idle", id |-> 0]
    /\ frames' = <<>>
    /\ UNCHANGED <<durable, wakes>>

\* list_recovery_candidates: neither failed nor ended with its receipt.
Candidate == request = "Open" /\ ~(end = "Ended" /\ published)

(* resume_candidate at startup: the creation is reported, then everything the *)
(* execution needs is loaded before it is resumed from the phase it is in.    *)
NotCandidate ==
    /\ driver = "Recover" /\ ~Candidate
    /\ driver' = "Off"
    /\ UNCHANGED <<durable, boots, wakes, live, chatter, actorVars, supervisor, answer, frames>>

ResumeStartup ==
    /\ driver = "Recover" /\ Candidate
    /\ emit_created("recovery")
    /\ driver' = "Load"
    /\ UNCHANGED <<durable, boots, wakes, live, chatter, actorVars, supervisor, answer>>

ResumeNegotiation ==
    /\ driver = "Load" /\ activation # "Committed"
    /\ live' = TRUE /\ chatter' = Chatter
    /\ driver' = IF activation = "Prepared" THEN "Attempt" ELSE "Select"
    /\ UNCHANGED <<durable, boots, wakes, actorVars, supervisor, answer, frames>>

ResumeCommitted ==
    /\ driver = "Load" /\ activation = "Committed"
    /\ live' = TRUE /\ driver' = "Off"
    /\ spawn(FALSE)
    /\ UNCHANGED <<durable, boots, wakes, chatter, answer, frames>>

\* The activation, the aggregate or the program cannot be loaded as the recovery page described them.
LoadFails == LoadMayFail /\ driver \in {"Load", "WakeLoad"}

(* fail_recovery_candidate: through the aggregate, or through a request that  *)
(* has no activation; the failure is reported whatever the record now says.   *)
fail_recovery_candidate ==
    /\ LoadFails
    /\ status # "None" \/ activation = "None"
    /\ IF status = "None"
       THEN request' = "Failed" /\ UNCHANGED <<status, published, end, unconfirmed, callout>>
       ELSE /\ status' = IF Terminal THEN status ELSE "Fail"
            /\ published' = TRUE /\ BeginEnd /\ callout' = 0
            /\ UNCHANGED request
    /\ emit("Terminated", recovery_event_source, 0, "runtime")
    /\ driver' = "Off" /\ live' = FALSE
    /\ UNCHANGED <<bound, activation, trace, staged, outgoing, opened, boots, wakes, chatter, actorVars,
                   supervisor, answer>>

\* A peer that never confirmed pokes the ended session: the actor comes back only for that.
EndWake ==
    /\ wakes < MaxWakes /\ ~live /\ driver = "Off" /\ end = "Ended" /\ unconfirmed > 0
    /\ wakes' = wakes + 1 /\ driver' = "WakeLoad"
    /\ UNCHANGED <<durable, boots, live, chatter, actorVars, supervisor, answer, frames>>

ResumeEndWake ==
    /\ driver = "WakeLoad"
    /\ driver' = "Off" /\ live' = TRUE
    /\ spawn(TRUE)
    /\ UNCHANGED <<durable, boots, wakes, chatter, answer, frames>>

----------------------------------------------------------------------------
DriverStep ==
    \/ SelectOffer \/ publish_negotiation_peers \/ DriverStarts \/ DriverPrepares \/ DriverCommits \/ DriverSpawns
    \/ finish_negotiation \/ NotCandidate \/ ResumeStartup \/ ResumeNegotiation \/ ResumeCommitted \/ ResumeEndWake

ActorStep ==
    \/ ensure_execution \/ ensure_session_started \/ publish_receipt \/ emit_published_terminal \/ expire_end
    \/ end_run_finished

SupervisorStep == handle_message \/ project_callout \/ EmitCallout \/ SupervisorEnds

Next ==
    \/ ExecNew \/ DriverStep \/ record_negotiation_failure \/ fail_recovery_candidate
    \/ \E kind \in Chatter : DriverChatters(kind)
    \/ ActorStep \/ confirm_end \/ Stage \/ persist_step_signature \/ announce_callout
    \/ \E kind \in {"Abort", "Fail"} : persist_abort(kind)
    \/ Submit \/ submit_input \/ submit
    \/ SupervisorStep
    \/ Crash \/ EndWake

Spec == Init /\ [][Next]_vars

(* The actor and its supervisor are tasks that keep running.                  *)
FairSpec == Spec /\ WF_vars(ActorStep) /\ WF_vars(SupervisorStep)

----------------------------------------------------------------------------
Ids == 0..MaxCallouts

\* The types of the state.
TypeOK ==
    /\ request \in {"None", "Open", "Failed"} /\ bound \in BOOLEAN
    /\ activation \in {"None", "Prepared", "Committed"}
    /\ status \in {"None", "Activating", "Active"} \cup Terminals
    /\ published \in BOOLEAN /\ end \in {"Open", "Ending", "Ended"} /\ unconfirmed \in 0..Peers
    /\ trace \in Seq(Ids) /\ staged \in Ids \cup {Nothing} /\ outgoing \in Seq(Ids)
    /\ callout \in Ids /\ opened \in Ids
    /\ answer.pc \in {"Idle", "Sent", "Acked"} /\ answer.id \in Ids
    /\ \A i \in DOMAIN frames : is_exec_scoped(frames[i].kind)

Kinds(S) == {i \in DOMAIN frames : frames[i].kind \in S}

\* Whatever task emits it and whatever the record says by then, an event's identifiers fit its kind:
\* the junction's `expect` never fires.
FramesCorrelate == \A i \in DOMAIN frames : validate_correlations(frames[i])

\* In each lifetime of a Host exec.created precedes every other event of an execution
\* (docs/api/events/semantics.md:34), unless the execution had ended before the Host started: such a
\* one is not announced again, and a peer's wake reports its end progress, or that its program no
\* longer loads, first.
CreatedFirst ==
    frames # <<>> =>
      \/ frames[1].kind = "Created"
      \/ end = "Ended" /\ published /\ frames[1].kind \in {"SessionEndProgress", "Terminated"}

\* Every negotiation event precedes exec.session.started (docs/api/events/semantics.md:35), whichever
\* tasks publish the two.
NegotiationBeforeSession ==
    \A i \in Kinds(Negotiations), j \in Kinds({"SessionStarted"}) : i < j

\* One lifetime of a Host closes an execution with at most one terminal event, however often its actor
\* runs (docs/api/events/semantics.md:39).
OneTerminal == Cardinality(Kinds(Closing)) <= 1

\* A session that a frame calls ended has that very end in its record, with its receipt published.
EndedIsPublished ==
    \A i \in Kinds({"SessionEnded"}) : published /\ status = frames[i].says

EndsIn(b) == boots = b /\ actor = "On" /\ ~supervisor.replay /\ Terminal
ReportedIn(b) == Kinds(Closing) # {} \/ boots > b

\* An execution that ends under a reporting supervisor is reported ended, unless the process dies first.
TerminalIsReported == \A b \in 1..MaxBoots : EndsIn(b) ~> ReportedIn(b)
=============================================================================
