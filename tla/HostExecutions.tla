--------------------------- MODULE HostExecutions ---------------------------
(***************************************************************************)
(* How one Host serves the requests about one execution id: exec.new, whose *)
(* caller may vanish before the answer, exec.cancel_creation, exec.withdraw, *)
(* exec.terminate, exec.await and exec.next, against the background          *)
(* negotiation, the actor and its supervisor, and startup recovery           *)
(* (arena0-daemon/src/server.rs and exec_manager.rs).                        *)
(*                                                                         *)
(* Three things name an execution and are changed by different tasks: the   *)
(* durable rows (request, activation, aggregate), the table of creations in *)
(* progress, and the table of live handles.  A handler takes each lock or   *)
(* read on its own, so one action here is what runs between two awaits or   *)
(* two lock acquisitions.                                                   *)
(***************************************************************************)
EXTENDS Naturals, FiniteSets

CONSTANTS
    Creates,      \* callers of exec.new, all for the same id
    Differing,    \* those whose request differs from the first (every create plan does)
    Cancels,      \* callers of exec.cancel_creation
    Withdraws,    \* callers of exec.withdraw
    Terminates,   \* callers of exec.terminate
    Awaits,       \* callers of exec.await, until terminal
    Nexts,        \* callers of exec.next
    Recovered,    \* the driver and handle startup recovery makes
    None,
    MaxCrashes,   \* bound: crashes of the daemon
    ProgramsBreak \* whether a program may fail to load after a restart

Callers == Creates \cup Cancels \cup Withdraws \cup Terminates \cup Awaits \cup Nexts
Waiters == Awaits \cup Nexts
Drivers == Creates \cup {Recovered}
\* The tasks and callers that run stop_cancelled_creation or a part of it.
Stoppers == Creates \cup Cancels \cup Withdraws \cup Terminates

CallersAssumption ==
    /\ IsFiniteSet(Callers) /\ Differing \subseteq Creates
    /\ Recovered \notin Callers /\ None \notin Callers \cup {Recovered}
    /\ MaxCrashes \in Nat /\ ProgramsBreak \in BOOLEAN

VARIABLES
    request,     \* the admission row: its failure column, or "None" before it exists
    activation,  \* the activation row
    aggregate,   \* the execution row: none, active, asking (open callout), stopped
    claimed,     \* the exclusive writer is held
    creation,    \* CreationStates for the id
    completion,  \* what each creation entry's watch channel has sent
    live,        \* ExecutionHandles.execs: the handle registered for the id
    handle,      \* the handles: command channel, withdrawal flag, published ticket
    driver,      \* the background negotiations
    actor,       \* the spawned actor and its supervisor
    mail,        \* an actor observation the supervisor has not handled
    task,        \* the creation tasks spawned by new_exec
    at,          \* where each caller's request is
    answer,      \* what the caller was told
    watch,       \* the completion a cancellation, or the handle a waiter, waits on
    woken,       \* waiters whose registered notification has fired
    stop,        \* the stop subroutine of each task or caller that runs one
    host,        \* up, down, or refused (startup recovery failed)
    crashes

durable == <<request, activation, aggregate>>
creating == <<creation, completion>>
driving == <<handle, driver>>
acting == <<actor, mail>>
world == <<host, crashes>>
process == <<claimed, creating, live, driving, acting, task, stop>>
clients == <<at, answer, watch, woken>>
vars == <<durable, process, clients, world>>

-----------------------------------------------------------------------------
Results == {"None", "Ok", "Err"}
Tokens == Creates \cup Cancels
StopPlaces == {"Idle", "Find", "Read", "Request", "Entry", "Revocable", "Ticket",
               "Waiting", "Offered", "Terminate", "Sent", "Ok", "Err"}

TypeOK ==
    /\ request \in {"None", "Open", "Withdrawn", "Failed"}
    /\ activation \in {"None", "Prepared", "Committed"}
    /\ aggregate \in {"None", "Active", "Asking", "Stopped"}
    /\ claimed \in BOOLEAN /\ mail \in BOOLEAN
    /\ creation = None
       \/ creation \in [state : {"Awaiting", "Creating"}, cancelled : BOOLEAN, token : Tokens]
    /\ completion \in [Tokens -> Results]
    /\ live \in Drivers \cup {None}
    /\ handle \in [Drivers -> [cmd : BOOLEAN, asked : BOOLEAN,
                               ticket : {"None", "Active", "Withdrawn"}]]
    /\ driver \in [Drivers ->
         [at : {"None", "Queued", "Offered", "Driving", "Committed", "Failed", "Removing",
                "Finishing"},
          handle : Drivers, heard : BOOLEAN, prepared : BOOLEAN,
          reason : {"Unset", "Withdrawn", "Failed"}]]
    /\ actor \in [at : {"None", "Starting", "Running", "Exited"}, handle : Drivers]
    /\ task \in [Creates -> [at : {"None", "Inner", "Claimed", "Recorded", "Answered",
                                   "Finishing", "Stopping"},
                             response : Results, decision : {"None", "Ack", "Cancel"}]]
    /\ stop \in [Stoppers -> [at : StopPlaces, handle : Drivers]]
    /\ at \in [Callers -> {"Idle", "Answer", "Cancelled", "Look", "Register", "Completion",
                           "Arrival", "Stopping", "Notified", "Read", "Asleep", "Done", "Gone"}]
    /\ answer \in [Callers -> Results] /\ woken \subseteq Waiters
    /\ watch \in [Cancels \cup Waiters -> Tokens \cup Drivers \cup {None}]
    /\ host \in {"Up", "Down", "Refused"} /\ crashes \in 0..MaxCrashes

\* The lifecycle projected from the durable rows.  Its three reads are separate awaits, but the
\* rows only grow in the order request, activation, aggregate, so the answer was true in between.
Lifecycle ==
    CASE aggregate = "Stopped"            -> "Terminal"
      [] aggregate \in {"Active", "Asking"} -> "Active"
      [] request \in {"Withdrawn", "Failed"} -> "Terminal"
      [] activation # "None"              -> "Activating"
      [] OTHER                            -> "Negotiating"

NoDriver(r) == [at |-> "None", handle |-> r, heard |-> FALSE, prepared |-> FALSE,
                reason |-> "Unset"]
NoTask == [at |-> "None", response |-> "None", decision |-> "None"]
NewHandle == [cmd |-> FALSE, asked |-> FALSE, ticket |-> "None"]
NoStop == [at |-> "Idle", handle |-> Recovered]

Init ==
    /\ request = "None" /\ activation = "None" /\ aggregate = "None"
    /\ claimed = FALSE /\ creation = None /\ completion = [t \in Tokens |-> "None"]
    /\ live = None /\ handle = [h \in Drivers |-> NewHandle]
    /\ driver = [r \in Drivers |-> NoDriver(r)]
    /\ actor = [at |-> "None", handle |-> Recovered] /\ mail = FALSE
    /\ task = [r \in Creates |-> NoTask] /\ stop = [s \in Stoppers |-> NoStop]
    /\ at = [k \in Callers |-> "Idle"] /\ answer = [k \in Callers |-> "None"]
    /\ watch = [k \in Cancels \cup Waiters |-> None] /\ woken = {}
    /\ host = "Up" /\ crashes = 0

-----------------------------------------------------------------------------
(* CreationStates, each operation under the creation lock.                  *)

Send(t, result) == [completion EXCEPT ![t] = result]

\* begin: a waiting cancellation consumes the creation, one in progress refuses it.
Begin(r) ==
    CASE creation = None ->
           /\ creation' = [state |-> "Creating", cancelled |-> FALSE, token |-> r]
           /\ task' = [task EXCEPT ![r].at = "Inner"]
           /\ at' = [at EXCEPT ![r] = "Answer"]
           /\ UNCHANGED <<completion, answer>>
      [] creation # None /\ creation.state = "Awaiting" ->
           /\ creation' = None /\ completion' = Send(creation.token, "Ok")
           /\ at' = [at EXCEPT ![r] = "Done"] /\ answer' = [answer EXCEPT ![r] = "Err"]
           /\ UNCHANGED task
      [] OTHER ->
           /\ at' = [at EXCEPT ![r] = "Done"] /\ answer' = [answer EXCEPT ![r] = "Err"]
           /\ UNCHANGED <<creating, task>>

IsCancelled == creation # None /\ creation.state = "Creating" /\ creation.cancelled

CancelExisting ==
    IF creation.state = "Creating" THEN [creation EXCEPT !.cancelled = TRUE] ELSE creation

\* A task that looks only at its own caller.
FinishByCaller(callerCancelled) == callerCancelled

\* begin_finish: the verdict, and what it leaves in the table.
FinishCancelled(callerCancelled) ==
    IF creation = None THEN callerCancelled
    ELSE creation.state # "Creating" \/ creation.cancelled \/ callerCancelled

-----------------------------------------------------------------------------
(* exec.new                                                                 *)

NewExec(r) ==
    /\ host = "Up" /\ at[r] = "Idle"
    /\ Begin(r)
    /\ UNCHANGED <<durable, claimed, live, driving, acting, stop, watch, woken, world>>

\* The response channel: a caller that is gone cancels the creation at once.
Respond(r, result) ==
    task' = [task EXCEPT ![r].response = result,
                         ![r].at = IF at[r] = "Gone" THEN "Finishing" ELSE "Answered",
                         ![r].decision = IF at[r] = "Gone" THEN "Cancel" ELSE @]

\* new_exec_inner refuses the request before it claims the writer, or cannot claim it.
InnerRefuses(r) ==
    /\ task[r].at = "Inner"
    /\ Respond(r, "Err")
    /\ UNCHANGED <<durable, claimed, creating, live, driving, acting, stop, clients, world>>

MayClaim == ~claimed

InnerClaims(r) ==
    /\ task[r].at = "Inner" /\ MayClaim
    /\ claimed' = TRUE
    /\ task' = [task EXCEPT ![r].at = "Claimed"]
    /\ UNCHANGED <<durable, creating, live, driving, acting, stop, clients, world>>

\* create_execution_request: Created and AlreadyExists go on, Conflict drops the claim.
InnerRecords(r) ==
    /\ task[r].at = "Claimed"
    /\ IF request # "None" /\ r \in Differing
         THEN claimed' = FALSE /\ Respond(r, "Err") /\ UNCHANGED request
         ELSE /\ request' = IF request = "None" THEN "Open" ELSE request
              /\ task' = [task EXCEPT ![r].at = "Recorded"]
              /\ UNCHANGED claimed
    /\ UNCHANGED <<activation, aggregate, creating, live, driving, acting, stop, clients, world>>

\* register_live keeps a handle that is there; the negotiation task is spawned with it.
InnerSpawns(r) ==
    LET h == IF live = None THEN r ELSE live
    IN /\ task[r].at = "Recorded"
       /\ live' = h
       /\ driver' = [driver EXCEPT ![r] = [NoDriver(r) EXCEPT !.at = "Queued", !.handle = h]]
       /\ Respond(r, "Ok")
       /\ UNCHANGED <<durable, claimed, creating, handle, acting, stop, clients, world>>

\* A caller that returns the response but drops its decision.
AnswerUnacknowledged(r) ==
    /\ at[r] = "Answer" /\ task[r].at = "Answered"
    /\ task' = [task EXCEPT ![r].decision = "Cancel", ![r].at = "Finishing"]
    /\ at' = [at EXCEPT ![r] = "Done"]
    /\ answer' = [answer EXCEPT ![r] = task[r].response]
    /\ UNCHANGED <<durable, claimed, creating, live, driving, acting, stop, watch, woken, world>>

\* The caller takes the response and acknowledges it, or sees the creation cancelled.
CallerAnswered(r) ==
    /\ at[r] = "Answer" /\ task[r].at = "Answered"
    /\ IF IsCancelled
         THEN /\ task' = [task EXCEPT ![r].decision = "Cancel", ![r].at = "Finishing"]
              /\ at' = [at EXCEPT ![r] = "Cancelled"] /\ UNCHANGED answer
         ELSE /\ task' = [task EXCEPT ![r].decision = "Ack", ![r].at = "Finishing"]
              /\ at' = [at EXCEPT ![r] = "Done"]
              /\ answer' = [answer EXCEPT ![r] = task[r].response]
    /\ UNCHANGED <<durable, claimed, creating, live, driving, acting, stop, watch, woken, world>>

CallerSeesCancelled(r) ==
    /\ at[r] = "Cancelled" /\ completion[r] # "None"
    /\ at' = [at EXCEPT ![r] = "Done"] /\ answer' = [answer EXCEPT ![r] = "Err"]
    /\ UNCHANGED <<durable, process, watch, woken, world>>

\* The connection of an exec.new caller closes: its future and decision sender are dropped.
CallerGone(r) ==
    /\ at[r] \in {"Answer", "Cancelled"}
    /\ at' = [at EXCEPT ![r] = "Gone"]
    /\ task' = IF task[r].at = "Answered"
                 THEN [task EXCEPT ![r].decision = "Cancel", ![r].at = "Finishing"]
                 ELSE task
    /\ UNCHANGED <<durable, claimed, creating, live, driving, acting, stop, answer, watch, woken,
                   world>>

\* finish_creation, first half: an uncancelled creation is complete.
FinishCreation(r) ==
    LET cancelled == FinishCancelled(task[r].decision = "Cancel")
    IN /\ task[r].at = "Finishing"
       /\ IF cancelled
            THEN /\ task' = [task EXCEPT ![r].at = "Stopping"]
                 /\ stop' = [stop EXCEPT ![r].at = "Find"]
                 /\ creation' = IF creation # None /\ creation.state = "Creating"
                                  THEN [creation EXCEPT !.cancelled = TRUE] ELSE creation
                 /\ UNCHANGED completion
            ELSE /\ task' = [task EXCEPT ![r].at = "None"]
                 /\ creation' = None
                 /\ completion' = IF creation = None THEN completion
                                  ELSE Send(creation.token, "Ok")
                 /\ UNCHANGED stop
       /\ UNCHANGED <<durable, claimed, live, driving, acting, clients, world>>

\* A completion that releases the id without telling who waits on it.
CompleteSilently(r) == creation' = None /\ UNCHANGED completion

CompleteCancelled(r) ==
    /\ creation' = None
    /\ completion' = IF creation = None THEN completion
                     ELSE Send(creation.token, stop[r].at)

\* finish_creation, second half: the stop's result goes to everyone who waits on the entry.
CreationStopped(r) ==
    /\ task[r].at = "Stopping" /\ stop[r].at \in {"Ok", "Err"}
    /\ CompleteCancelled(r)
    /\ task' = [task EXCEPT ![r].at = "None"]
    /\ stop' = [stop EXCEPT ![r] = NoStop]
    /\ UNCHANGED <<durable, claimed, live, driving, acting, clients, world>>

-----------------------------------------------------------------------------
(* exec.cancel_creation, exec.withdraw and exec.terminate                   *)

Reply(k, result) == at' = [at EXCEPT ![k] = "Done"] /\ answer' = [answer EXCEPT ![k] = result]

\* withdraw_or_cancel_creation: an entry in the table is marked and waited on.
CancelCreation(k) ==
    /\ host = "Up" /\ at[k] = "Idle"
    /\ IF creation # None
         THEN /\ creation' = CancelExisting
              /\ watch' = [watch EXCEPT ![k] = creation.token]
              /\ at' = [at EXCEPT ![k] = "Completion"]
         ELSE at' = [at EXCEPT ![k] = "Look"] /\ UNCHANGED <<creation, watch>>
    /\ UNCHANGED <<durable, claimed, completion, live, driving, acting, task, stop, answer,
                   woken, world>>

\* Without an entry, a live execution is stopped directly.
CancelLooks(k) ==
    /\ at[k] = "Look"
    /\ IF live # None
         THEN stop' = [stop EXCEPT ![k].at = "Find"] /\ at' = [at EXCEPT ![k] = "Stopping"]
         ELSE at' = [at EXCEPT ![k] = "Register"] /\ UNCHANGED stop
    /\ UNCHANGED <<durable, claimed, creating, live, driving, acting, task, answer, watch, woken,
                   world>>

\* await_creation: take the place of a creation whose request has not arrived yet.
CancelRegisters(k) ==
    /\ at[k] = "Register"
    /\ creation' = IF creation # None THEN CancelExisting
                   ELSE [state |-> "Awaiting", cancelled |-> FALSE, token |-> k]
    /\ watch' = [watch EXCEPT ![k] = IF creation # None THEN creation.token ELSE k]
    /\ at' = [at EXCEPT ![k] = "Arrival"]
    /\ UNCHANGED <<durable, claimed, completion, live, driving, acting, task, stop, answer,
                   woken, world>>

CancelCompletes(k) ==
    /\ at[k] \in {"Completion", "Arrival"} /\ completion[watch[k]] # "None"
    /\ Reply(k, completion[watch[k]])
    /\ UNCHANGED <<durable, process, watch, woken, world>>

\* expire_waiter: only an entry that still awaits a creation is removed.
ExpireWaiter ==
    IF creation # None /\ creation.state = "Awaiting"
      THEN creation' = None /\ completion' = Send(creation.token, "Err")
      ELSE UNCHANGED <<creation, completion>>

\* The grace elapses, or the caller's connection closes while it waits: the guard's drop.
CancelExpires(k) ==
    /\ at[k] = "Arrival" /\ completion[watch[k]] = "None"
    /\ ExpireWaiter
    /\ \/ Reply(k, "Err")
       \/ at' = [at EXCEPT ![k] = "Gone"] /\ UNCHANGED answer
    /\ UNCHANGED <<durable, claimed, live, driving, acting, task, stop, watch, woken, world>>

WithdrawExec(k) ==
    /\ host = "Up" /\ at[k] = "Idle"
    /\ at' = [at EXCEPT ![k] = "Stopping"]
    /\ stop' = [stop EXCEPT ![k].at = "Request"]
    /\ UNCHANGED <<durable, claimed, creating, live, driving, acting, task, answer, watch, woken,
                   world>>

TerminateExec(k) ==
    /\ host = "Up" /\ at[k] = "Idle"
    /\ IF live = None
         THEN Reply(k, "Err") /\ UNCHANGED stop
         ELSE /\ stop' = [stop EXCEPT ![k] = [at |-> "Terminate", handle |-> live]]
              /\ at' = [at EXCEPT ![k] = "Stopping"] /\ UNCHANGED answer
    /\ UNCHANGED <<durable, claimed, creating, live, driving, acting, task, watch, woken, world>>

StopReplies(k) ==
    /\ at[k] = "Stopping" /\ stop[k].at \in {"Ok", "Err"}
    /\ Reply(k, stop[k].at)
    /\ stop' = [stop EXCEPT ![k] = NoStop]
    /\ UNCHANGED <<durable, claimed, creating, live, driving, acting, task, watch, woken, world>>

-----------------------------------------------------------------------------
(* stop_cancelled_creation and withdraw_negotiation                         *)

StopGoes(s, place) == stop' = [stop EXCEPT ![s].at = place]

StopFinds(s) ==
    /\ stop[s].at = "Find"
    /\ stop' = [stop EXCEPT ![s] = IF live = None THEN [@ EXCEPT !.at = "Ok"]
                                   ELSE [at |-> "Read", handle |-> live]]
    /\ UNCHANGED <<durable, claimed, creating, live, driving, acting, task, clients, world>>

PlaceOf ==
    CASE Lifecycle = "Negotiating" -> "Request"
      [] Lifecycle = "Terminal"    -> "Ok"
      [] OTHER                     -> "Terminate"

StopReads(s) ==
    /\ stop[s].at = "Read"
    /\ StopGoes(s, PlaceOf)
    /\ UNCHANGED <<durable, claimed, creating, live, driving, acting, task, clients, world>>

WithdrawReadsRequest(s) ==
    /\ stop[s].at = "Request"
    /\ StopGoes(s, IF request = "Withdrawn" THEN "Ok" ELSE "Entry")
    /\ UNCHANGED <<durable, claimed, creating, live, driving, acting, task, clients, world>>

WithdrawFindsEntry(s) ==
    /\ stop[s].at = "Entry"
    /\ stop' = [stop EXCEPT ![s] = IF live = None THEN [@ EXCEPT !.at = "Err"]
                                   ELSE [at |-> "Revocable", handle |-> live]]
    /\ UNCHANGED <<durable, claimed, creating, live, driving, acting, task, clients, world>>

WithdrawReadsLifecycle(s) ==
    /\ stop[s].at = "Revocable"
    /\ StopGoes(s, CASE Lifecycle = "Negotiating" -> "Ticket"
                     [] request = "Withdrawn"     -> "Ok"
                     [] OTHER                     -> "Err")
    /\ UNCHANGED <<durable, claimed, creating, live, driving, acting, task, clients, world>>

\* Before the driver has a ticket the intent is queued on the handle; a withdrawn ticket is
\* enough; an active one is revised and offered to the driver, unless it expired or was renewed.
WithdrawTicket(s) ==
    LET h == stop[s].handle
    IN /\ stop[s].at = "Ticket"
       /\ CASE handle[h].ticket = "None" ->
                 handle' = [handle EXCEPT ![h].asked = TRUE] /\ StopGoes(s, "Waiting")
            [] handle[h].ticket = "Withdrawn" -> StopGoes(s, "Ok") /\ UNCHANGED handle
            [] OTHER -> (StopGoes(s, "Offered") \/ StopGoes(s, "Err")) /\ UNCHANGED handle
       /\ UNCHANGED <<durable, claimed, creating, live, driver, acting, task, clients, world>>

\* await_withdrawal: the durable failure decides, or the deadline.
WithdrawalSettles(s) ==
    /\ stop[s].at = "Waiting"
    /\ \/ StopGoes(s, "Err")
       \/ request = "Withdrawn" /\ Lifecycle = "Terminal" /\ StopGoes(s, "Ok")
    /\ UNCHANGED <<durable, claimed, creating, live, driving, acting, task, clients, world>>

Drives(h) == {r \in Drivers : driver[r].at = "Driving" /\ driver[r].handle = h}

EndDrive(r, reason) ==
    /\ driver' = [driver EXCEPT ![r].at = "Failed", ![r].reason = reason]
    /\ claimed' = FALSE

\* on_local_withdrawal: refused once this drive has prepared an activation.
WithdrawalOffered(s) ==
    LET h == stop[s].handle
    IN /\ stop[s].at = "Offered"
       /\ IF Drives(h) = {}
            THEN StopGoes(s, "Err") /\ UNCHANGED <<driving, claimed>>
            ELSE \E r \in Drives(h) :
                   IF driver[r].prepared
                     THEN StopGoes(s, "Err") /\ UNCHANGED <<driving, claimed>>
                     ELSE /\ EndDrive(r, "Withdrawn")
                          /\ handle' = [handle EXCEPT ![h].ticket = "Withdrawn"]
                          /\ StopGoes(s, "Ok")
       /\ UNCHANGED <<durable, creating, live, acting, task, clients, world>>

\* ExecutionHandle::terminate: no command channel before the actor is attached.
TerminateSends(s) ==
    /\ stop[s].at = "Terminate"
    /\ StopGoes(s, IF /\ handle[stop[s].handle].cmd
                      /\ actor.at \in {"Starting", "Running"} /\ actor.handle = stop[s].handle
                     THEN "Sent" ELSE "Err")
    /\ UNCHANGED <<durable, claimed, creating, live, driving, acting, task, clients, world>>

\* The running actor commits the stop and answers; an actor that is gone drops the reply.
TerminateServed(s) ==
    /\ stop[s].at = "Sent" /\ actor.at # "Starting"
    /\ IF actor.at = "Running"
         THEN aggregate' = "Stopped" /\ mail' = (mail \/ aggregate # "Stopped") /\ StopGoes(s, "Ok")
         ELSE StopGoes(s, "Err") /\ UNCHANGED <<aggregate, mail>>
    /\ UNCHANGED <<request, activation, claimed, creating, live, driving, actor, task, clients,
                   world>>

-----------------------------------------------------------------------------
(* drive_negotiation and finish_negotiation                                 *)

\* The driver waits for the negotiation guard and for an offer, watching the withdrawal flag.
DriverWithdrawn(r) ==
    /\ driver[r].at = "Queued" /\ handle[driver[r].handle].asked
    /\ EndDrive(r, "Withdrawn")
    /\ UNCHANGED <<durable, creating, live, handle, acting, task, stop, clients, world>>

DriverOffered(r) ==
    /\ driver[r].at = "Queued" /\ ~handle[driver[r].handle].asked
    /\ driver' = [driver EXCEPT ![r].at = "Offered"]
    /\ UNCHANGED <<durable, claimed, creating, live, handle, acting, task, stop, clients, world>>

\* run_negotiation_attempt subscribes to the flag, which counts as seen; run reads it first.
Attempt(r) ==
    IF handle[driver[r].handle].asked /\ ~driver[r].prepared
      THEN EndDrive(r, "Withdrawn")
      ELSE /\ driver' = [driver EXCEPT ![r].at = "Driving",
                                       ![r].heard = handle[driver[r].handle].asked]
           /\ UNCHANGED claimed

DriverStarts(r) ==
    /\ driver[r].at = "Offered"
    /\ Attempt(r)
    /\ handle' = [handle EXCEPT ![driver[r].handle].ticket = "None"]
    /\ UNCHANGED <<durable, creating, live, acting, task, stop, clients, world>>

DriverIssuesTicket(r) ==
    /\ driver[r].at = "Driving" /\ handle[driver[r].handle].ticket = "None"
    /\ handle' = [handle EXCEPT ![driver[r].handle].ticket = "Active"]
    /\ UNCHANGED <<durable, claimed, creating, live, driver, acting, task, stop, clients, world>>

\* on_withdrawal_requested: the flag changed; a prepared drive ignores it.
DriverAsked(r) ==
    /\ driver[r].at = "Driving" /\ handle[driver[r].handle].asked /\ ~driver[r].heard
    /\ IF driver[r].prepared
         THEN driver' = [driver EXCEPT ![r].heard = TRUE] /\ UNCHANGED <<handle, claimed>>
         ELSE /\ EndDrive(r, "Withdrawn")
              /\ handle' = [handle EXCEPT ![driver[r].handle].ticket = "Withdrawn"]
    /\ UNCHANGED <<durable, creating, live, acting, task, stop, clients, world>>

\* prepare_activation: refused for a failed request, and for a session other than the stored one.
MayPrepare == activation = "None" /\ request = "Open"

DriverPrepares(r) ==
    /\ driver[r].at = "Driving" /\ ~driver[r].prepared
    /\ handle[driver[r].handle].ticket = "Active"
    /\ IF MayPrepare
         THEN /\ activation' = "Prepared"
              /\ driver' = [driver EXCEPT ![r].prepared = TRUE] /\ UNCHANGED claimed
         ELSE EndDrive(r, "Failed") /\ UNCHANGED activation
    /\ UNCHANGED <<request, aggregate, creating, live, handle, acting, task, stop, clients, world>>

DriverCommits(r) ==
    /\ driver[r].at = "Driving" /\ driver[r].prepared
    /\ activation' = "Committed"
    /\ driver' = [driver EXCEPT ![r].at = "Committed"]
    /\ UNCHANGED <<request, aggregate, claimed, creating, live, handle, acting, task, stop,
                   clients, world>>

\* spawn: the claim moves into the actor and the handle gets its command channel.
DriverSpawns(r) ==
    LET h == driver[r].handle
    IN /\ driver[r].at = "Committed"
       /\ actor' = [at |-> "Starting", handle |-> h]
       /\ handle' = [handle EXCEPT ![h].cmd = TRUE]
       /\ driver' = [driver EXCEPT ![r].at = "Finishing"]
       /\ UNCHANGED <<durable, claimed, creating, live, mail, task, stop, clients, world>>

\* Any error of the drive: a deadline, the topic, the store, the program.
DriverFails(r) ==
    /\ driver[r].at \in {"Queued", "Offered", "Driving", "Committed"}
    /\ EndDrive(r, "Failed")
    /\ UNCHANGED <<durable, creating, live, handle, acting, task, stop, clients, world>>

Notify(h) == woken' = woken \cup {k \in Waiters : watch[k] = h /\ at[k] \in {"Notified", "Read", "Asleep"}}

\* record_negotiation_failure: not over an activation, and only with a claim of its own.
FinishRecords(r) ==
    /\ driver[r].at = "Failed"
    /\ request' = IF activation = "None" /\ ~claimed /\ request = "Open"
                    THEN driver[r].reason ELSE request
    /\ driver' = [driver EXCEPT ![r].at = "Removing"]
    /\ UNCHANGED <<activation, aggregate, claimed, creating, live, handle, acting, task, stop,
                   clients, world>>

\* finish_negotiation: a failed drive leaves the live table; waiters are notified either way.
FinishNegotiation(r) ==
    /\ driver[r].at \in {"Removing", "Finishing"}
    /\ live' = IF driver[r].at = "Removing" THEN None ELSE live
    /\ Notify(driver[r].handle)
    /\ driver' = [driver EXCEPT ![r] = NoDriver(r)]
    /\ UNCHANGED <<durable, claimed, creating, handle, acting, task, stop, at, answer, watch,
                   world>>

-----------------------------------------------------------------------------
(* The actor as its supervisor sees it, and the supervisor                  *)

ActorChanges(from, to) ==
    /\ actor.at = "Running" /\ aggregate \in from
    /\ aggregate' = to /\ mail' = TRUE
    /\ UNCHANGED <<request, activation, claimed, creating, live, driving, actor, task, stop,
                   clients, world>>

\* ensure_execution: the aggregate is created, or loaded after a restart.
ActorStarts ==
    /\ actor.at = "Starting"
    /\ actor' = [actor EXCEPT !.at = "Running"]
    /\ aggregate' = IF aggregate = "None" THEN "Active" ELSE aggregate
    /\ mail' = TRUE
    /\ UNCHANGED <<request, activation, claimed, creating, live, driving, task, stop, clients,
                   world>>

ActorAsks == ActorChanges({"Active"}, "Asking")
ActorAnswered == ActorChanges({"Asking"}, "Active")
ActorStops == ActorChanges({"Active", "Asking"}, "Stopped")

\* The end handshake is over: the actor drops its writer and its channels.
ActorExits ==
    /\ actor.at = "Running" /\ aggregate = "Stopped"
    /\ actor' = [actor EXCEPT !.at = "Exited"] /\ claimed' = FALSE
    /\ UNCHANGED <<durable, creating, live, driving, mail, task, stop, clients, world>>

SupervisorHandles ==
    /\ mail /\ actor.at # "None"
    /\ mail' = FALSE
    /\ Notify(actor.handle)
    /\ UNCHANGED <<durable, claimed, creating, live, driving, actor, task, stop, at, answer,
                   watch, world>>

\* The channel is closed and drained: the supervisor leaves the live table.
SupervisorLeaves ==
    /\ actor.at = "Exited" /\ ~mail
    /\ live' = None
    /\ actor' = [actor EXCEPT !.at = "None"]
    /\ UNCHANGED <<durable, claimed, creating, driving, mail, task, stop, clients, world>>

-----------------------------------------------------------------------------
(* exec.await and exec.next                                                 *)

\* What ends the wait: for next a callout or the end of the aggregate, which no failed
\* request has.
Ready(k) == IF k \in Awaits THEN Lifecycle = "Terminal" ELSE aggregate \in {"Asking", "Stopped"}

WaitBegins(k) ==
    /\ host = "Up" /\ at[k] = "Idle"
    /\ CASE request = "None" -> Reply(k, "Err")
         [] request # "None" /\ (IF k \in Awaits THEN Lifecycle = "Terminal"
                                 ELSE request # "Open") -> Reply(k, "Ok")
         [] OTHER -> at' = [at EXCEPT ![k] = "Look"] /\ UNCHANGED answer
    /\ UNCHANGED <<durable, process, watch, woken, world>>

\* A waiter needs a live handle; without one, next still reads the durable aggregate.
WaitLooks(k) ==
    /\ at[k] = "Look"
    /\ IF live # None
         THEN /\ at' = [at EXCEPT ![k] = "Notified"] /\ watch' = [watch EXCEPT ![k] = live]
              /\ UNCHANGED answer
         ELSE /\ Reply(k, IF k \in Nexts /\ Ready(k) THEN "Ok" ELSE "Err")
              /\ UNCHANGED watch
    /\ UNCHANGED <<durable, process, woken, world>>

\* The notification was registered before the read, so one that fired in between is kept.
Sleep(k) == at' = [at EXCEPT ![k] = "Asleep"] /\ UNCHANGED <<woken, answer>>

WaitReads(k) ==
    /\ at[k] = "Notified"
    /\ IF Ready(k) THEN Reply(k, "Ok")
                   ELSE at' = [at EXCEPT ![k] = "Read"] /\ UNCHANGED answer
    /\ UNCHANGED <<durable, process, watch, woken, world>>

WaitSleeps(k) ==
    /\ at[k] = "Read"
    /\ Sleep(k)
    /\ UNCHANGED <<durable, process, watch, world>>

WaitWakes(k) ==
    /\ at[k] = "Asleep" /\ k \in woken
    /\ at' = [at EXCEPT ![k] = "Notified"] /\ woken' = woken \ {k}
    /\ UNCHANGED <<durable, process, answer, watch, world>>

\* exec.await has a deadline and reads once more when it passes; exec.next has none.
AwaitDeadline(k) ==
    /\ at[k] = "Asleep"
    /\ Reply(k, IF Ready(k) THEN "Ok" ELSE "Err")
    /\ UNCHANGED <<durable, process, watch, woken, world>>

-----------------------------------------------------------------------------
(* Crash and startup recovery                                               *)

Crash ==
    /\ host = "Up" /\ crashes < MaxCrashes
    /\ host' = "Down" /\ crashes' = crashes + 1
    /\ claimed' = FALSE /\ creation' = None /\ completion' = [t \in Tokens |-> "None"]
    /\ live' = None /\ handle' = [h \in Drivers |-> NewHandle]
    /\ driver' = [r \in Drivers |-> NoDriver(r)]
    /\ actor' = [at |-> "None", handle |-> Recovered] /\ mail' = FALSE
    /\ task' = [r \in Creates |-> NoTask] /\ stop' = [s \in Stoppers |-> NoStop]
    /\ at' = [k \in Callers |-> IF at[k] \in {"Idle", "Done"} THEN at[k] ELSE "Gone"]
    /\ woken' = {}
    /\ UNCHANGED <<durable, answer, watch>>

\* list_recovery_candidates: no recorded failure, and not archived.
Candidate == request = "Open" /\ aggregate # "Stopped"

RestartIdle ==
    /\ host = "Down" /\ ~Candidate
    /\ host' = "Up"
    /\ UNCHANGED <<durable, process, clients, crashes>>

\* resume_candidate: negotiate again, resume the prepared activation, or spawn the actor, with
\* the claim and a registered handle, before the Host answers any request.
ResumeCandidate ==
    /\ host = "Down" /\ Candidate
    /\ host' = "Up" /\ claimed' = TRUE /\ live' = Recovered
    /\ IF activation = "Committed"
         THEN /\ actor' = [at |-> "Starting", handle |-> Recovered]
              /\ handle' = [handle EXCEPT ![Recovered].cmd = TRUE]
              /\ UNCHANGED driver
         ELSE /\ driver' = [driver EXCEPT ![Recovered].handle = Recovered,
                              ![Recovered].at = IF activation = "None" THEN "Queued" ELSE "Offered",
                              ![Recovered].prepared = (activation # "None")]
              /\ UNCHANGED <<actor, handle>>
    /\ UNCHANGED <<durable, creating, mail, task, stop, clients, crashes>>

\* fail_recovery_candidate: through the aggregate, or through the request, which refuses a
\* failure once an activation exists; that error ends the startup.
FailCandidate ==
    /\ ProgramsBreak /\ host = "Down" /\ Candidate
    /\ CASE aggregate # "None" -> aggregate' = "Stopped" /\ host' = "Up" /\ UNCHANGED request
         [] aggregate = "None" /\ activation = "None" ->
              request' = "Failed" /\ host' = "Up" /\ UNCHANGED aggregate
         [] OTHER -> host' = "Refused" /\ UNCHANGED <<request, aggregate>>
    /\ UNCHANGED <<activation, process, clients, crashes>>

-----------------------------------------------------------------------------
CreateStep(r) ==
    \/ InnerRefuses(r) \/ InnerClaims(r) \/ InnerRecords(r) \/ InnerSpawns(r)
    \/ CallerAnswered(r) \/ CallerSeesCancelled(r) \/ FinishCreation(r) \/ CreationStopped(r)

CancelStep(k) ==
    CancelLooks(k) \/ CancelRegisters(k) \/ CancelCompletes(k) \/ CancelExpires(k) \/ StopReplies(k)

StopStep(s) ==
    \/ StopFinds(s) \/ StopReads(s) \/ WithdrawReadsRequest(s) \/ WithdrawFindsEntry(s)
    \/ WithdrawReadsLifecycle(s) \/ WithdrawTicket(s) \/ WithdrawalSettles(s)
    \/ WithdrawalOffered(s) \/ TerminateSends(s) \/ TerminateServed(s)

DriverHeeds(r) == DriverWithdrawn(r) \/ DriverAsked(r)
DriverEnds(r) == FinishRecords(r) \/ FinishNegotiation(r)
WaitStep(k) == WaitLooks(k) \/ WaitReads(k) \/ WaitSleeps(k) \/ WaitWakes(k)
Supervise == SupervisorHandles \/ SupervisorLeaves

Next ==
    \/ \E r \in Creates : NewExec(r) \/ CallerGone(r) \/ CreateStep(r)
    \/ \E k \in Cancels : CancelCreation(k) \/ CancelStep(k)
    \/ \E k \in Withdraws : WithdrawExec(k) \/ StopReplies(k)
    \/ \E k \in Terminates : TerminateExec(k) \/ StopReplies(k)
    \/ \E s \in Stoppers : StopStep(s)
    \/ \E r \in Drivers :
         \/ DriverHeeds(r) \/ DriverOffered(r) \/ DriverStarts(r) \/ DriverIssuesTicket(r)
         \/ DriverPrepares(r) \/ DriverCommits(r) \/ DriverSpawns(r) \/ DriverFails(r)
         \/ DriverEnds(r)
    \/ ActorStarts \/ ActorAsks \/ ActorAnswered \/ ActorStops \/ ActorExits \/ Supervise
    \/ \E k \in Waiters : WaitBegins(k) \/ WaitStep(k)
    \/ \E k \in Awaits : AwaitDeadline(k)
    \/ Crash \/ RestartIdle \/ ResumeCandidate \/ FailCandidate

Spec == Init /\ [][Next]_vars

\* Fairness: tasks that can run do run, a started negotiation attempt runs, and deadlines pass
\* (an await's deadline is an instant: once past, it is past at every later sleep).
\* Clients, offers, peers, the program and crashes owe nothing.
Fairness ==
    /\ \A r \in Creates : WF_vars(CreateStep(r))
    /\ \A k \in Cancels : WF_vars(CancelStep(k))
    /\ \A k \in Withdraws \cup Terminates : WF_vars(StopReplies(k))
    /\ \A s \in Stoppers : WF_vars(StopStep(s))
    /\ \A r \in Drivers : WF_vars(DriverHeeds(r)) /\ WF_vars(DriverStarts(r)) /\ WF_vars(DriverEnds(r))
    /\ WF_vars(ActorStarts) /\ WF_vars(Supervise)
    /\ \A k \in Waiters : WF_vars(WaitStep(k))
    /\ \A k \in Awaits : SF_vars(AwaitDeadline(k))
    /\ WF_vars(RestartIdle \/ ResumeCandidate)

FairSpec == Spec /\ Fairness

-----------------------------------------------------------------------------
(* Properties                                                               *)

Running ==
    \/ \E r \in Drivers : driver[r].at \in {"Queued", "Offered", "Driving", "Committed"}
    \/ actor.at \in {"Starting", "Running"} /\ aggregate # "Stopped"

\* The step that decides an exec.cancel_creation is acknowledged: the entry it watches completes,
\* or its own stop succeeds.
CancelDecided(k) ==
    \/ at[k] \in {"Completion", "Arrival"} /\ completion[watch[k]] = "None"
         /\ completion'[watch[k]] = "Ok"
    \/ at[k] = "Stopping" /\ stop[k].at # "Ok" /\ stop'[k].at = "Ok"

\* What exec.cancel_creation promises: "acknowledges only after the attempted execution is
\* stopped" (docs/api/json-rpc.md), no negotiation and no actor of an unfinished execution.
CancelStops == \A k \in Cancels : CancelDecided(k) => ~Running'
AcknowledgedCancelStops == [][CancelStops]_vars

\* No creation task stops an execution whose creation was acknowledged to a caller, unless some
\* exec.cancel_creation asked for it, or the task is that of a repeated exec.new whose own caller
\* left unanswered: stop_cancelled_creation goes by the id and stops the first one's execution
\* (new_exec, finish_creation; "execution creation cancelled before acknowledgement").
AcknowledgedCreationSurvives ==
    \A r \in Creates :
      (stop[r].at # "Idle" /\ \E q \in Creates : answer[q] = "Ok")
        => at[r] = "Gone" \/ \E k \in Cancels : at[k] # "Idle"

\* The lifecycle a Host publishes never goes back: what was announced as activating, active or
\* terminal is never announced as an earlier phase, whatever fails, is retried or restarts
\* (project_lifecycle over create_execution_request, prepare_activation,
\* record_execution_request_failure).
Rank(l) == CASE l = "Negotiating" -> 0 [] l = "Activating" -> 1 [] l = "Active" -> 2 [] OTHER -> 3
StatusNeverGoesBack == [][Rank(Lifecycle') >= Rank(Lifecycle)]_vars

\* At most one negotiation or actor works for the execution, however often exec.new is repeated
\* while an earlier one ends (claim_execution around new_exec_inner and finish_negotiation).
OneWorker ==
    Cardinality({r \in Drivers : driver[r].at \in {"Queued", "Offered", "Driving", "Committed"}})
      + (IF actor.at \in {"Starting", "Running"} THEN 1 ELSE 0) <= 1

\* A creation never stays in the table of creations in progress, where it would refuse every
\* later exec.new of the id (begin, begin_finish, complete_cancelled, expire_waiter).
CreationIsReleased == (creation # None) ~> (creation = None)
=============================================================================
