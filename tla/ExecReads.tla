----------------------------- MODULE ExecReads -----------------------------
(***************************************************************************)
(* What the daemon answers about one execution while its records move:     *)
(* exec.status, exec.inspect, exec.list, exec.view, exec.trace and         *)
(* exec.submit.  A status is put together from five separate store reads   *)
(* and a memoized projection of the program's view, none of them under one *)
(* transaction; the writer commits between any two of them.  The values of *)
(* a record are abstracted to its step, its events and its open callout;   *)
(* the turn a view projects is the step it was taken at.                   *)
(***************************************************************************)
EXTENDS Integers, FiniteSets, TLC

CONSTANTS Clients,      \* callers of the local API, one call each at a time
          Ops,          \* the calls they make
          MaxSteps,     \* bound on agreed steps
          MaxEvents,    \* bound on dispatched events
          MaxDeaths,    \* bound on deaths of the execution's driver
          None

ReadsAssumption == MaxSteps \in Nat /\ MaxEvents \in Nat /\ MaxDeaths \in Nat

VARIABLES
  req,      \* exec_requests: "none", "open" or "failed"
  act,      \* activation_records: "none", "prepared" or "committed"
  exec,     \* executions: None or the aggregate
  turns,    \* the turn memo: None or the step it was projected at
  driver,   \* whether a live driver takes commands
  deaths,
  call,     \* each client's call in progress
  answer,   \* each client's last reply
  known,    \* the highest step count replied to each client
  applied   \* the clients' answers the guest has taken: <<client, callout>>

vars == <<req, act, exec, turns, driver, deaths, call, answer, known, applied>>
row  == <<req, act, exec>>

Statuses == {"Activating", "Active", "Certified", "Completed", "Stopped", "StoppedPublished"}

\* ExecutionStatus::lifecycle: a stop is reported as Aborted (or Failed, by its cause).
LifecycleOf(e) ==
  CASE e.st = "Activating" -> "Activating"
    [] e.st \in {"Active", "Certified"} ->
         IF e.st = "Active" /\ e.callout # 0 THEN "Waiting" ELSE "Active"
    [] e.st = "Completed" -> "Completed"
    [] OTHER -> "Aborted"

Ended == {"Completed", "Aborted", "Failed"}

project_lifecycle(failed, activated, e) ==
  IF e # None
  THEN IF LifecycleOf(e) = "Waiting" THEN "Active" ELSE LifecycleOf(e)
  ELSE IF failed THEN "Failed" ELSE IF activated THEN "Activating" ELSE "Negotiating"

lifecycle_has_session(lc) == lc \in {"Active", "Completed", "Aborted", "Failed"}

ReceiptProduced(e) == e # None /\ e.receipt

Idle == [pc |-> "idle", op |-> None, req |-> None, act |-> None, state |-> None,
         receipt |-> FALSE, turn |-> None, id |-> 0, at |-> 0]

NoAnswer == [op |-> None, lc |-> None, step |-> 0, turn |-> None, receipt |-> FALSE,
             callout |-> 0, total |-> 0, result |-> "none"]

Init ==
  /\ req = "none" /\ act = "none" /\ exec = None /\ turns = None
  /\ driver = FALSE /\ deaths = 0
  /\ call = [c \in Clients |-> Idle]
  /\ answer = [c \in Clients |-> NoAnswer]
  /\ known = [c \in Clients |-> 0]
  /\ applied = {}

-----------------------------------------------------------------------------
(* The writer: every action is one store transaction.                      *)

calls == <<turns, call, answer, known, applied>>

CreateRequest ==
  /\ req = "none" /\ req' = "open"
  /\ UNCHANGED <<act, exec, driver, deaths, calls>>

record_execution_request_failure ==
  /\ req = "open" /\ act = "none" /\ req' = "failed"
  /\ UNCHANGED <<act, exec, driver, deaths, calls>>

prepare_activation ==
  /\ req = "open" /\ act = "none" /\ act' = "prepared"
  /\ UNCHANGED <<req, exec, driver, deaths, calls>>

commit_activation ==
  /\ act = "prepared" /\ act' = "committed"
  /\ UNCHANGED <<req, exec, driver, deaths, calls>>

create_execution ==
  /\ act = "committed" /\ exec = None
  /\ exec' = [st |-> "Activating", step |-> 0, callout |-> 0, staged |-> FALSE, events |-> 0,
              receipt |-> FALSE]
  /\ driver' = TRUE
  /\ UNCHANGED <<req, act, deaths, calls>>

\* The driver's task ends (a failed actor, an exhausted retry) and is resumed.
DriverDies ==
  /\ driver /\ deaths < MaxDeaths
  /\ driver' = FALSE /\ deaths' = deaths + 1
  /\ call' = [c \in Clients |-> IF call[c].pc \in {"sent", "applied", "viewing"}
                                THEN [call[c] EXCEPT !.pc = "dropped"] ELSE call[c]]
  /\ UNCHANGED <<row, turns, answer, known, applied>>

DriverResumes ==
  /\ ~driver /\ exec # None /\ exec.st # "StoppedPublished" /\ driver' = TRUE
  /\ UNCHANGED <<row, deaths, calls>>

Persist(e) == exec' = e

Activate ==
  /\ driver /\ exec # None /\ exec.st = "Activating"
  /\ Persist([exec EXCEPT !.st = "Active"])
  /\ UNCHANGED <<req, act, driver, deaths, calls>>

CanDispatch == driver /\ exec # None /\ exec.st = "Active" /\ ~exec.staged /\ exec.events < MaxEvents

\* A peer message, a timer or a local event: it may open a callout, replace
\* it, or stage a shared step; the event record is in the same transaction.
Dispatch ==
  /\ CanDispatch
  /\ \/ \E id \in {0, exec.callout, exec.events + 1} :
          Persist([exec EXCEPT !.events = @ + 1, !.callout = id])
     \/ exec.step < MaxSteps /\ Persist([exec EXCEPT !.events = @ + 1, !.staged = TRUE])
  /\ UNCHANGED <<req, act, driver, deaths, calls>>

\* The last signature arrives: the staged step is agreed and its effects applied.
Certify ==
  /\ driver /\ exec # None /\ exec.staged
  /\ \E st \in {"Active", "Certified"}, id \in {0, exec.callout, exec.events} :
       /\ st = "Certified" => id = 0
       /\ Persist([exec EXCEPT !.step = @ + 1, !.staged = FALSE, !.st = st, !.callout = id])
  /\ UNCHANGED <<req, act, driver, deaths, calls>>

\* The receipt and the status that names it are one transaction.
Publish ==
  /\ driver /\ exec # None
  /\ \/ exec.st = "Certified"
        /\ Persist([exec EXCEPT !.st = "Completed", !.receipt = TRUE, !.callout = 0])
     \/ exec.st = "Stopped" /\ Persist([exec EXCEPT !.st = "StoppedPublished", !.receipt = TRUE])
  /\ UNCHANGED <<req, act, driver, deaths, calls>>

Stop ==
  /\ driver /\ exec # None /\ exec.st = "Active"
  /\ Persist([exec EXCEPT !.st = "Stopped", !.callout = 0, !.staged = FALSE])
  /\ UNCHANGED <<req, act, driver, deaths, calls>>

-----------------------------------------------------------------------------
(* Calls.                                                                  *)

Goto(c, pc) == call' = [call EXCEPT ![c].pc = pc]

Reply(c, a) ==
  /\ answer' = [answer EXCEPT ![c] = a]
  /\ known' = [known EXCEPT ![c] = IF a.step > @ THEN a.step ELSE @]
  /\ call' = [call EXCEPT ![c] = Idle]

Fail(c, why) == Reply(c, [NoAnswer EXCEPT !.op = call[c].op, !.result = why,
                                          !.step = known[c], !.callout = call[c].id])

world == <<req, act, exec, driver, deaths, applied>>

\* A caller submits to the callout it saw, or asks for a step it may not have.
Begin(c) ==
  /\ call[c].pc = "idle"
  /\ \E op \in Ops, at \in 0..MaxSteps :
       /\ op # "view_at" => at = 0
       /\ op = "submit" => answer[c].callout # 0
       /\ call' = [call EXCEPT ![c] =
            [Idle EXCEPT !.pc = IF op = "list" THEN "row" ELSE IF op = "trace" THEN "state" ELSE "request",
                         !.op = op, !.at = at,
                         !.id = IF op = "submit" THEN answer[c].callout ELSE 0]]
  /\ UNCHANGED <<world, turns, answer, known>>

ReadRequest(c) ==
  /\ call[c].pc = "request"
  /\ IF req = "none" THEN Fail(c, "NotFound")
     ELSE /\ call' = [call EXCEPT ![c] =
                        IF @.op \in {"status", "inspect"} THEN [@ EXCEPT !.req = req, !.pc = "activation"]
                        ELSE [@ EXCEPT !.pc = "state"]]
          /\ UNCHANGED <<answer, known>>
  /\ UNCHANGED <<world, turns>>

ReadActivation(c) ==
  /\ call[c].pc = "activation"
  /\ call' = [call EXCEPT ![c].act = act, ![c].pc = "state"]
  /\ UNCHANGED <<world, turns, answer, known>>

\* pending_callout_index
Pending(id) == exec # None /\ id # 0 /\ exec.callout = id

\* "step is beyond the latest agreed step"
BeyondLatest(at) == at > exec.step - 1

\* The load of the aggregate and what each call does with it.
ReadState(c) ==
  /\ call[c].pc = "state"
  /\ LET op == call[c].op
     IN CASE op \in {"status", "inspect"} ->
               call' = [call EXCEPT ![c].state = exec, ![c].pc = "receipt"] /\ UNCHANGED <<answer, known>>
          [] op = "trace" ->
               IF exec = None THEN Fail(c, "NotFound")
               ELSE Goto(c, "steps") /\ UNCHANGED <<answer, known>>
          [] op = "submit" ->
               IF Pending(call[c].id)
               THEN Goto(c, IF driver THEN "send" ELSE "dropped") /\ UNCHANGED <<answer, known>>
               ELSE Fail(c, "CalloutNotPending")
          [] OTHER ->
               IF exec = None \/ exec.st = "Activating" THEN Fail(c, "Execution")
               ELSE IF op = "view_at"
               THEN IF exec.step = 0 THEN Fail(c, "Execution")
                    ELSE IF BeyondLatest(call[c].at) THEN Fail(c, "BadRequest")
                    ELSE Goto(c, "step_state") /\ UNCHANGED <<answer, known>>
               ELSE IF LifecycleOf(exec) \in Ended
               THEN Reply(c, [NoAnswer EXCEPT !.op = op, !.step = exec.step, !.turn = exec.step,
                                              !.result = "ok"])
               ELSE IF driver THEN Goto(c, "viewing") /\ UNCHANGED <<answer, known>>
               ELSE Fail(c, "Execution")
  /\ UNCHANGED <<world, turns>>

ReadReceipt(c) ==
  /\ call[c].pc = "receipt"
  /\ call' = [call EXCEPT ![c].receipt = ReceiptProduced(exec), ![c].pc = "updated"]
  /\ UNCHANGED <<world, turns, answer, known>>

CallLifecycle(k) == project_lifecycle(k.req = "failed", k.act # "none", k.state)

NeedsTurn(e, lc) == e # None /\ lifecycle_has_session(lc) /\ LifecycleOf(e) \notin Ended

ReadUpdated(c) ==
  /\ call[c].pc = "updated"
  /\ call' = [call EXCEPT
       ![c].pc = IF NeedsTurn(call[c].state, CallLifecycle(call[c])) THEN "turn" ELSE "facts"]
  /\ UNCHANGED <<world, turns, answer, known>>

MemoFits(e) == turns # None /\ turns = e.step

\* project_turn up to the guest call: the memo is usable for the loaded step only.
CheckMemo(c) ==
  /\ call[c].pc = "turn"
  /\ call' = [call EXCEPT ![c].turn = IF MemoFits(call[c].state) THEN turns ELSE None,
                          ![c].pc = IF MemoFits(call[c].state) THEN "facts" ELSE "project"]
  /\ UNCHANGED <<world, turns, answer, known>>

\* The projection runs on the blocking pool and writes the memo when it ends.
project_turn(c) ==
  /\ call[c].pc = "project"
  /\ turns' = call[c].state.step
  /\ call' = [call EXCEPT ![c].turn = call[c].state.step, ![c].pc = "facts"]
  /\ UNCHANGED <<world, answer, known>>

\* exec.list: one SELECT gives the row; only a live session's turn needs more.
ReadRow(c) ==
  /\ call[c].pc = "row"
  /\ IF req = "none"
     THEN Reply(c, [NoAnswer EXCEPT !.op = "list", !.step = known[c], !.result = "absent"])
     ELSE /\ LET lc == project_lifecycle(req = "failed", act # "none", exec)
                 fits == NeedsTurn(exec, lc) /\ MemoFits(exec)
             IN call' = [call EXCEPT ![c].req = req, ![c].act = act, ![c].state = exec,
                  ![c].receipt = ReceiptProduced(exec),
                             ![c].turn = IF fits THEN turns ELSE None,
                  ![c].pc = IF NeedsTurn(exec, lc) /\ ~fits THEN "list_load" ELSE "facts"]
          /\ UNCHANGED <<answer, known>>
  /\ UNCHANGED <<world, turns>>

\* A memo miss loads the aggregate as it is now, not as the row had it.
ListTurn(c) ==
  /\ call[c].pc = "list_load"
  /\ \/ /\ MemoFits(exec)
        /\ call' = [call EXCEPT ![c].turn = turns, ![c].pc = "facts"]
     \/ /\ ~MemoFits(exec)
        /\ call' = [call EXCEPT ![c].turn = exec.step, ![c].pc = "list_project"]
  /\ UNCHANGED <<world, turns, answer, known>>

ListProject(c) ==
  /\ call[c].pc = "list_project"
  /\ turns' = call[c].turn
  /\ Goto(c, "facts")
  /\ UNCHANGED <<world, answer, known>>

\* The published facts; a call that finds no aggregate where the lifecycle
\* needs one fails with "has no execution aggregate".
project_exec_status_facts(k) ==
  LET lc == CallLifecycle(k)
      session == k.state # None /\ lifecycle_has_session(lc)
  IN [NoAnswer EXCEPT
        !.op = k.op, !.lc = lc,
        !.step = IF session THEN k.state.step ELSE 0,
        !.turn = IF session THEN k.turn ELSE None,
        !.receipt = session /\ k.receipt,
        !.callout = IF session THEN k.state.callout ELSE 0,
        !.result = IF k.state = None /\ lc \in {"Active", "Completed", "Aborted"}
                   THEN "Storage" ELSE "ok"]

Facts(c) ==
  /\ call[c].pc = "facts"
  /\ IF call[c].op = "inspect"
     THEN Goto(c, "page") /\ UNCHANGED <<answer, known>>
     ELSE Reply(c, project_exec_status_facts(call[c]))
  /\ UNCHANGED <<world, turns>>

\* exec.inspect reads a page of event records after the status.
record_page(c) ==
  /\ call[c].pc = "page"
  /\ Reply(c, [project_exec_status_facts(call[c]) EXCEPT
                 !.total = IF exec = None THEN 0 ELSE exec.events])
  /\ UNCHANGED <<world, turns>>

view_at_step(c) ==
  /\ call[c].pc = "step_state"
  /\ IF exec.step > call[c].at
     THEN Reply(c, [NoAnswer EXCEPT !.op = "view_at", !.step = known[c], !.turn = call[c].at,
                                    !.result = "ok"])
     ELSE Fail(c, "Corruption")
  /\ UNCHANGED <<world, turns>>

read_agreed_steps(c) ==
  /\ call[c].pc = "steps"
  /\ Reply(c, [NoAnswer EXCEPT !.op = "trace", !.step = exec.step, !.result = "ok"])
  /\ UNCHANGED <<world, turns>>

\* The actor renders its resident state between two of its transactions.
ActorViews(c) ==
  /\ call[c].pc = "viewing" /\ driver
  /\ Reply(c, [NoAnswer EXCEPT !.op = "view", !.step = exec.step, !.turn = exec.step,
                               !.result = "ok"])
  /\ UNCHANGED <<world, turns>>

Submit(c) ==
  /\ call[c].pc = "send"
  /\ Goto(c, IF driver THEN "sent" ELSE "dropped")
  /\ UNCHANGED <<world, turns, answer, known>>

\* The actor's check of the answer; a staged step makes the caller try again.
ActorTakesInput(c) ==
  /\ call[c].pc = "sent" /\ driver
  /\ \/ /\ exec.callout # call[c].id
        /\ Goto(c, "not_pending") /\ UNCHANGED <<exec, applied>>
     \/ /\ exec.callout = call[c].id /\ exec.staged
        /\ Goto(c, "send") /\ UNCHANGED <<exec, applied>>
     \/ /\ CanDispatch /\ exec.callout = call[c].id
        /\ Goto(c, "rejected") /\ UNCHANGED <<exec, applied>>
     \/ /\ CanDispatch /\ exec.callout = call[c].id
        /\ \E id \in {0, exec.events + 1} :
             Persist([exec EXCEPT !.events = @ + 1, !.callout = id])
        /\ applied' = applied \cup {<<c, call[c].id>>}
        /\ Goto(c, "applied")
  /\ UNCHANGED <<req, act, driver, deaths, turns, answer, known>>

Acked(c) ==
  /\ call[c].pc = "applied"
  /\ Reply(c, [NoAnswer EXCEPT !.op = "submit", !.step = known[c], !.result = "ok",
                               !.callout = call[c].id])
  /\ UNCHANGED <<world, turns>>

\* reclassify_submit_failure: an error is CalloutNotPending if the callout is gone.
reclassify_submit_failure(c) ==
  IF Pending(call[c].id) THEN Fail(c, call[c].pc) ELSE Fail(c, "CalloutNotPending")

SubmitFails(c) ==
  /\ call[c].pc \in {"dropped", "not_pending", "rejected"}
  /\ IF call[c].op = "view" THEN Fail(c, "Execution") ELSE reclassify_submit_failure(c)
  /\ UNCHANGED <<world, turns>>

-----------------------------------------------------------------------------
Write == \/ CreateRequest \/ record_execution_request_failure
         \/ prepare_activation \/ commit_activation \/ create_execution
         \/ DriverDies \/ DriverResumes
         \/ Activate \/ Dispatch \/ Certify \/ Publish \/ Stop

Read(c) == \/ Begin(c) \/ ReadRequest(c) \/ ReadActivation(c) \/ ReadState(c)
           \/ ReadReceipt(c) \/ ReadUpdated(c) \/ CheckMemo(c) \/ project_turn(c)
           \/ ReadRow(c) \/ ListTurn(c) \/ ListProject(c) \/ Facts(c) \/ record_page(c)
           \/ view_at_step(c) \/ read_agreed_steps(c) \/ ActorViews(c)
           \/ Submit(c) \/ ActorTakesInput(c) \/ Acked(c) \/ SubmitFails(c)

Next == Write \/ \E c \in Clients : Read(c)

Spec == Init /\ [][Next]_vars

-----------------------------------------------------------------------------
TypeOK ==
  /\ req \in {"none", "open", "failed"} /\ act \in {"none", "prepared", "committed"}
  /\ exec = None \/ exec.st \in Statuses
  /\ turns = None \/ turns \in 0..MaxSteps
  /\ driver \in BOOLEAN /\ deaths \in 0..MaxDeaths
  /\ \A c \in Clients : known[c] \in 0..MaxSteps

\* A status or a list entry that says Completed says that the receipt is there:
\* the receipt is looked up after the aggregate that its publication completed,
\* so a caller that waited for the end may ask for the receipt at once
\* (project_exec_status reads the state before the summary row).
CompletedHasReceipt ==
  \A c \in Clients : answer[c].lc = "Completed" => answer[c].receipt

\* The turn and phase of a status are those of the step it reports, however many
\* projections of older and newer steps write the memo meanwhile (project_turn).
\* A list entry's turn is never of an earlier step than the entry's; it may be of
\* a later one, because a memo miss projects the aggregate as it is by then.
TurnFitsItsStep ==
  \A c \in Clients : answer[c].turn # None =>
    /\ answer[c].op \in {"status", "inspect"} => answer[c].turn = answer[c].step
    /\ answer[c].op = "list" => answer[c].turn >= answer[c].step

\* No read that spans several transactions meets a combination of records it
\* calls corrupt: no "has no execution aggregate", no step without its stored state.
NoTornFailure == \A c \in Clients : answer[c].result \notin {"Storage", "Corruption"}

\* An inspection's event total covers every step of the status it comes with.
InspectCoversItsStatus ==
  \A c \in Clients : answer[c].op = "inspect" => answer[c].total >= answer[c].step

\* What a submit's caller is told when it returns is what became of its answer.
ReportsItsAnswer(c) ==
  call[c].op = "submit" /\ call'[c].pc = "idle" =>
    /\ answer'[c].result = "ok" => <<c, call[c].id>> \in applied
    /\ answer'[c].result \in {"dropped", "rejected", "not_pending"}
         => <<c, call[c].id>> \notin applied

\* One callout takes one answer, whoever sends it and however often the driver dies.
OneAnswerPerCallout ==
  \A a, b \in applied : a[2] = b[2] => a = b

\* What a caller is told of an execution never goes back: no call, by whichever
\* path it reads (columns, aggregate, journal or resident guest), reports fewer
\* agreed steps than an earlier reply, and no status an older record.
RepliesMoveForward ==
  [][\A c \in Clients :
       answer'[c] # answer[c] /\ answer'[c].result = "ok" /\ answer'[c].op # "submit" =>
         /\ answer'[c].step >= known[c]
         /\ answer[c].op = answer'[c].op /\ answer[c].lc \in Ended => answer'[c].lc \in Ended]_vars
=============================================================================
