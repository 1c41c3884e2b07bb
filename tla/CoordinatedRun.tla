---------------------------- MODULE CoordinatedRun ----------------------------
(***************************************************************************)
(* The CLI's coordinated run (arena0-cli/src/coordinated.rs): one process   *)
(* creates an execution on each of several Hosts, waits for them to share a *)
(* session, drives the Hosts it has drivers for, verifies every receipt and *)
(* reports one result.  Each stage spawns one job per Host; Ctrl-C, a       *)
(* refused or lost call, and a stranger who takes a seat may end the run at *)
(* any stage, and it then stops every execution it asked for.               *)
(*                                                                         *)
(* The Hosts are seen through their API.  A call may stay unanswered for    *)
(* ever; exec.cancel_creation waits for a creation that has not arrived.    *)
(***************************************************************************)
EXTENDS Naturals, FiniteSets

CONSTANTS
    Hosts,        \* the selected Hosts
    Creator,      \* the first of them
    Driver,       \* the local policy of each: External, Human or Executable
    Stranger,     \* another Host that may join the creator's offer first
    Strangers,    \* whether it may
    MaxCallouts,  \* bound: callouts a Host opens
    MaxAttempts   \* receipt.verify attempts (20 in the code)

\* ValidatedBindings: at least two Hosts, at most one human.
BindingsAssumption ==
    /\ IsFiniteSet(Hosts) /\ Cardinality(Hosts) >= 2 /\ Creator \in Hosts
    /\ Driver \in [Hosts -> {"External", "Human", "Executable"}]
    /\ Cardinality({h \in Hosts : Driver[h] = "Human"}) <= 1
    /\ Stranger \notin Hosts /\ Strangers \in BOOLEAN
    /\ MaxCallouts \in Nat /\ MaxAttempts \in Nat \ {0}

VARIABLES
    \* the coordinator
    stage,      \* the stage it is in
    at,         \* where the stage's job for each Host is
    named,      \* Hosts on which an execution id was asked for
    found,      \* what connecting (peer id) and resolving (program) found on each Host
    failed,     \* the stage has recorded a failure
    ended,      \* the terminal each drive job returned
    attempts,   \* receipt.verify calls each job has made
    signal,     \* Ctrl-C was received
    draining,   \* the run was cancelled and its operation has three seconds to end
    cancel,     \* the watch channel the operation's jobs listen to
    undead,     \* Hosts with an aborted job that has not ended
    report,     \* what the run returned
    \* the drivers
    process,    \* the executable of each Host: none, up, gone
    pending,    \* the callout a driver was last asked about
    answered,   \* the callout its job has answered
    accepted,   \* history: <<open callout, callout asked about>> of every accepted answer
    \* the Hosts
    new,        \* exec.new: none, sent, and how it was served
    exec,       \* the execution on each Host
    cancelling, \* the run's exec.cancel_creation: none, sent, waiting for the creation, answers
    seats,      \* the Hosts of the activated session
    fate,       \* how the session ends
    receipt,    \* the receipt each Host published
    callout     \* the callouts each Host has opened, and whether the last is open

drivers == <<process, pending, answered, accepted>>
hosts == <<new, exec, cancelling, seats, fate, receipt, callout>>
control == <<named, found, failed, ended, attempts, draining, cancel, undead, report>>
vars == <<stage, at, signal, control, drivers, hosts>>

Stages == {"Connect", "Resolve", "Create", "Spawn", "Join", "Activate", "Drive", "Verify",
           "Stop", "Returned"}
Places == {"None", "Calling", "Draining", "Status", "Next", "Ask", "Submit", "Sleep", "Finish",
           "Kill", "Ok", "Err", "Joined"}
Ends == {"None", "Completed", "Stopped"}

TypeOK ==
    /\ stage \in Stages /\ at \in [Hosts -> Places] /\ named \subseteq Hosts
    /\ found \in [Hosts -> 0..Cardinality(Hosts)] /\ failed \in BOOLEAN /\ ended \in [Hosts -> Ends]
    /\ attempts \in [Hosts -> 0..MaxAttempts]
    /\ signal \in BOOLEAN /\ draining \in BOOLEAN /\ cancel \in BOOLEAN /\ undead \subseteq Hosts
    /\ report \in [result : {"None", "Completed", "Stopped", "Error"},
                   clean : BOOLEAN, drained : BOOLEAN]
    /\ process \in [Hosts -> {"None", "Up", "Gone"}]
    /\ pending \in [Hosts -> 0..MaxCallouts] /\ answered \in [Hosts -> 0..MaxCallouts]
    /\ accepted \in [Hosts -> SUBSET ((1..MaxCallouts) \X (1..MaxCallouts))]
    /\ new \in [Hosts -> {"None", "Sent", "Ok", "Err"}]
    /\ exec \in [Hosts -> {"None", "Negotiating", "Active", "Completed", "Stopped"}]
    /\ cancelling \in [Hosts -> {"None", "Sent", "Waiting", "Ok", "Err"}]
    /\ seats \subseteq Hosts \cup {Stranger} /\ fate \in Ends
    /\ receipt \in [Hosts -> Ends]
    /\ callout \in [Hosts -> [id : 0..MaxCallouts, state : {"Closed", "Open", "Staged"}]]

Init ==
    /\ stage = "Connect" /\ at = [h \in Hosts |-> "Calling"] /\ named = {}
    /\ found = [h \in Hosts |-> 0] /\ failed = FALSE /\ ended = [h \in Hosts |-> "None"]
    /\ attempts = [h \in Hosts |-> 0] /\ signal = FALSE /\ draining = FALSE /\ cancel = FALSE
    /\ undead = {} /\ report = [result |-> "None", clean |-> TRUE, drained |-> TRUE]
    /\ process = [h \in Hosts |-> "None"] /\ pending = [h \in Hosts |-> 0]
    /\ answered = [h \in Hosts |-> 0] /\ accepted = [h \in Hosts |-> {}]
    /\ new = [h \in Hosts |-> "None"] /\ exec = [h \in Hosts |-> "None"]
    /\ cancelling = [h \in Hosts |-> "None"] /\ seats = {} /\ fate = "None"
    /\ receipt = [h \in Hosts |-> "None"]
    /\ callout = [h \in Hosts |-> [id |-> 0, state |-> "Closed"]]

-----------------------------------------------------------------------------
(* Jobs.  A job that is dropped is only told to stop: it ends later.        *)

Live(place) == place \notin {"None", "Ok", "Err", "Joined"}
Go(h, place) == at' = [at EXCEPT ![h] = place]
Jobs(s, place) == [h \in Hosts |-> IF h \in s THEN place ELSE "None"]
Dropped == {h \in Hosts : Live(at[h])}

\* Dropping a stage's JoinSet aborts its unfinished jobs.
Drop == undead' = undead \cup Dropped

Return(result, clean) ==
    /\ stage' = "Returned" /\ at' = [h \in Hosts |-> "None"]
    /\ report' = [report EXCEPT !.result = result, !.clean = clean]

\* What the stage's jobs and their select keep in locals, gone with them.
locals == <<ended, attempts, draining, pending, answered>>
Forget ==
    /\ ended' = [h \in Hosts |-> "None"] /\ attempts' = [h \in Hosts |-> 0]
    /\ pending' = [h \in Hosts |-> 0] /\ answered' = [h \in Hosts |-> 0] /\ draining' = FALSE

\* The run failed after asking for executions: stop_participants on each of them.
StopAll(s) ==
    /\ stage' = "Stop" /\ at' = Jobs(s, "Calling") /\ failed' = FALSE /\ Forget
    /\ cancelling' = [h \in Hosts |-> IF h \in s THEN "Sent" ELSE cancelling[h]]

\* An aborted job is dropped when its task is next polled; a driver it owns is killed then.
UndeadEnds(h) ==
    /\ h \in undead
    /\ undead' = undead \ {h}
    /\ process' = [process EXCEPT ![h] = IF process[h] = "Up" THEN "Gone" ELSE process[h]]
    /\ UNCHANGED <<stage, at, signal, named, found, failed, ended, attempts, draining, cancel,
                   report, pending, answered, accepted, hosts>>

CtrlC ==
    /\ ~signal /\ stage # "Returned"
    /\ signal' = TRUE
    /\ UNCHANGED <<stage, at, control, drivers, hosts>>

-----------------------------------------------------------------------------
(* Connecting and resolving: every Host must answer, with distinct peer ids *)
(* and one program.                                                         *)

Looks(h) ==
    /\ stage \in {"Connect", "Resolve"} /\ at[h] = "Calling"
    /\ \E value \in 1..Cardinality(Hosts) : found' = [found EXCEPT ![h] = value]
    /\ Go(h, "Ok")
    /\ UNCHANGED <<stage, signal, named, failed, ended, attempts, draining, cancel, undead,
                   report, drivers, hosts>>

LookFails(h) ==
    /\ stage \in {"Connect", "Resolve"} /\ at[h] = "Calling"
    /\ Go(h, "Err")
    /\ UNCHANGED <<stage, signal, control, drivers, hosts>>

Distinct == \A g, h \in Hosts : found[g] = found[h] => g = h
Same == \A g, h \in Hosts : found[g] = found[h]

\* The first failure returns from the stage and drops the other jobs.
LookReturns ==
    /\ stage \in {"Connect", "Resolve"}
    /\ signal \/ \E h \in Hosts : at[h] = "Err"
    /\ Drop /\ Return("Error", TRUE)
    /\ UNCHANGED <<signal, named, found, failed, ended, attempts, draining, cancel, drivers,
                   hosts>>

ConnectEnds ==
    /\ stage = "Connect" /\ \A h \in Hosts : at[h] = "Ok"
    /\ IF Distinct
         THEN /\ stage' = "Resolve" /\ at' = Jobs(Hosts, "Calling") /\ UNCHANGED report
         ELSE Return("Error", TRUE)
    /\ found' = [h \in Hosts |-> 0]
    /\ UNCHANGED <<signal, named, failed, ended, attempts, draining, cancel, undead, drivers,
                   hosts>>

\* The program's participant bounds may refuse the number of Hosts.
ResolveEnds ==
    /\ stage = "Resolve" /\ \A h \in Hosts : at[h] = "Ok"
    /\ \/ /\ Same /\ ~signal
          /\ stage' = "Create" /\ at' = Jobs({Creator}, "Calling")
          /\ named' = {Creator} /\ new' = [new EXCEPT ![Creator] = "Sent"]
          /\ UNCHANGED report
       \/ Return("Error", TRUE) /\ UNCHANGED <<named, new>>
    /\ found' = [h \in Hosts |-> 0]
    /\ UNCHANGED <<signal, failed, ended, attempts, draining, cancel, undead, drivers,
                   exec, cancelling, seats, fate, receipt, callout>>

-----------------------------------------------------------------------------
(* Creating: the ids are chosen here, so an execution whose answer was lost *)
(* can still be stopped.                                                    *)

\* call_during_creation: the answer, a timeout, or a cancelled call's short drain.
CreateAnswered(h) ==
    /\ stage \in {"Create", "Spawn", "Join"} /\ at[h] \in {"Calling", "Draining"}
    /\ new[h] \in {"Ok", "Err"}
    /\ Go(h, new[h])
    /\ UNCHANGED <<stage, signal, control, drivers, hosts>>

CreateTimesOut(h) ==
    /\ stage \in {"Create", "Spawn", "Join"} /\ at[h] \in {"Calling", "Draining"}
    /\ Go(h, "Err")
    /\ UNCHANGED <<stage, signal, control, drivers, hosts>>

CreateDrains(h) ==
    /\ stage \in {"Create", "Spawn", "Join"} /\ at[h] = "Calling" /\ signal
    /\ Go(h, "Draining")
    /\ UNCHANGED <<stage, signal, control, drivers, hosts>>

\* A creator whose exec.new failed is stopped by the id that was asked for.
CreatorEnds ==
    /\ stage = "Create" /\ at[Creator] \in {"Ok", "Err"}
    /\ IF at[Creator] = "Ok"
         THEN /\ stage' = "Spawn" /\ at' = [h \in Hosts |-> "None"]
              /\ UNCHANGED <<failed, cancelling, locals>>
         ELSE StopAll(named)
    /\ UNCHANGED <<signal, named, found, cancel, undead, report, process, accepted, new, exec,
                   seats, fate, receipt, callout>>

SpawnJoin(h) ==
    /\ stage = "Spawn" /\ ~signal /\ h \in Hosts \ named
    /\ Go(h, "Calling") /\ named' = named \cup {h} /\ new' = [new EXCEPT ![h] = "Sent"]
    /\ UNCHANGED <<stage, signal, found, failed, ended, attempts, draining, cancel, undead,
                   report, drivers, exec, cancelling, seats, fate, receipt, callout>>

SpawnEnds ==
    /\ stage = "Spawn" /\ (signal \/ named = Hosts)
    /\ stage' = "Join"
    /\ UNCHANGED <<at, signal, control, drivers, hosts>>

\* Join, Drive and Stop join every job and remember that one failed.
Joins(h) ==
    /\ stage \in {"Join", "Drive", "Stop"} /\ at[h] \in {"Ok", "Err"}
    /\ Go(h, "Joined")
    /\ failed' = (failed \/ at[h] = "Err")
    /\ cancel' = (cancel \/ (stage = "Drive" /\ at[h] = "Err"))
    /\ UNCHANGED <<stage, signal, named, found, ended, attempts, draining, undead, report,
                   drivers, hosts>>

AllJoined == \A h \in Hosts : at[h] \in {"None", "Joined"}

\* What a failed or cancelled creation leaves behind: every id asked for.
CreationStops == StopAll(named)

JoinEnds ==
    /\ stage = "Join" /\ AllJoined
    /\ IF failed \/ signal
         THEN CreationStops
         ELSE /\ stage' = "Activate" /\ at' = Jobs(Hosts, "Calling")
              /\ UNCHANGED <<failed, cancelling, locals>>
    /\ UNCHANGED <<signal, named, found, cancel, undead, report, process, accepted, new, exec,
                   seats, fate, receipt, callout>>

-----------------------------------------------------------------------------
(* complete(): activation, driving, verification, under the outer select.   *)

Operating == stage \in {"Activate", "Drive", "Verify"}

\* Ctrl-C wins the select while the operation has nothing to return.
Interrupt ==
    /\ Operating /\ signal /\ ~draining
    /\ draining' = TRUE /\ cancel' = TRUE
    /\ UNCHANGED <<stage, at, signal, named, found, failed, ended, attempts, undead, report,
                   drivers, hosts>>

\* The operation outlives the three seconds: it is dropped with its jobs.
DrainTimesOut ==
    /\ Operating /\ draining
    /\ Drop /\ StopAll(named)
    /\ report' = [report EXCEPT !.drained = FALSE]
    /\ UNCHANGED <<signal, named, found, cancel, process, accepted, new, exec, seats, fate,
                   receipt, callout>>

\* await_activation: exec.await until active, then the status must still be active.
Awaited(h) ==
    /\ stage = "Activate" /\ at[h] = "Calling"
    /\ \/ exec[h] = "Active" /\ Go(h, "Status")
       \/ exec[h] \in {"Completed", "Stopped"} /\ Go(h, "Err")
       \/ exec[h] = "Negotiating" /\ Go(h, "Err")   \* the Host's own deadline
    /\ UNCHANGED <<stage, signal, control, drivers, hosts>>

StatusRead(h) ==
    /\ stage = "Activate" /\ at[h] = "Status"
    /\ Go(h, IF exec[h] = "Active" THEN "Ok" ELSE "Err")
    /\ UNCHANGED <<stage, signal, control, drivers, hosts>>

\* The first failure, or the cancellation, ends the stage; the other jobs are dropped.
ActivationFails ==
    /\ stage = "Activate" /\ (cancel \/ \E h \in Hosts : at[h] = "Err")
    /\ Drop /\ StopAll(named) /\ cancel' = TRUE
    /\ UNCHANGED <<signal, named, found, report, process, accepted, new, exec, seats, fate,
                   receipt, callout>>

\* drive: every driver is started by its job.
FirstPlace(h) == IF Driver[h] = "External" THEN "Calling" ELSE "Next"

Activated ==
    /\ stage = "Activate" /\ \A h \in Hosts : at[h] = "Ok"
    /\ stage' = "Drive" /\ at' = [h \in Hosts |-> FirstPlace(h)] /\ failed' = FALSE
    /\ process' = [h \in Hosts |-> IF Driver[h] = "Executable" THEN "Up" ELSE process[h]]
    /\ UNCHANGED <<signal, named, found, ended, attempts, draining, cancel, undead, report,
                   pending, answered, accepted, hosts>>

\* A call that the daemon does not answer with a value fails its job.
CallFails(h) ==
    /\ \/ stage \in {"Activate", "Verify"} /\ at[h] \in {"Calling", "Status"} /\ Go(h, "Err")
       \/ /\ stage = "Drive" /\ at[h] \in {"Calling", "Next", "Submit"}
          /\ Go(h, IF Driver[h] = "Executable" THEN "Kill" ELSE "Err")
    /\ UNCHANGED <<stage, signal, control, drivers, hosts>>

-----------------------------------------------------------------------------
(* drive_to_terminal and drive_loop.                                        *)

Ending(h) == IF Driver[h] = "Executable" THEN "Finish" ELSE "Ok"
Failing(h) == IF Driver[h] = "Executable" THEN "Kill" ELSE "Err"

Concluded(h) == exec[h] \in {"Completed", "Stopped"}

\* An external Host: exec.await until terminal, repeated on timeout, then exec.next.
Observed(h) ==
    /\ stage = "Drive" /\ at[h] = "Calling" /\ Concluded(h)
    /\ ended' = [ended EXCEPT ![h] = exec[h]] /\ Go(h, "Ok")
    /\ UNCHANGED <<stage, signal, named, found, failed, attempts, draining, cancel, undead,
                   report, drivers, hosts>>

\* exec.next: a callout that this job has answered already is only waited for.
NextCallout(h) ==
    /\ stage = "Drive" /\ at[h] = "Next" /\ callout[h].state # "Closed"
    /\ IF answered[h] = callout[h].id
         THEN Go(h, "Sleep") /\ UNCHANGED pending
         ELSE Go(h, "Ask") /\ pending' = [pending EXCEPT ![h] = callout[h].id]
    /\ UNCHANGED <<stage, signal, control, process, answered, accepted, hosts>>

NextTerminal(h) ==
    /\ stage = "Drive" /\ at[h] = "Next" /\ Concluded(h)
    /\ ended' = [ended EXCEPT ![h] = exec[h]] /\ Go(h, Ending(h))
    /\ UNCHANGED <<stage, signal, named, found, failed, attempts, draining, cancel, undead,
                   report, drivers, hosts>>

Wakes(h) ==
    /\ stage = "Drive" /\ at[h] = "Sleep"
    /\ Go(h, "Next")
    /\ UNCHANGED <<stage, signal, control, drivers, hosts>>

Answers(h) ==
    /\ stage = "Drive" /\ at[h] = "Ask"
    /\ Go(h, "Submit")
    /\ UNCHANGED <<stage, signal, control, drivers, hosts>>

\* A malformed, late or extra answer, or an exit, closes the driver.
DriverFails(h) ==
    /\ stage = "Drive" /\ at[h] = "Ask"
    /\ Go(h, Failing(h))
    /\ UNCHANGED <<stage, signal, control, drivers, hosts>>

\* The answer goes to the callout it was asked for.
Names(h) == pending[h]

SubmitAccepted(h) ==
    /\ stage = "Drive" /\ at[h] = "Submit"
    /\ callout[h].state = "Open" /\ callout[h].id = Names(h)
    /\ callout' = [callout EXCEPT ![h].state = "Staged"]
    /\ accepted' = [accepted EXCEPT ![h] = @ \cup {<<callout[h].id, pending[h]>>}]
    /\ answered' = [answered EXCEPT ![h] = pending[h]] /\ Go(h, "Next")
    /\ UNCHANGED <<stage, signal, control, process, pending, new, exec, cancelling, seats, fate,
                   receipt>>

\* CalloutNotPending: another client answered it, or it closed.
SubmitLate(h) ==
    /\ stage = "Drive" /\ at[h] = "Submit"
    /\ callout[h].state = "Closed" \/ callout[h].id # Names(h)
    /\ answered' = [answered EXCEPT ![h] = pending[h]] /\ Go(h, "Next")
    /\ UNCHANGED <<stage, signal, control, process, pending, accepted, hosts>>

\* InputRejected: a human is asked again, an executable fails the run.
SubmitRejected(h) ==
    /\ stage = "Drive" /\ at[h] = "Submit" /\ callout[h].state = "Open"
    /\ Go(h, IF Driver[h] = "Human" THEN "Ask" ELSE Failing(h))
    /\ UNCHANGED <<stage, signal, control, drivers, hosts>>

\* Every wait of the loop listens to the cancellation.
DriveCancelled(h) ==
    /\ stage = "Drive" /\ cancel /\ at[h] \in {"Calling", "Next", "Sleep", "Ask", "Submit"}
    /\ Go(h, IF at[h] = "Calling" THEN "Err" ELSE Failing(h))
    /\ UNCHANGED <<stage, signal, control, drivers, hosts>>

\* finish closes stdin, waits a second and kills; terminate kills and reaps.  A bad exit status
\* or extra output fails the job after the process is gone.
DriverCloses(h) ==
    /\ stage = "Drive" /\ at[h] \in {"Finish", "Kill"}
    /\ process' = [process EXCEPT ![h] = "Gone"]
    /\ \/ at[h] = "Finish" /\ Go(h, "Ok")
       \/ Go(h, "Err")
    /\ UNCHANGED <<stage, signal, control, pending, answered, accepted, hosts>>

\* compare_terminals.
Agree == \A g, h \in Hosts : ended[g] = ended[h]

DriveEnds ==
    /\ stage = "Drive" /\ AllJoined
    /\ IF failed \/ ~Agree
         THEN StopAll(named) /\ cancel' = TRUE
         ELSE /\ stage' = "Verify" /\ at' = Jobs(Hosts, "Calling")
              /\ UNCHANGED <<failed, cancelling, cancel, locals>>
    /\ UNCHANGED <<signal, named, found, undead, report, process, accepted, new, exec, seats,
                   fate, receipt, callout>>

-----------------------------------------------------------------------------
(* verify_receipt on every Host: only a receipt not yet published is        *)
(* retried.                                                                 *)

Exhausted(h) == attempts[h] + 1 = MaxAttempts

VerifyReads(h) ==
    /\ stage = "Verify" /\ at[h] = "Calling"
    /\ IF receipt[h] # "None"
         THEN Go(h, "Ok") /\ UNCHANGED attempts
         ELSE /\ Go(h, IF Exhausted(h) THEN "Err" ELSE "Calling")
              /\ attempts' = [attempts EXCEPT ![h] = @ + 1]
    /\ UNCHANGED <<stage, signal, named, found, failed, ended, draining, cancel, undead, report,
                   drivers, hosts>>

\* compare_evidence, the ensemble check and bind_verified_terminal.
Bound == seats = Hosts /\ \A h \in Hosts : receipt[h] = ended[h]

VerifyEndsAtFirst ==
    /\ stage = "Verify" /\ \E h \in Hosts : at[h] = "Ok"
    /\ Drop /\ Return(ended[Creator], TRUE)
    /\ UNCHANGED <<signal, named, found, failed, ended, attempts, draining, cancel, drivers,
                   hosts>>

VerifyEnds ==
    /\ stage = "Verify" /\ \A h \in Hosts : at[h] = "Ok"
    /\ IF Bound /\ ~draining
         THEN Return(ended[Creator], TRUE) /\ UNCHANGED <<failed, cancelling, cancel, locals>>
         ELSE StopAll(named) /\ cancel' = TRUE /\ UNCHANGED report
    /\ UNCHANGED <<signal, named, found, undead, process, accepted, new, exec, seats, fate,
                   receipt, callout>>

VerifyFails ==
    /\ stage = "Verify" /\ \E h \in Hosts : at[h] = "Err"
    /\ Drop /\ StopAll(named) /\ cancel' = TRUE
    /\ UNCHANGED <<signal, named, found, report, process, accepted, new, exec, seats, fate,
                   receipt, callout>>

-----------------------------------------------------------------------------
(* stop_participants.                                                       *)

Stopped(h) ==
    /\ stage = "Stop" /\ at[h] = "Calling" /\ cancelling[h] \in {"Ok", "Err"}
    /\ Go(h, cancelling[h])
    /\ UNCHANGED <<stage, signal, control, drivers, hosts>>

StopTimesOut(h) ==
    /\ stage = "Stop" /\ at[h] = "Calling"
    /\ Go(h, "Err")
    /\ UNCHANGED <<stage, signal, control, drivers, hosts>>

\* The report of drivers that did not stop takes the place of that of an incomplete cleanup.
StopEnds ==
    /\ stage = "Stop" /\ AllJoined
    /\ Return("Error", ~failed \/ ~report.drained)
    /\ UNCHANGED <<signal, named, found, failed, ended, attempts, draining, cancel, undead,
                   drivers, hosts>>

-----------------------------------------------------------------------------
(* The Hosts.                                                               *)

\* exec.new arrives; a cancellation that waits for it consumes it.
Serve(h) ==
    /\ new[h] = "Sent"
    /\ IF cancelling[h] = "Waiting"
         THEN /\ new' = [new EXCEPT ![h] = "Err"] /\ UNCHANGED exec
              /\ cancelling' = [cancelling EXCEPT ![h] = "Ok"]
         ELSE /\ \/ new' = [new EXCEPT ![h] = "Ok"] /\ exec' = [exec EXCEPT ![h] = "Negotiating"]
                 \/ new' = [new EXCEPT ![h] = "Err"] /\ UNCHANGED exec
              /\ UNCHANGED cancelling
    /\ UNCHANGED <<stage, at, signal, control, drivers, seats, fate, receipt, callout>>

\* The creator freezes a session of as many participants as Hosts were selected.
Admit ==
    /\ seats = {} /\ exec[Creator] = "Negotiating"
    /\ \E s \in SUBSET (Hosts \cup (IF Strangers THEN {Stranger} ELSE {})) :
         /\ Creator \in s /\ Cardinality(s) = Cardinality(Hosts)
         /\ \A h \in s \cap Hosts : exec[h] = "Negotiating"
         /\ seats' = s
    /\ UNCHANGED <<stage, at, signal, control, drivers, new, exec, cancelling, fate, receipt,
                   callout>>

\* A participant activates, or a negotiation fails.
Start(h) ==
    /\ h \in seats /\ exec[h] = "Negotiating"
    /\ exec' = [exec EXCEPT ![h] = "Active"]
    /\ UNCHANGED <<stage, at, signal, control, drivers, new, cancelling, seats, fate, receipt,
                   callout>>

NegotiationFails(h) ==
    /\ h \notin seats /\ exec[h] = "Negotiating"
    /\ exec' = [exec EXCEPT ![h] = "Stopped"]
    /\ UNCHANGED <<stage, at, signal, control, drivers, new, cancelling, seats, fate, receipt,
                   callout>>

\* The session ends once, for every participant; each learns of it in its own time.
Decide ==
    /\ seats # {} /\ fate = "None"
    /\ \/ fate' = "Completed" /\ \A h \in seats \cap Hosts : exec[h] = "Active"
       \/ fate' = "Stopped"
    /\ UNCHANGED <<stage, at, signal, control, drivers, new, exec, cancelling, seats, receipt,
                   callout>>

Conclude(h) ==
    /\ exec[h] = "Active" /\ fate # "None"
    /\ exec' = [exec EXCEPT ![h] = fate]
    /\ callout' = [callout EXCEPT ![h].state = "Closed"]
    /\ UNCHANGED <<stage, at, signal, control, drivers, new, cancelling, seats, fate, receipt>>

Publish(h) ==
    /\ stage # "Returned"
    /\ h \in seats /\ Concluded(h) /\ receipt[h] = "None"
    /\ receipt' = [receipt EXCEPT ![h] = exec[h]]
    /\ UNCHANGED <<stage, at, signal, control, drivers, new, exec, cancelling, seats, fate,
                   callout>>

\* Callouts matter to the run on the Hosts it drives, while it lasts.
OpenCallout(h) ==
    /\ Driver[h] # "External" /\ stage # "Returned"
    /\ exec[h] = "Active" /\ callout[h].state = "Closed" /\ callout[h].id < MaxCallouts
    /\ callout' = [callout EXCEPT ![h] = [id |-> @.id + 1, state |-> "Open"]]
    /\ UNCHANGED <<stage, at, signal, control, drivers, new, exec, cancelling, seats, fate,
                   receipt>>

\* Another client answers, or the staged answer is agreed and the callout closes.
OtherAnswers(h) ==
    /\ callout[h].state = "Open"
    /\ callout' = [callout EXCEPT ![h].state = "Staged"]
    /\ UNCHANGED <<stage, at, signal, control, drivers, new, exec, cancelling, seats, fate,
                   receipt>>

CalloutCloses(h) ==
    /\ callout[h].state = "Staged"
    /\ callout' = [callout EXCEPT ![h].state = "Closed"]
    /\ UNCHANGED <<stage, at, signal, control, drivers, new, exec, cancelling, seats, fate,
                   receipt>>

\* exec.cancel_creation arrives: it stops what exists and waits for what may still come.
CancelServed(h) ==
    /\ cancelling[h] = "Sent"
    /\ \/ /\ exec[h] = "None"
          /\ cancelling' = [cancelling EXCEPT ![h] = "Waiting"] /\ UNCHANGED <<exec, fate, callout>>
       \/ /\ exec[h] = "Negotiating" /\ h \notin seats
          /\ exec' = [exec EXCEPT ![h] = "Stopped"]
          /\ cancelling' = [cancelling EXCEPT ![h] = "Ok"] /\ UNCHANGED <<fate, callout>>
       \/ \* the ticket is no longer revocable, or the actor refuses to stop
          /\ (exec[h] = "Negotiating" /\ h \in seats) \/ (exec[h] = "Active" /\ fate # "None")
          /\ cancelling' = [cancelling EXCEPT ![h] = "Err"] /\ UNCHANGED <<exec, fate, callout>>
       \/ /\ exec[h] = "Active" /\ fate = "None"
          /\ exec' = [exec EXCEPT ![h] = "Stopped"] /\ fate' = "Stopped"
          /\ callout' = [callout EXCEPT ![h].state = "Closed"]
          /\ cancelling' = [cancelling EXCEPT ![h] = "Ok"]
       \/ /\ Concluded(h)
          /\ cancelling' = [cancelling EXCEPT ![h] = "Ok"] /\ UNCHANGED <<exec, fate, callout>>
    /\ UNCHANGED <<stage, at, signal, control, drivers, new, seats, receipt>>

\* The creation did not arrive in the grace period: not found, and no status to excuse it.
CancelExpires(h) ==
    /\ cancelling[h] = "Waiting"
    /\ cancelling' = [cancelling EXCEPT ![h] = "Err"]
    /\ UNCHANGED <<stage, at, signal, control, drivers, new, exec, seats, fate, receipt, callout>>

-----------------------------------------------------------------------------
JobStep(h) ==
    \/ CreateAnswered(h) \/ CreateTimesOut(h) \/ CreateDrains(h) \/ SpawnJoin(h) \/ Joins(h)
    \/ StatusRead(h) \/ Observed(h) \/ NextCallout(h) \/ NextTerminal(h) \/ Wakes(h)
    \/ SubmitLate(h) \/ DriveCancelled(h) \/ DriverCloses(h) \/ VerifyReads(h)
    \/ Stopped(h) \/ StopTimesOut(h)

RunStep ==
    \/ LookReturns \/ ConnectEnds \/ ResolveEnds \/ CreatorEnds \/ SpawnEnds \/ JoinEnds
    \/ Interrupt \/ DrainTimesOut \/ ActivationFails \/ Activated \/ DriveEnds
    \/ VerifyEnds \/ VerifyFails \/ StopEnds

HostStep(h) ==
    \/ Serve(h) \/ Start(h) \/ NegotiationFails(h) \/ Conclude(h) \/ Publish(h)
    \/ OpenCallout(h) \/ OtherAnswers(h) \/ CalloutCloses(h) \/ CancelServed(h)
    \/ CancelExpires(h)

Next ==
    \/ CtrlC \/ RunStep \/ Admit \/ Decide
    \/ \E h \in Hosts :
         \/ UndeadEnds(h) \/ Looks(h) \/ LookFails(h) \/ Awaited(h) \/ CallFails(h) \/ Answers(h)
         \/ DriverFails(h) \/ SubmitAccepted(h) \/ SubmitRejected(h) \/ JobStep(h) \/ HostStep(h)

Spec == Init /\ [][Next]_vars

\* finish() may find the executable's output closed and then waits for its exit, under no timeout.
AwaitsExit(h) == stage = "Drive" /\ at[h] = "Finish"

\* The process runs what it can, its timeouts included; Hosts, people and executables owe nothing.
Fairness ==
    /\ WF_vars(RunStep)
    /\ \A h \in Hosts : WF_vars(JobStep(h) /\ ~AwaitsExit(h)) /\ WF_vars(DriveCancelled(h))

FairSpec == Spec /\ Fairness

-----------------------------------------------------------------------------
(* Properties.                                                              *)

\* A run that reports a result does so from receipts every selected Host has published, for one
\* session of exactly these Hosts, whose end is the one every Host's stream reported live:
\* complete() joins activation, terminals and receipts that were read at different times.
ReportedResultIsShared ==
    report.result \in {"Completed", "Stopped"} =>
        /\ seats = Hosts
        /\ \A h \in Hosts : receipt[h] = report.result /\ exec[h] = report.result

\* A run that ends without a result, and reports neither an incomplete cleanup nor drivers that
\* did not stop, leaves no execution running and none that a request still on its way could
\* start: create_executions chooses the ids before it asks, and stop_participants excuses
\* not-found only by a terminal status. Nothing is claimed once the drivers did not stop: that
\* report hides whether the cleanup was complete.
CleanFailureLeavesNothing ==
    stage = "Returned" /\ report.result = "Error" /\ report.clean /\ report.drained =>
        \A h \in Hosts : exec[h] \in {"None", "Completed", "Stopped"}
                         /\ (exec[h] = "None" => new[h] # "Sent")

\* A run that returns without reporting that its drivers did not stop has no agent process left:
\* drive() joins every job, and every job closes the driver it started.
NoDriverOutlivesTheRun ==
    stage = "Returned" /\ report.drained => \A h \in Hosts : process[h] # "Up"

\* A driver is not asked again about a callout for which the Host accepted its answer, although
\* exec.next keeps returning that callout until the answer is agreed.
AcceptedCalloutsAreNotAskedAgain ==
    \A h \in Hosts : at[h] = "Ask" => \A k \in 1..MaxCallouts : <<k, pending[h]>> \notin accepted[h]

\* An accepted answer belongs to the callout the driver was shown, although another client may
\* have answered that one and the program asked the next while the driver was thinking.
AnswersReachTheirCallout ==
    \A h \in Hosts : \A p \in accepted[h] : p[1] = p[2]

\* Ctrl-C ends the run, at whatever stage it arrives and whatever Hosts and drivers do: every
\* wait listens to it or has a timeout.
CtrlCEndsTheRun == signal ~> stage = "Returned"

DriverFailed == stage = "Drive" /\ (failed \/ \E h \in Hosts : at[h] \in {"Kill", "Err"})
FailureHandled == stage = "Returned" \/ \E h \in Hosts : AwaitsExit(h)

\* A driver that fails ends the whole run: its error cancels the jobs of the other Hosts, which
\* may be waiting for a person or for a session that will not end. Only a job that waits for an
\* executable to exit after its session is not cancelled, and holds the run until Ctrl-C.
DriverFailureEndsTheRun == DriverFailed ~> FailureHandled
=============================================================================
