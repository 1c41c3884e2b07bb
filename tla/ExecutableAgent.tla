---------------------------- MODULE ExecutableAgent ----------------------------
(***************************************************************************)
(* The executable driver of a coordinated run (arena0-cli/src/agent.rs):    *)
(* one child process that is sent a callout per line and writes an answer   *)
(* per line.  The child may write what it likes when it likes, close its    *)
(* output, exit, or do nothing; the driver closes for good at the first     *)
(* thing it notices and cannot account for.  Its waits are bounded, except  *)
(* that for the exit of a child whose output a probe found ended.           *)
(*                                                                         *)
(* A line is the number of callouts the child had been sent when it wrote   *)
(* it; the bytes of an unfinished line are left out.                        *)
(***************************************************************************)
EXTENDS Naturals, Sequences, FiniteSets

CONSTANTS
    MaxCallouts,  \* bound: callouts the caller asks about
    MaxLines      \* bound: lines the child writes

BoundsAssumption == MaxCallouts \in Nat \ {0} /\ MaxLines \in Nat

VARIABLES
    child,     \* running, exited, killed
    reaped,    \* the child was waited for
    output,    \* whether the child's stdout is open
    input,     \* whether its stdin is open
    pipe,      \* lines written and not read
    buffer,    \* stdout_pending: lines read and not consumed
    written,   \* history: every line the child wrote
    sent,      \* callouts written to the child
    at,        \* where the driver is
    verdict,   \* what the check after an answer found
    answers,   \* history: the lines answered with
    closed

vars == <<child, reaped, output, input, pipe, buffer, written, sent, at, verdict, answers, closed>>
world == <<child, output, written>>

Places == {"Idle", "Probe", "Write", "Read", "Extra", "Check", "Finish", "FinishWait", "Wait",
           "WaitBounded", "Fail", "Reap"}
Lines == 0..MaxCallouts

TypeOK ==
    /\ child \in {"Running", "Exited", "Killed"} /\ reaped \in BOOLEAN
    /\ output \in BOOLEAN /\ input \in BOOLEAN /\ closed \in BOOLEAN
    /\ pipe \in Seq(Lines) /\ buffer \in Seq(Lines) /\ written \in Seq(Lines)
    /\ answers \in Seq(Lines) /\ Len(written) <= MaxLines
    /\ sent \in 0..MaxCallouts /\ at \in Places /\ verdict \in {"None", "Answered", "Finished", "Failed"}

Init ==
    /\ child = "Running" /\ reaped = FALSE /\ output = TRUE /\ input = TRUE
    /\ pipe = <<>> /\ buffer = <<>> /\ written = <<>> /\ sent = 0 /\ at = "Idle"
    /\ verdict = "None" /\ answers = <<>> /\ closed = FALSE

-----------------------------------------------------------------------------
(* The child.                                                               *)

Writes ==
    /\ child = "Running" /\ output /\ Len(written) < MaxLines
    /\ pipe' = Append(pipe, sent) /\ written' = Append(written, sent)
    /\ UNCHANGED <<child, reaped, output, input, buffer, sent, at, verdict, answers, closed>>

ClosesOutput ==
    /\ child = "Running" /\ output
    /\ output' = FALSE
    /\ UNCHANGED <<child, reaped, input, pipe, buffer, written, sent, at, verdict, answers, closed>>

Exits ==
    /\ child = "Running"
    /\ child' = "Exited" /\ output' = FALSE
    /\ UNCHANGED <<reaped, input, pipe, buffer, written, sent, at, verdict, answers, closed>>

-----------------------------------------------------------------------------
(* answer().                                                                *)

Ask ==
    /\ at = "Idle" /\ ~closed /\ sent < MaxCallouts /\ verdict # "Finished"
    /\ at' = "Probe" /\ verdict' = "None"
    /\ UNCHANGED <<world, reaped, input, pipe, buffer, sent, answers, closed>>

\* reject_extra_output: buffered or waiting output is an error, an ended output waits for the
\* exit, and nothing within the grace period is well.
Quiet == buffer = <<>> /\ pipe = <<>> /\ output
Noise == buffer # <<>> \/ pipe # <<>>
Ended == buffer = <<>> /\ pipe = <<>> /\ ~output

Probe(then, wait) ==
    \/ Quiet /\ at' = then
    \/ Noise /\ at' = "Fail"
    \/ Ended /\ at' = wait

ProbeFirst ==
    /\ at = "Probe" /\ Probe("Write", "Wait")
    /\ UNCHANGED <<world, reaped, input, pipe, buffer, sent, verdict, answers, closed>>

\* The callout may be too large or the pipe broken.
WriteCallout ==
    /\ at = "Write"
    /\ \/ at' = "Read" /\ sent' = sent + 1 /\ child = "Running"
       \/ at' = "Fail" /\ UNCHANGED sent
    /\ UNCHANGED <<world, reaped, input, pipe, buffer, verdict, answers, closed>>

\* One read may return several lines; the first is the answer, if it is JSON of legal size.
ReadAnswer ==
    /\ at = "Read"
    /\ \/ /\ buffer = <<>> /\ pipe # <<>>
          /\ \E n \in 1..Len(pipe) :
               /\ buffer' = SubSeq(pipe, 1, n) /\ pipe' = SubSeq(pipe, n + 1, Len(pipe))
          /\ UNCHANGED <<at, answers>>
       \/ /\ buffer # <<>>
          /\ buffer' = Tail(buffer) /\ UNCHANGED pipe
          /\ \/ at' = "Extra" /\ answers' = Append(answers, Head(buffer))
             \/ at' = "Fail" /\ UNCHANGED answers
       \/ Ended /\ at' = "WaitBounded" /\ UNCHANGED <<buffer, pipe, answers>>
    /\ UNCHANGED <<world, reaped, input, sent, verdict, closed>>

\* What the probe after an answer makes of further output: an error, never a skip.
ExtraOutput == Probe("Check", "WaitBounded") /\ UNCHANGED <<pipe, buffer>>

ProbeExtra ==
    /\ at = "Extra" /\ ExtraOutput
    /\ UNCHANGED <<world, reaped, input, sent, verdict, answers, closed>>

\* try_wait: the child must still be there for the next callout.
CheckChild ==
    /\ at = "Check"
    /\ IF child = "Running"
         THEN at' = "Idle" /\ verdict' = "Answered"
         ELSE at' = "Fail" /\ UNCHANGED verdict
    /\ UNCHANGED <<world, reaped, input, pipe, buffer, sent, answers, closed>>

\* The response timeout covers the write, the read and the second probe.
TimesOut ==
    /\ at \in {"Write", "Read", "Extra", "WaitBounded"}
    /\ at' = "Fail"
    /\ UNCHANGED <<world, reaped, input, pipe, buffer, sent, verdict, answers, closed>>

\* An ended output: wait() returns when the child exits.
WaitReturns ==
    /\ at \in {"Wait", "WaitBounded"} /\ child # "Running"
    /\ reaped' = TRUE /\ at' = "Fail"
    /\ UNCHANGED <<world, input, pipe, buffer, sent, verdict, answers, closed>>

\* fail() and terminate(): stdin is dropped, the process group killed, the child reaped.
Kill ==
    /\ at = "Fail"
    /\ child' = IF child = "Running" THEN "Killed" ELSE child
    /\ output' = FALSE /\ input' = FALSE /\ at' = "Reap"
    /\ UNCHANGED <<reaped, pipe, buffer, written, sent, verdict, answers, closed>>

Reap ==
    /\ at = "Reap"
    /\ reaped' = TRUE /\ closed' = TRUE /\ at' = "Idle" /\ verdict' = "Failed"
    /\ UNCHANGED <<world, input, pipe, buffer, sent, answers>>

\* The run is cancelled while an answer is awaited: the future is dropped and terminate runs.
Cancel ==
    /\ at \notin {"Idle", "Fail", "Reap", "FinishWait", "Finish"}
    /\ at' = "Fail"
    /\ UNCHANGED <<world, reaped, input, pipe, buffer, sent, verdict, answers, closed>>

-----------------------------------------------------------------------------
(* finish().                                                                *)

Finish ==
    /\ at = "Idle" /\ ~closed /\ verdict # "Finished"
    /\ at' = "Finish"
    /\ UNCHANGED <<world, reaped, input, pipe, buffer, sent, verdict, answers, closed>>

ProbeLast ==
    /\ at = "Finish" /\ Probe("FinishWait", "Wait")
    /\ input' = (IF Quiet THEN FALSE ELSE input)
    /\ UNCHANGED <<world, reaped, pipe, buffer, sent, verdict, answers, closed>>

\* The child exits within the shutdown timeout or is killed; its descendants go with it.
FinishReaps ==
    /\ at = "FinishWait"
    /\ child' = IF child = "Running" THEN "Killed" ELSE child
    /\ output' = FALSE /\ reaped' = TRUE /\ closed' = TRUE /\ at' = "Idle"
    /\ verdict' = IF child = "Exited" THEN "Finished" ELSE "Failed"
    /\ UNCHANGED <<input, pipe, buffer, written, sent, answers>>

\* Drop without terminate: the group is killed and nobody reaps.
DropAgent ==
    /\ ~closed
    /\ child' = IF child = "Running" THEN "Killed" ELSE child
    /\ output' = FALSE /\ closed' = TRUE /\ at' = "Idle" /\ verdict' = "Failed"
    /\ UNCHANGED <<reaped, input, pipe, buffer, written, sent, answers>>

-----------------------------------------------------------------------------
DriverStep ==
    \/ ProbeFirst \/ WriteCallout \/ ReadAnswer \/ ProbeExtra \/ CheckChild \/ TimesOut
    \/ WaitReturns \/ Kill \/ Reap \/ ProbeLast \/ FinishReaps

Next == Writes \/ ClosesOutput \/ Exits \/ Ask \/ DriverStep \/ Cancel \/ Finish \/ DropAgent

Spec == Init /\ [][Next]_vars

\* The driver's own steps and timeouts happen; the caller and the child owe nothing.
Fairness == WF_vars(DriverStep)

FairSpec == Spec /\ Fairness

-----------------------------------------------------------------------------
(* Properties.                                                              *)

\* The answers are the first lines the child wrote, one for each callout, in order: no line is
\* skipped and none is used twice. A line may still be older than the callout it answers: one
\* that is written after the probe and before the callout is taken for the next answer.
AnswersAreTheLinesInOrder ==
    /\ Len(answers) <= sent
    /\ \A i \in DOMAIN answers : i <= Len(written) /\ answers[i] = written[i]

\* A driver that is closed has no process left, and after answer or finish the process was also
\* waited for: only Drop may leave the reaping to the system.
ClosedMeansGone ==
    closed => child # "Running" /\ (verdict = "Finished" => reaped)

Called == at # "Idle"
Returned == at = "Idle" \/ (at = "Wait" /\ child = "Running")

\* Every call on the driver returns, unless a child that has closed its output goes on running:
\* the first probe of answer() and that of finish() wait for its exit, under no timeout.
CallsReturn == Called ~> Returned
=============================================================================
