------------------------------- MODULE MCHost -------------------------------
(***************************************************************************)
(* One Host and its daemon, one part at work in each behaviour (part) and  *)
(* the others in their initial states: the life of one execution           *)
(* (execs, retries, waiters, ends), the identity on disk (power, faults,   *)
(* both), the daemon's start and stop (daemon), reads of an execution      *)
(* (reads, submits), open offers (races, book, terms), the execution       *)
(* record and its timers (record, answers, timers, crowded) and the event  *)
(* stream (events, resumes, loads).                                        *)
(***************************************************************************)
EXTENDS Naturals, Sequences, FiniteSets

CONSTANTS
  None, Parts,
  Cancels, MaxCrashes, ProgramsBreak,   \* of "execs"
  Terminates,             \* of "ends"
  Others, Opens,          \* of "daemon"
  MaxAgreed, MaxBoots     \* of "events"

VARIABLES
  part,
  \* HostExecutions
  request, activation, aggregate, claimed, creation, completion, live, handle, driver,
  actor, mail, task, at, answer, watch, woken, stop, host, crashes,
  \* HostIdentity
  disk, saved, lease, reserved, pc, file, mine, identity, announced, signing, abandoned,
  messy, losses, faults,
  \* DaemonLifecycle
  state, build, serve, store, runtime, service, roster, ready, detached, daemonDisk,
  queue, closed, open, permit, servers, cleaning, stopper,
  \* ExecReads
  req, act, exec, turns, readDriver, deaths, call, readAnswer, known, applied,
  \* OfferDiscovery
  registered, requests, watchers, tasks, entries, observed, evicted, published, now,
  offerFaults,
  \* HostRecord
  db, recordActor, recordNow, told, recordFaults, recordCrashes,
  \* HostEvents
  eventRequest, bound, eventActivation, status, eventPublished, end, unconfirmed, trace, staged,
  outgoing, callout, opened, boots, wakes, eventLive, eventDriver, chatter, eventActor,
  sessionStarted, terminalEmitted, eventAnnounced, messages, supervisor, eventAnswer,
  frames

execVars == <<request, activation, aggregate, claimed, creation, completion, live,
  handle, driver, actor, mail, task, at, answer, watch, woken, stop, host, crashes>>
identityVars == <<disk, saved, lease, reserved, pc, file, mine, identity, announced,
  signing, abandoned, messy, losses, faults>>
daemonVars == <<state, build, serve, store, runtime, service, roster, ready, detached,
  daemonDisk, queue, closed, open, permit, servers, cleaning, stopper>>
readVars == <<req, act, exec, turns, readDriver, deaths, call, readAnswer, known,
  applied>>
offerVars == <<registered, requests, watchers, tasks, entries, observed, evicted,
  published, now, offerFaults>>
recordVars == <<db, recordActor, recordNow, told, recordFaults, recordCrashes>>
eventVars == <<eventRequest, bound, eventActivation, status, eventPublished, end, unconfirmed, trace,
  staged, outgoing, callout, opened, boots, wakes, eventLive, eventDriver, chatter,
  eventActor, sessionStarted, terminalEmitted, eventAnnounced, messages, supervisor,
  eventAnswer, frames>>

----------------------------------------------------------------------------
(* The parts. *)

Execs == INSTANCE HostExecutions WITH
  Creates <- {"r1"}, Differing <- {}, Withdraws <- {}, Terminates <- {}, Awaits <- {},
  Nexts <- {}, Recovered <- "recovered"

\* exec.new repeated, across a restart.
Retries == INSTANCE HostExecutions WITH
  Creates <- {"r1", "r2"}, Differing <- {}, Cancels <- {}, Withdraws <- {},
  Terminates <- {}, Awaits <- {}, Nexts <- {}, MaxCrashes <- 1, ProgramsBreak <- FALSE,
  Recovered <- "recovered"

\* Callers that withdraw and wait.
Waiters == INSTANCE HostExecutions WITH
  Creates <- {"r1"}, Differing <- {}, Cancels <- {}, Withdraws <- {"w1"},
  Terminates <- {}, Awaits <- {"a1"}, Nexts <- {}, MaxCrashes <- 0,
  ProgramsBreak <- FALSE, Recovered <- "recovered"

\* An execution that ends under a caller of exec.next.
Stopping == INSTANCE HostExecutions WITH
  Creates <- {"r1"}, Differing <- {}, Cancels <- {}, Withdraws <- {},
  Awaits <- {}, Nexts <- {"n1"}, MaxCrashes <- 0,
  ProgramsBreak <- TRUE, Recovered <- "recovered"

Power == INSTANCE HostIdentity WITH
  Procs <- {"p1", "p2"}, Secrets <- {"s1", "s2", "s3", "s4"}, Torn <- "torn",
  Blank <- "blank", MaxPowerLosses <- 3, MaxFaults <- 0

Faults == INSTANCE HostIdentity WITH
  Procs <- {"p1", "p2"}, Secrets <- {"s1", "s2", "s3", "s4"}, Torn <- "torn",
  Blank <- "blank", MaxPowerLosses <- 0, MaxFaults <- 2

\* A failed call or a crash, and a power loss.
Both == INSTANCE HostIdentity WITH
  Procs <- {"p1", "p2"}, Secrets <- {"s1", "s2", "s3", "s4"}, Torn <- "torn",
  Blank <- "blank", MaxPowerLosses <- 1, MaxFaults <- 1

Daemon == INSTANCE DaemonLifecycle WITH
  Initial <- {"h1"}, Stops <- {"k1"}, Orphan <- "orphan", MaxHosts <- 2, QueueCap <- 1,
  disk <- daemonDisk

Reads == INSTANCE ExecReads WITH
  Clients <- {"c1"}, Ops <- {"status", "list", "inspect", "view", "view_at", "trace"},
  MaxSteps <- 1, MaxEvents <- 2, MaxDeaths <- 0, driver <- readDriver,
  answer <- readAnswer

\* Two clients answer what they were listed.
Submits == INSTANCE ExecReads WITH
  Clients <- {"c1", "c2"}, Ops <- {"list", "submit"}, MaxSteps <- 0, MaxEvents <- 2,
  MaxDeaths <- 1, driver <- readDriver, answer <- readAnswer

\* A program is removed and imported again while its facts arrive.
Races == INSTANCE OfferDiscovery WITH
  Programs <- {"p"}, Bundled <- {"p"}, MaxRev <- 0, MaxOpenOffers <- 1,
  Clients <- {"c"}, Spares <- 1, MaxSeq <- 1, MaxTime <- 0, Ends <- {0}, Untils <- {1},
  PendingFacts <- 1, MaxTasks <- 2, MaxFaults <- 0, faults <- offerFaults

\* More negotiations than the book holds.
Book == INSTANCE OfferDiscovery WITH
  Programs <- {"p"}, Bundled <- {"p"}, MaxRev <- 0, MaxOpenOffers <- 1, Clients <- {},
  Spares <- 2, MaxSeq <- 1, MaxTime <- 1, Ends <- {1}, Untils <- {1}, PendingFacts <- 1,
  MaxTasks <- 1, MaxFaults <- 0, faults <- offerFaults

\* An offer is renewed on other terms, and its tickets lapse.
Terms == INSTANCE OfferDiscovery WITH
  Programs <- {"p"}, Bundled <- {"p"}, MaxRev <- 0, MaxOpenOffers <- 1, Clients <- {},
  Spares <- 1, MaxSeq <- 2, MaxTime <- 1, Ends <- {1}, Untils <- {0, 1},
  PendingFacts <- 2, MaxTasks <- 1, MaxFaults <- 1, faults <- offerFaults

Record == INSTANCE HostRecord WITH
  Questions <- {"q"}, Delays <- {1}, MaxActiveTimers <- 1, MaxTimerBatch <- 1,
  MaxEvents <- 3, MaxFaults <- 1, MaxCrashes <- 1, actor <- recordActor,
  now <- recordNow, faults <- recordFaults, crashes <- recordCrashes

Answers == INSTANCE HostRecord WITH
  Questions <- {"q", "r"}, Delays <- {}, MaxActiveTimers <- 1, MaxTimerBatch <- 1,
  MaxEvents <- 4, MaxFaults <- 0, MaxCrashes <- 1, actor <- recordActor,
  now <- recordNow, faults <- recordFaults, crashes <- recordCrashes

\* Room for every timer.
Timers == INSTANCE HostRecord WITH
  Questions <- {}, Delays <- {1}, MaxActiveTimers <- 3, MaxTimerBatch <- 1,
  MaxEvents <- 2, MaxFaults <- 1, MaxCrashes <- 1, actor <- recordActor,
  now <- recordNow, faults <- recordFaults, crashes <- recordCrashes

\* Room for one timer.
Crowded == INSTANCE HostRecord WITH
  Questions <- {}, Delays <- {1}, MaxActiveTimers <- 1, MaxTimerBatch <- 1,
  MaxEvents <- 2, MaxFaults <- 1, MaxCrashes <- 1, actor <- recordActor,
  now <- recordNow, faults <- recordFaults, crashes <- recordCrashes

Events == INSTANCE HostEvents WITH
  OpenJoin <- TRUE, MaxSteps <- MaxAgreed, MaxCallouts <- MaxAgreed - 1, MaxWakes <- 1,
  Peers <- 1,
  LoadMayFail <- FALSE, request <- eventRequest, activation <- eventActivation,
  published <- eventPublished, live <- eventLive, driver <- eventDriver,
  actor <- eventActor, announced <- eventAnnounced, answer <- eventAnswer

\* The Host restarts and resumes the execution.
Resumes == INSTANCE HostEvents WITH
  OpenJoin <- TRUE, MaxSteps <- 1, MaxCallouts <- 1, MaxBoots <- 2, MaxWakes <- 1,
  Peers <- 1,
  LoadMayFail <- FALSE, request <- eventRequest, activation <- eventActivation,
  published <- eventPublished, live <- eventLive, driver <- eventDriver,
  actor <- eventActor, announced <- eventAnnounced, answer <- eventAnswer

\* The program may no longer load when the execution is resumed.
Loads == INSTANCE HostEvents WITH
  OpenJoin <- TRUE, MaxSteps <- 1, MaxCallouts <- 0, MaxBoots <- 2, MaxWakes <- 1,
  Peers <- 2,
  LoadMayFail <- TRUE, request <- eventRequest, activation <- eventActivation,
  published <- eventPublished, live <- eventLive, driver <- eventDriver,
  actor <- eventActor, announced <- eventAnnounced, answer <- eventAnswer

ASSUME HostAssumption ==
  /\ Execs!CallersAssumption /\ Retries!CallersAssumption
  /\ Waiters!CallersAssumption /\ Stopping!CallersAssumption
  /\ Power!BoundsAreNatural /\ Faults!BoundsAreNatural /\ Both!BoundsAreNatural
  /\ Daemon!CapacityHoldsInitial
  /\ Reads!ReadsAssumption /\ Submits!ReadsAssumption
  /\ Races!DiscoveryAssumption /\ Book!DiscoveryAssumption /\ Terms!DiscoveryAssumption
  /\ Record!RecordAssumption /\ Answers!RecordAssumption
  /\ Timers!RecordAssumption /\ Crowded!RecordAssumption
  /\ Events!BoundsAssumption /\ Resumes!BoundsAssumption
  /\ Loads!BoundsAssumption

\* The Host's parts differ in their constants only, and so do initial states.
HostInit ==
  /\ part \in Parts
  /\ CASE part = "retries" -> Retries!Init [] part = "waiters" -> Waiters!Init
       [] part = "ends" -> Stopping!Init [] OTHER -> Execs!Init
  /\ Power!Init
  /\ Daemon!Init /\ (part = "daemon" \/ daemonDisk = {})
  /\ IF part = "submits" THEN Submits!Init ELSE Reads!Init
  /\ CASE part = "races" -> Races!Init [] part = "book" -> Book!Init [] OTHER -> Terms!Init
  /\ Record!Init /\ Events!Init

ExecsOnly == UNCHANGED
  <<part, identityVars, daemonVars, readVars, offerVars, recordVars, eventVars>>
IdentityOnly == UNCHANGED
  <<part, execVars, daemonVars, readVars, offerVars, recordVars, eventVars>>
DaemonOnly == UNCHANGED
  <<part, execVars, identityVars, readVars, offerVars, recordVars, eventVars>>
ReadsOnly == UNCHANGED
  <<part, execVars, identityVars, daemonVars, offerVars, recordVars, eventVars>>
OffersOnly == UNCHANGED
  <<part, execVars, identityVars, daemonVars, readVars, recordVars, eventVars>>
RecordOnly == UNCHANGED
  <<part, execVars, identityVars, daemonVars, readVars, offerVars, eventVars>>
EventsOnly == UNCHANGED
  <<part, execVars, identityVars, daemonVars, readVars, offerVars, recordVars>>

HostNext ==
  \/ /\ \/ part = "execs" /\ Execs!Next
        \/ part = "retries" /\ Retries!Next
        \/ part = "waiters" /\ Waiters!Next
        \/ part = "ends" /\ Stopping!Next
     /\ ExecsOnly
  \/ /\ \/ part = "power" /\ Power!Next
        \/ part = "faults" /\ Faults!Next
        \/ part = "both" /\ Both!Next
     /\ IdentityOnly
  \/ part = "daemon" /\ Daemon!Next /\ DaemonOnly
  \/ /\ \/ part = "reads" /\ Reads!Next
        \/ part = "submits" /\ Submits!Next
     /\ ReadsOnly
  \/ /\ \/ part = "races" /\ Races!Next
        \/ part = "book" /\ Book!Next
        \/ part = "terms" /\ Terms!Next
     /\ OffersOnly
  \/ /\ \/ part = "record" /\ Record!Next
        \/ part = "answers" /\ Answers!Next
        \/ part = "timers" /\ Timers!Next
        \/ part = "crowded" /\ Crowded!Next
     /\ RecordOnly
  \/ /\ \/ part = "events" /\ Events!Next
        \/ part = "resumes" /\ Resumes!Next
        \/ part = "loads" /\ Loads!Next
     /\ EventsOnly

HostSpec ==
  HostInit /\ [][HostNext]_<<part, execVars, identityVars, daemonVars, readVars, offerVars,
                            recordVars, eventVars>>

----------------------------------------------------------------------------
(* Fairness of the parts of the liveness run, as each module justifies it. *)
(* Only one part is at work, so a conjunct may stand for a step of two.    *)

ExecFairness ==
  /\ WF_execVars(\/ part = "execs" /\ Execs!CreateStep("r1")
                 \/ part = "ends" /\ Stopping!CreateStep("r1"))
  /\ WF_execVars(\/ part = "execs" /\ Execs!StopStep("r1")
                 \/ part = "ends" /\ Stopping!StopStep("r1"))
  /\ WF_execVars(\/ part = "execs" /\ Execs!DriverHeeds("r1")
                 \/ part = "ends" /\ Stopping!DriverHeeds("r1"))
  /\ WF_execVars(\/ part = "execs" /\ Execs!DriverStarts("r1")
                 \/ part = "ends" /\ Stopping!DriverStarts("r1"))
  /\ WF_execVars(\/ part = "execs" /\ Execs!DriverEnds("r1")
                 \/ part = "ends" /\ Stopping!DriverEnds("r1"))
  /\ WF_execVars(\/ part = "execs" /\ Execs!ActorStarts
                 \/ part = "ends" /\ Stopping!ActorStarts)
  /\ WF_execVars(\/ part = "execs" /\ Execs!Supervise
                 \/ part = "ends" /\ Stopping!Supervise)
  /\ WF_execVars(\/ part = "execs" /\ Execs!CancelStep("k1")
                 \/ part = "ends" /\ Stopping!WaitStep("n1"))
  /\ WF_execVars(part = "execs" /\ Execs!StopStep("k1"))

DaemonFairness ==
  /\ WF_daemonVars(part = "daemon" /\ Daemon!Build)
  /\ WF_daemonVars(part = "daemon" /\ Daemon!Serve)
  /\ WF_daemonVars(part = "daemon" /\ Daemon!Cleanup)
  /\ WF_daemonVars(part = "daemon" /\ Daemon!Take)
  /\ WF_daemonVars(part = "daemon" /\ Daemon!Send("o1"))
  /\ WF_daemonVars(part = "daemon" /\ Daemon!OpenStep("o1"))
  /\ WF_daemonVars(part = "daemon" /\ Daemon!FinishOpen("o1"))
  /\ \A k \in {"k1", "orphan"} : WF_daemonVars(part = "daemon" /\ Daemon!StopReturns(k))

RecordFairness ==
  /\ WF_recordVars(part \in {"timers", "crowded"} /\ Timers!Activate)
  /\ WF_recordVars(\E delays \in Timers!DelaySeqs :
                     \/ part = "timers" /\ Timers!EnsureSessionStarted(None, delays, FALSE)
                     \/ part = "crowded" /\ Crowded!EnsureSessionStarted(None, delays, FALSE))
  /\ WF_recordVars(\E t \in Timers!DueTimers, delays \in Timers!DelaySeqs :
                     \/ part = "timers" /\ Timers!FireTimer(t, None, delays)
                     \/ part = "crowded" /\ Crowded!FireTimer(t, None, delays))
  /\ \A s \in {"own", "peers"} :
       WF_recordVars(\/ part = "timers" /\ Timers!AddStepSignature(s)
                     \/ part = "crowded" /\ Crowded!AddStepSignature(s))
  /\ WF_recordVars(part \in {"timers", "crowded"} /\ Timers!FinalizeReceipt)
  /\ WF_recordVars(part \in {"timers", "crowded"} /\ Timers!FailTerminal)
  /\ WF_recordVars(part \in {"timers", "crowded"} /\ Timers!Restart)
  /\ WF_recordVars(part \in {"timers", "crowded"} /\ Timers!Tick)

EventFairness ==
  /\ WF_eventVars(part = "events" /\ Events!ActorStep)
  /\ WF_eventVars(part = "events" /\ Events!SupervisorStep)

FairHostSpec ==
  HostSpec /\ ExecFairness /\ DaemonFairness /\ RecordFairness /\ EventFairness

----------------------------------------------------------------------------
(* Properties. The modules state the parts of each and explain them.       *)

\* No creation task stops an execution whose creation was acknowledged, unless
\* an exec.cancel_creation asked for it or the task is that of a repeated
\* exec.new whose own caller left unanswered; and at most one negotiation or
\* actor works for an execution, however often exec.new is repeated.
AcknowledgedCreationSurvives ==
  /\ part = "execs" =>
       Execs!TypeOK /\ Execs!AcknowledgedCreationSurvives /\ Execs!OneWorker
  /\ part = "retries" => Retries!AcknowledgedCreationSurvives /\ Retries!OneWorker
  /\ part = "waiters" => Waiters!AcknowledgedCreationSurvives
  /\ part = "ends" => Stopping!AcknowledgedCreationSurvives

\* A Host is opened and closed as a whole: a bound database has its seed,
\* whichever crashes, failed calls and power losses meet, unless the seed's own
\* publication had failed (the run seed_lost is about that case); a secret that
\* can be read is whole after a power loss, a start that fails can be repeated;
\* what runs on a Host has its store in every rollback, the
\* roster stays in its capacity, Hosts are announced together, and a stopped
\* daemon owns nothing.
HostsOpenAndCloseWhole ==
  /\ part = "both" => Both!TypeOK
  /\ part \in {"power", "faults", "both"} =>
       /\ Both!SecretsAreWhole
       /\ Both!BoundDatabaseHasItsSeed
       /\ Both!FailedStartsCanBeRepeated
  /\ part = "daemon" =>
       /\ Daemon!TypeOK
       /\ Daemon!StoreOutlivesItsUsers
       /\ Daemon!NothingIsLeftBehind
       /\ Daemon!CapacityIsRespected
       /\ Daemon!ReadyTogether

\* A caller does not see two moments of an execution as one: a completed status
\* has its receipt, the turn of a status is of the step it is shown with, that
\* of a list entry of its step or of a later one, a page covers its status, no
\* read between two writes is taken for corruption, the guest takes one answer
\* for a callout; and offers that are listed are watched and known to whoever
\* follows the events.
ClientsSeeOneHistory ==
  /\ part = "reads" =>
       /\ Reads!TypeOK
       /\ Reads!CompletedHasReceipt
       /\ Reads!TurnFitsItsStep
       /\ Reads!InspectCoversItsStatus
       /\ Reads!NoTornFailure
  /\ part = "submits" => Submits!NoTornFailure /\ Submits!OneAnswerPerCallout
  /\ part = "races" => Races!TypeOK /\ Races!EntriesWatched /\ Races!ObserversAgree
  /\ part = "book" => Book!ObserversAgree

\* The rows always pass the checks of reopening the store, every firing is of
\* a timer an accepted event set, in time and once, and an answer reaches the
\* program only while it asks that very question.
RecordIsSound ==
  /\ part = "record" =>
       /\ Record!TypeOK
       /\ Record!ReopenValidates
       /\ Record!TimersFireOnce
       /\ Record!AnswersAreCurrent
  /\ part = "answers" => Answers!AnswersAreCurrent


\* A cancelled creation is acknowledged only when nothing of the execution runs
\* any more, for an exec.new that is not repeated (the run cancel_repeated is
\* about the repeated one).
CancelledMeansStopped == [][part = "execs" => Execs!CancelStops]_execVars

\* A submit that succeeds reports the client's own answer.
SubmitReportsItsAnswer ==
  [][part = "submits" => \A c \in {"c1", "c2"} : Submits!ReportsItsAnswer(c)]_readVars

\* What a Host has told, it never takes back: a lifecycle, the cancellation of
\* an exec.new that was sent once, an identity, a signing key whose publication
\* had not failed, an opened Host, a reply, the terms of an offer that stays
\* listed, and nothing reaches a program after its conclusion.
HostNeverTakesBack ==
  /\ CancelledMeansStopped
  /\ Execs!StatusNeverGoesBack
  /\ Power!IdentityIsStable
  /\ Power!SigningKeyIsStable
  /\ Daemon!OpenedHostsAreServed
  /\ Reads!RepliesMoveForward
  /\ SubmitReportsItsAnswer
  /\ Terms!TermsNeverGoBack
  /\ Terms!ListedWhileTicketed
  /\ Record!NothingAfterConclusion

----------------------------------------------------------------------------
(* Liveness. *)

\* A creation and its cancellation are answered, whatever they wait for.
CallersAreAnswered ==
  \A k \in {"r1"} \cup Cancels :
    (part = "execs" /\ at[k] # "Idle") ~> (part = "execs" /\ at[k] \in {"Done", "Gone"})

\* A caller of exec.next hears that the execution was stopped.
NextHearsTheEnd ==
  (part = "ends" /\ at["n1"] \in {"Notified", "Read", "Asleep"} /\ aggregate = "Stopped")
    ~> (part = "ends" /\ at["n1"] \in {"Done", "Gone"})

\* Nobody waits on a Host for ever: creations are answered and leave the list
\* of those in progress, exec.next hears a stop, an open that entered the queue
\* and a stop of the daemon return, a timer that was set fires, the session
\* ends, or the Host has signed a step whose timers do not fit (then all timers
\* wait), and an end is reported unless the process dies first.
NobodyWaitsForEver ==
  /\ CallersAreAnswered
  /\ NextHearsTheEnd
  /\ part = "execs" => Execs!CreationIsReleased
  /\ part = "daemon" => Daemon!OpensAreAnswered
  /\ part = "daemon" => Daemon!StopsReturn
  /\ part = "timers" => Timers!SetTimersFire
  /\ part = "crowded" => Crowded!SetTimersFire
  /\ part = "events" => Events!TerminalIsReported
=============================================================================
