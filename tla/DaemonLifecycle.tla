-------------------------- MODULE DaemonLifecycle --------------------------
(* The daemon as one owner of Hosts: construction, serve with its open queue, *)
(* provisioning and rollback of Hosts opened later, and the shutdown that     *)
(* races all of it.  A Host is what it holds: an open store, a runtime on the *)
(* shared network, a service, a place in the roster.                          *)
(*                                                                            *)
(* Task panics are left out.  Every step that can fail may fail.              *)
EXTENDS Naturals, FiniteSets, Sequences

CONSTANTS
    Initial,    \* Hosts the daemon is started with
    Others,     \* Host names opened later
    Opens,      \* callers of open_host and open_existing
    Stops,      \* callers of Daemon::stop
    Orphan,     \* the construction task, which stops a daemon nobody accepted
    None,
    MaxHosts,   \* MAX_LOCAL_HOSTS
    QueueCap    \* OPEN_QUEUE_CAPACITY

CapacityHoldsInitial ==
    MaxHosts \in Nat /\ QueueCap \in Nat \ {0} /\ Cardinality(Initial) <= MaxHosts

Hosts == Initial \cup Others
Stoppers == Stops \cup {Orphan}

VARIABLES
    state,      \* None, New, Starting, Running, Finishing, Finished
    build,      \* the construction task
    serve,      \* the serve future
    store, runtime,  \* Hosts whose store is open; whose runtime runs on the network
    service,    \* per Host: None, Composed, Prepared, Stopped
    roster, ready,   \* Hosts in the directory; Hosts announced as ready
    detached,   \* the ensemble refuses Hosts
    disk,       \* Host namespaces that exist
    queue, closed,   \* the open queue
    open,       \* per caller: its place, its Host, whether it may create it
    permit,     \* stop_requested holds a notification
    servers,    \* the MCP and Unix tasks accept
    cleaning,   \* the cleanup in progress, and the Hosts it took
    stopper     \* per stop call: Idle, Cleaning, Waiting, Done

life == <<state, build, serve>>
held == <<store, runtime, service, roster, ready, detached, disk>>
asks == <<queue, closed, open>>
ends == <<permit, servers, cleaning, stopper>>
vars == <<life, held, asks, ends>>

Stages == {"Begin", "Provision", "Attach", "Compose", "Prepare", "Prepared", "Existing",
           "UndoService", "UndoRuntime", "UndoStore", "Failed"}

TypeOK ==
    /\ state \in {"None", "New", "Starting", "Running", "Finishing", "Finished"}
    /\ build \in {"Opening", "Composing", "Replying", "Accepted", "Failed"}
    /\ serve \in {"Idle", "Bind", "Preparing", "Bound", "Loop", "Shutdown", "Drain", "Join",
                  "Cleanup", "Done"}
    /\ store \subseteq Hosts /\ runtime \subseteq Hosts /\ roster \subseteq Hosts
    /\ ready \subseteq Hosts /\ disk \subseteq Hosts /\ detached \in BOOLEAN
    /\ service \in [Hosts -> {"None", "Composed", "Prepared", "Stopped"}]
    /\ queue \in Seq(Opens) /\ Len(queue) <= QueueCap /\ closed \in BOOLEAN
    /\ open \in [Opens -> [at : Stages \cup {"Idle", "Sending", "Queued", "Ok", "Err"},
                           id : Hosts \cup {None}, creates : BOOLEAN]]
    /\ permit \in BOOLEAN /\ servers \in BOOLEAN
    /\ cleaning \in [at : {"None", "Services", "Runtimes", "Stores"}, took : SUBSET Hosts]
    /\ stopper \in [Stoppers -> {"Idle", "Cleaning", "Waiting", "Done"}]

Init ==
    /\ state = "None" /\ build = "Opening" /\ serve = "Idle"
    /\ store = {} /\ runtime = {} /\ service = [h \in Hosts |-> "None"]
    /\ roster = {} /\ ready = {} /\ detached = FALSE
    /\ disk \in SUBSET Others
    /\ queue = <<>> /\ closed = FALSE
    /\ open = [o \in Opens |-> [at |-> "Idle", id |-> None, creates |-> FALSE]]
    /\ permit = FALSE /\ servers = FALSE
    /\ cleaning = [at |-> "None", took |-> {}]
    /\ stopper = [k \in Stoppers |-> "Idle"]

-----------------------------------------------------------------------------
(* cleanup                                                                  *)

\* cleanup takes the roster; a failed construction hands over what it had composed and opened.
StartCleanup(hosts) ==
    /\ cleaning' = [at |-> "Services", took |-> hosts] /\ roster' = {}

CleanupServices ==
    /\ cleaning.at = "Services"
    /\ cleaning' = [cleaning EXCEPT !.at = "Runtimes"]
    /\ service' = [h \in Hosts |-> IF h \in cleaning.took /\ service[h] # "None"
                                     THEN "Stopped" ELSE service[h]]
    /\ UNCHANGED <<life, store, runtime, roster, ready, detached, disk, asks, permit, servers,
                   stopper>>

\* Ensemble::stop: every runtime of the network, attached by whomever.
CleanupRuntimes ==
    /\ cleaning.at = "Runtimes"
    /\ cleaning' = [cleaning EXCEPT !.at = "Stores"]
    /\ detached' = TRUE /\ runtime' = {}
    /\ UNCHANGED <<life, store, service, roster, ready, disk, asks, permit, servers, stopper>>

CleanupStores ==
    /\ cleaning.at = "Stores"
    /\ cleaning' = [at |-> "None", took |-> {}]
    /\ store' = store \ cleaning.took
    /\ state' = "Finished"
    /\ serve' = IF serve = "Idle" THEN "Idle" ELSE "Done"
    /\ stopper' = [k \in Stoppers |-> IF stopper[k] = "Cleaning" THEN "Done" ELSE stopper[k]]
    /\ UNCHANGED <<build, runtime, service, roster, ready, detached, disk, asks, permit, servers>>

-----------------------------------------------------------------------------
(* construct                                                                *)

BuildOpens(h) ==
    /\ build = "Opening" /\ h \in Initial \ store
    /\ store' = store \cup {h} /\ disk' = disk \cup {h}
    /\ UNCHANGED <<life, runtime, service, roster, ready, detached, asks, ends>>

\* A Host cannot be opened, bootstrapped or attached: the stores opened so far are closed.
BuildFails ==
    /\ build = "Opening"
    /\ build' = "Failed" /\ store' = {} /\ state' = "Finished"
    /\ UNCHANGED <<serve, runtime, service, roster, ready, detached, disk, asks, ends>>

BuildAttaches ==
    /\ build = "Opening" /\ Initial \subseteq store
    /\ build' = "Composing" /\ runtime' = Initial
    /\ UNCHANGED <<state, serve, store, service, roster, ready, detached, disk, asks, ends>>

BuildComposes(h) ==
    /\ build = "Composing" /\ h \in Initial \ roster
    /\ service' = [service EXCEPT ![h] = "Composed"] /\ roster' = roster \cup {h}
    /\ UNCHANGED <<life, store, runtime, ready, detached, disk, asks, ends>>

\* shutdown_startup_owners.
BuildComposeFails ==
    /\ build = "Composing" /\ cleaning.at = "None"
    /\ build' = "Failed" /\ StartCleanup(store)
    /\ UNCHANGED <<state, serve, store, runtime, service, ready, detached, disk, asks, permit,
                   servers, stopper>>

BuildReplies ==
    /\ build = "Composing" /\ roster = Initial
    /\ build' = "Replying" /\ state' = "New"
    /\ UNCHANGED <<serve, held, asks, ends>>

StartAccepted ==
    /\ build = "Replying" /\ build' = "Accepted"
    /\ UNCHANGED <<state, serve, held, asks, ends>>

-----------------------------------------------------------------------------
(* serve                                                                    *)

ServeStarts ==
    /\ build = "Accepted" /\ state = "New"
    /\ state' = "Starting" /\ serve' = "Bind"
    /\ UNCHANGED <<build, held, asks, ends>>

ServeBinds ==
    /\ serve = "Bind" /\ cleaning.at = "None"
    /\ \/ serve' = "Preparing" /\ UNCHANGED <<roster, cleaning>>
       \/ StartCleanup(roster) /\ UNCHANGED serve
    /\ UNCHANGED <<state, build, store, runtime, service, ready, detached, disk, asks, permit,
                   servers, stopper>>

\* The Hosts recover one after the other; a failure, or a stop, ends the startup.
ServePrepares(h) ==
    /\ serve = "Preparing" /\ state = "Starting"
    /\ h \in roster /\ service[h] = "Composed"
    /\ \/ service' = [service EXCEPT ![h] = "Prepared"] /\ UNCHANGED serve
       \/ serve' = "Shutdown" /\ UNCHANGED service
    /\ UNCHANGED <<state, build, store, runtime, roster, ready, detached, disk, asks, ends>>

AllPrepared == \A h \in roster : service[h] = "Prepared"

ServePrepared ==
    /\ serve = "Preparing"
    /\ \/ state = "Starting" /\ AllPrepared /\ serve' \in {"Bound", "Shutdown"}
       \/ state # "Starting" /\ serve' = "Shutdown"
    /\ UNCHANGED <<state, build, held, asks, ends>>

\* The daemon-wide commit, under the directory lock.
ServePublishes ==
    /\ serve = "Bound"
    /\ IF state = "Starting"
         THEN /\ state' = "Running" /\ ready' = roster /\ servers' = TRUE /\ serve' = "Loop"
         ELSE /\ serve' = "Shutdown" /\ UNCHANGED <<state, ready, servers>>
    /\ UNCHANGED <<build, store, runtime, service, roster, detached, disk, asks, permit, cleaning,
                   stopper>>

\* The loop waits for a stop request; the state it also looks at changes only with one.
ServeLeaves ==
    /\ serve = "Loop" /\ serve' = "Shutdown"
    /\ permit /\ permit' = FALSE
    /\ UNCHANGED <<state, build, held, asks, servers, cleaning, stopper>>

ServerTaskEnds ==
    /\ serve = "Loop" /\ serve' = "Shutdown"
    /\ UNCHANGED <<state, build, held, asks, ends>>

BeginShutdown == state' = IF state \in {"Starting", "Running"} THEN "Finishing" ELSE state

ServeShutsDown ==
    /\ serve = "Shutdown" /\ serve' = "Drain"
    /\ BeginShutdown
    /\ UNCHANGED <<build, held, asks, ends>>

\* The queue is closed and what it holds is refused.
ServeDrains ==
    /\ serve = "Drain" /\ serve' = "Join"
    /\ closed' = TRUE /\ queue' = <<>>
    /\ open' = [o \in Opens |-> IF open[o].at = "Queued" THEN [open[o] EXCEPT !.at = "Err"]
                                ELSE open[o]]
    /\ UNCHANGED <<state, build, held, ends>>

InFlight == {o \in Opens : open[o].at \in Stages}

\* Only when no open is in flight do the servers end.
ServeJoins ==
    /\ serve = "Join" /\ InFlight = {}
    /\ serve' = "Cleanup" /\ servers' = FALSE
    /\ UNCHANGED <<state, build, held, asks, permit, cleaning, stopper>>

ServeCleansUp ==
    /\ serve = "Cleanup" /\ cleaning.at = "None"
    /\ StartCleanup(roster)
    /\ UNCHANGED <<life, store, runtime, service, ready, detached, disk, asks, permit, servers,
                   stopper>>

-----------------------------------------------------------------------------
(* open_host and open_existing                                              *)

Move(o, place) == open' = [open EXCEPT ![o].at = place]

Ask(o, h, creates) ==
    /\ open[o].at = "Idle" /\ servers
    /\ open' = [open EXCEPT ![o] = [at |-> IF state = "Running" THEN "Sending" ELSE "Err",
                                    id |-> h, creates |-> creates]]
    /\ UNCHANGED <<life, held, queue, closed, ends>>

Send(o) ==
    /\ open[o].at = "Sending"
    /\ \/ closed /\ Move(o, "Err") /\ UNCHANGED queue
       \/ ~closed /\ Len(queue) < QueueCap /\ Move(o, "Queued") /\ queue' = Append(queue, o)
    /\ UNCHANGED <<life, held, closed, ends>>

\* One provisioning job at a time.
Take ==
    /\ serve = "Loop" /\ queue # <<>> /\ InFlight = {}
    /\ Move(Head(queue), "Begin") /\ queue' = Tail(queue)
    /\ UNCHANGED <<life, held, closed, ends>>

\* prepare_open: an open Host answers (its metadata is written first, which may fail), the
\* capacity refuses, and a reopen needs the namespace.
PrepareOpen(o) ==
    LET h == open[o].id IN
    /\ open[o].at = "Begin"
    /\ \/ Move(o, "Failed")
       \/ state = "Running" /\ h \in roster /\ Move(o, "Existing")
       \/ /\ state = "Running" /\ h \notin roster
          /\ Cardinality(roster) < MaxHosts /\ (open[o].creates \/ h \in disk)
          /\ Move(o, "Provision")
    /\ UNCHANGED <<life, held, queue, closed, ends>>

\* HostConfig::open, open_existing: the store is reserved by one owner.
Provision(o) ==
    LET h == open[o].id IN
    /\ open[o].at = "Provision"
    /\ \/ h \notin store /\ store' = store \cup {h} /\ disk' = disk \cup {h} /\ Move(o, "Attach")
       \/ Move(o, "Failed") /\ UNCHANGED <<store, disk>>
    /\ UNCHANGED <<life, runtime, service, roster, ready, detached, queue, closed, ends>>

\* set_user_agent, bootstrap_programs, Ensemble::add_host.
Attach(o) ==
    LET h == open[o].id IN
    /\ open[o].at = "Attach"
    /\ \/ ~detached /\ h \notin runtime /\ runtime' = runtime \cup {h} /\ Move(o, "Compose")
       \/ Move(o, "UndoStore") /\ UNCHANGED runtime
    /\ UNCHANGED <<life, store, service, roster, ready, detached, disk, queue, closed, ends>>

Compose(o) ==
    /\ open[o].at = "Compose"
    /\ \/ service' = [service EXCEPT ![open[o].id] = "Composed"] /\ Move(o, "Prepare")
       \/ Move(o, "UndoRuntime") /\ UNCHANGED service
    /\ UNCHANGED <<life, store, runtime, roster, ready, detached, disk, queue, closed, ends>>

Prepare(o) ==
    /\ open[o].at = "Prepare"
    /\ \/ service' = [service EXCEPT ![open[o].id] = "Prepared"] /\ Move(o, "Prepared")
       \/ Move(o, "UndoService") /\ UNCHANGED service
    /\ UNCHANGED <<life, store, runtime, roster, ready, detached, disk, queue, closed, ends>>

\* finish_open commits under the directory lock while the daemon runs, or rolls back.
Finishable(o) == serve \in {"Loop", "Join"} /\ open[o].at \in {"Prepared", "Existing", "Failed"}

FinishOpen(o) ==
    LET h == open[o].id IN
    /\ Finishable(o)
    /\ CASE open[o].at = "Failed" -> Move(o, "Err") /\ UNCHANGED <<roster, ready>>
         [] open[o].at = "Existing" ->
              Move(o, IF state = "Running" THEN "Ok" ELSE "Err") /\ UNCHANGED <<roster, ready>>
         [] open[o].at = "Prepared" /\ state = "Running" ->
              Move(o, "Ok") /\ roster' = roster \cup {h} /\ ready' = ready \cup {h}
         [] OTHER -> Move(o, "UndoService") /\ UNCHANGED <<roster, ready>>
    /\ UNCHANGED <<life, store, runtime, service, detached, disk, queue, closed, ends>>

\* The way back: the service, then the runtime, then the store.
UndoService(o) ==
    /\ open[o].at = "UndoService"
    /\ service' = [service EXCEPT ![open[o].id] = "Stopped"] /\ Move(o, "UndoRuntime")
    /\ UNCHANGED <<life, store, runtime, roster, ready, detached, disk, queue, closed, ends>>

UndoRuntime(o) ==
    /\ open[o].at = "UndoRuntime"
    /\ runtime' = runtime \ {open[o].id} /\ Move(o, "UndoStore")
    /\ UNCHANGED <<life, store, service, roster, ready, detached, disk, queue, closed, ends>>

UndoStore(o) ==
    /\ open[o].at = "UndoStore"
    /\ store' = store \ {open[o].id} /\ Move(o, "Failed")
    /\ UNCHANGED <<life, runtime, service, roster, ready, detached, disk, queue, closed, ends>>

-----------------------------------------------------------------------------
(* stop                                                                     *)

\* daemon.stop over the socket only wakes the supervisor.
DaemonStop ==
    /\ servers /\ ~permit /\ permit' = TRUE
    /\ UNCHANGED <<life, held, asks, servers, cleaning, stopper>>

\* Daemon::stop: a daemon nobody serves is cleaned up by its stopper.
Stop(k) ==
    /\ stopper[k] = "Idle"
    /\ IF k = Orphan THEN build = "Replying" ELSE build = "Accepted"
    /\ build' = "Accepted"
    /\ CASE state = "New" ->
              /\ state' = "Finishing" /\ StartCleanup(roster)
              /\ stopper' = [stopper EXCEPT ![k] = "Cleaning"] /\ UNCHANGED permit
         [] state \in {"Starting", "Running", "Finishing"} ->
              /\ BeginShutdown /\ permit' = TRUE
              /\ stopper' = [stopper EXCEPT ![k] = "Waiting"] /\ UNCHANGED <<cleaning, roster>>
         [] OTHER ->
              /\ stopper' = [stopper EXCEPT ![k] = "Done"]
              /\ UNCHANGED <<state, permit, cleaning, roster>>
    /\ UNCHANGED <<serve, store, runtime, service, ready, detached, disk, asks, servers>>

StopReturns(k) ==
    /\ stopper[k] = "Waiting" /\ state = "Finished"
    /\ stopper' = [stopper EXCEPT ![k] = "Done"]
    /\ UNCHANGED <<life, held, asks, permit, servers, cleaning>>

-----------------------------------------------------------------------------
Cleanup == CleanupServices \/ CleanupRuntimes \/ CleanupStores

Build ==
    \/ \E h \in Initial : BuildOpens(h) \/ BuildComposes(h)
    \/ BuildAttaches \/ BuildReplies

Serve ==
    \/ ServeBinds \/ (\E h \in Initial : ServePrepares(h)) \/ ServePrepared \/ ServePublishes
    \/ ServeLeaves \/ ServeShutsDown \/ ServeDrains \/ ServeJoins \/ ServeCleansUp

OpenStep(o) ==
    \/ PrepareOpen(o) \/ Provision(o) \/ Attach(o) \/ Compose(o) \/ Prepare(o)
    \/ UndoService(o) \/ UndoRuntime(o) \/ UndoStore(o)

Next ==
    \/ Build \/ BuildFails \/ BuildComposeFails \/ StartAccepted
    \/ ServeStarts \/ Serve \/ ServerTaskEnds \/ Cleanup \/ Take
    \/ \E o \in Opens : (\E h \in Hosts, c \in BOOLEAN : Ask(o, h, c)) \/ Send(o)
    \/ \E o \in Opens : OpenStep(o) \/ FinishOpen(o)
    \/ DaemonStop \/ \E k \in Stoppers : Stop(k) \/ StopReturns(k)

Spec == Init /\ [][Next]_vars

\* Fairness: the tasks run; callers, stops and failures are free.
Fairness ==
    /\ WF_vars(Build) /\ WF_vars(Serve) /\ WF_vars(Cleanup) /\ WF_vars(Take)
    /\ \A o \in Opens : WF_vars(Send(o)) /\ WF_vars(OpenStep(o)) /\ WF_vars(FinishOpen(o))
    /\ \A k \in Stoppers : WF_vars(StopReturns(k))

FairSpec == Spec /\ Fairness

-----------------------------------------------------------------------------
(* Properties                                                               *)

\* What runs on a Host has its store: services stop, then runtimes, and only then is the store
\* closed, in the cleanup and in every rollback ("Services stop before this releases provisional
\* store ownership": close_provisional_host, cleanup, shutdown_startup_owners).
StoreOutlivesItsUsers ==
    \A h \in Hosts : (h \in runtime \/ service[h] \in {"Composed", "Prepared"}) => h \in store

\* A stopped daemon owns nothing: no open store, no runtime, no service, also of Hosts whose
\* opening was cut off by the stop ("An effectful open must reach installation or rollback").
NothingIsLeftBehind ==
    state = "Finished" => /\ store = {} /\ runtime = {} /\ roster = {} /\ InFlight = {}
                          /\ \A h \in Hosts : service[h] \in {"None", "Stopped"}

\* A caller that is told its Host is open finds it in the roster, prepared, of a daemon that has
\* not begun to stop (finish_open and begin_shutdown share the directory lock).
OpenedHostsAreServed ==
    [][\A o \in Opens : (open[o].at # "Ok" /\ open'[o].at = "Ok")
         => open[o].id \in roster' /\ service'[open[o].id] = "Prepared" /\ state' = "Running"]_vars

\* The roster holds at most MaxHosts Hosts, however many opens are queued (prepare_open checks the
\* capacity before it provisions, and the supervisor provisions one Host at a time).
CapacityIsRespected == Cardinality(roster) <= MaxHosts

\* Hosts are announced ready only when every Host of the startup has recovered ("Publication is
\* one daemon-wide commit").
ReadyTogether == (ready # {} => Initial \subseteq ready) /\ \A h \in ready : service[h] # "Composed"

Asking(o) == open[o].at \notin {"Idle", "Ok", "Err"}
Answered(o) == open[o].at \in {"Ok", "Err"}

\* Every caller that entered the queue is answered, whatever fails and whenever the daemon stops
\* (finish_open, the drained queue, the closed channel).
OpensAreAnswered == \A o \in Opens : Asking(o) ~> Answered(o)

\* A stop returns, whichever phase of start, recovery or provisioning it meets.
StopsReturn == \A k \in Stoppers : (stopper[k] # "Idle") ~> (stopper[k] = "Done")
=============================================================================
