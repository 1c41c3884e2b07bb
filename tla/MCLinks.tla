------------------------------ MODULE MCLinks -------------------------------
(***************************************************************************)
(* The channels between processes, one of them at work in each behaviour   *)
(* (part), the others in their initial states: direct lanes between        *)
(* participants, the sync stream between daemon and client, the topics and *)
(* streams of the in-process transport, a coordinated run of the CLI and   *)
(* the executable agent it drives.                                         *)
(***************************************************************************)
EXTENDS DirectLane

VARIABLES
  part,
  \* SyncStream
  rows, syncLog, base, ring, head, boot, task, frames, client, commits, disconnects,
  \* LocalTopic
  handle, owner, registered, queue, joined, closedTopics, forced, laggedReported,
  closedReported, facts, factsSent, topicLog, endedTopics,
  \* LocalStreams
  peerOf, peers, end, streams, inbound, acceptor, open, from, to, closedStreams,
  receiver, channel, reader, on, sending, receiptOf,
  \* CoordinatedRun
  stage, at, named, found, failed, ended, attempts, signal, draining, cancel, undead,
  report, process, pending, answered, accepted, new, exec, cancelling, seats, fate,
  receipt, callout,
  \* ExecutableAgent
  child, reaped, output, input, pipe, buffer, written, sentLines, driverAt, verdict,
  answers, closed

syncVars == <<rows, syncLog, base, ring, head, boot, task, frames, client, commits,
  disconnects>>
topicVars == <<handle, owner, registered, queue, joined, closedTopics, forced,
  laggedReported, closedReported, facts, factsSent, topicLog, endedTopics>>
streamVars == <<peerOf, peers, end, streams, inbound, acceptor, open, from, to,
  closedStreams, receiver, channel, reader, on, sending, receiptOf>>
runVars == <<stage, at, named, found, failed, ended, attempts, signal, draining, cancel,
  undead, report, process, pending, answered, accepted, new, exec, cancelling, seats,
  fate, receipt, callout>>
agentVars == <<child, reaped, output, input, pipe, buffer, written, sentLines, driverAt,
  verdict, answers, closed>>

Sends(m, n) == [p \in Participants |-> IF p = "a" THEN m ELSE n]

ThreeAndNone == Sends(3, 0)
NoneAndOne == Sends(0, 1)

CONSTANTS
  Parts,                                 \* the parts that a run lets work
  ChangeRing, FrameBuffer, MaxCommits,   \* of SyncStream
  MaxFacts, MaxEvents,                   \* of LocalTopic
  Endpoints, Streams, Packets, Rejections,    \* of LocalStreams
  Driver, Strangers, MaxCallouts, MaxAttempts,   \* of CoordinatedRun
  MaxAsked, MaxLines                     \* of ExecutableAgent

Sync == INSTANCE SyncStream WITH
  Keys <- {"a", "p"}, Programs <- {"p"}, MaxBoots <- 2, MaxDisconnects <- 1,
  log <- syncLog

\* The ring of changes holds one, so a client that was away is behind it.
Behind == INSTANCE SyncStream WITH
  Keys <- {"a", "p"}, Programs <- {"p"}, MaxBoots <- 2, MaxDisconnects <- 1,
  ChangeRing <- 1, log <- syncLog

Topic == INSTANCE LocalTopic WITH
  Peers <- {"p1", "p2"}, Subs <- {"s1", "s2"}, Cap <- 2,
  closed <- closedTopics, sent <- factsSent, log <- topicLog, ended <- endedTopics

Stream == INSTANCE LocalStreams WITH
  Peers <- {"p1", "p2"}, Ends <- Endpoints, InboundCap <- 1, Cap <- 1,
  closed <- closedStreams, send <- sending, receipt <- receiptOf

Hosts == {"h1", "h2"}

\* One Host is driven by an executable and the other by its own agent.
AgentAndBrowser == [h \in Hosts |-> IF h = "h1" THEN "Executable" ELSE "External"]

Run == INSTANCE CoordinatedRun WITH
  Creator <- "h1", Stranger <- "stranger"

Agent == INSTANCE ExecutableAgent WITH
  MaxCallouts <- MaxAsked, sent <- sentLines, at <- driverAt

ASSUME LinksAssumption ==
  /\ Parts \subseteq {"direct", "sync", "behind", "topic", "stream", "opens", "run",
                   "agent"}
  /\ Sync!SyncAssumption /\ Behind!SyncAssumption
  /\ Topic!CapAssumption /\ Stream!CapAssumption
  /\ Run!BindingsAssumption /\ Agent!BoundsAssumption

allVars == <<part, vars, syncVars, topicVars, streamVars, runVars, agentVars>>

LinksInit ==
  /\ part \in Parts
  /\ Init /\ Sync!Init /\ Topic!Init /\ Stream!Init /\ Run!Init /\ Agent!Init
  \* the inputs of the parts not at work are fixed
  /\ part \in {"sync", "behind"} \/ \A k \in DOMAIN rows : rows[k] = 0
  /\ part = "topic" \/ owner["s2"] = "p1"
  /\ \A k \in Packets : on[k] = CHOOSE s \in Streams : TRUE
  \* up to renaming of peers, subscriptions and endpoints
  /\ owner["s1"] = "p1"
  /\ \A e \in Endpoints : peerOf[e] = IF e = "e2" THEN "p2" ELSE "p1"

\* Packets are sent and received over one stream, or streams only opened.
StreamScope ==
  /\ part = "opens" => UNCHANGED <<sending, reader>>
  /\ part = "stream" =>
       \A s \in Streams : open'[s] = "New" \/ \E k \in Packets : on[k] = s

DirectOnly == UNCHANGED <<part, syncVars, topicVars, streamVars, runVars, agentVars>>
SyncOnly == UNCHANGED <<part, vars, topicVars, streamVars, runVars, agentVars>>
TopicOnly == UNCHANGED <<part, vars, syncVars, streamVars, runVars, agentVars>>
StreamOnly == UNCHANGED <<part, vars, syncVars, topicVars, runVars, agentVars>>
RunOnly == UNCHANGED <<part, vars, syncVars, topicVars, streamVars, agentVars>>
AgentOnly == UNCHANGED <<part, vars, syncVars, topicVars, streamVars, runVars>>

LinksNext ==
  \/ part = "direct" /\ Next /\ DirectOnly
  \/ ((part = "sync" /\ Sync!Next) \/ (part = "behind" /\ Behind!Next)) /\ SyncOnly
  \/ part = "topic" /\ Topic!Next /\ TopicOnly
  \/ part \in {"stream", "opens"} /\ Stream!Next /\ StreamScope /\ StreamOnly
  \/ part = "run" /\ Run!Next /\ RunOnly
  \/ part = "agent" /\ Agent!Next /\ AgentOnly

LinksSpec == LinksInit /\ [][LinksNext]_allVars

\* The part at work has the fairness that its module justifies.
LinksFairness ==
  /\ \A p \in Participants : \A q \in OthersOf(p) :
       /\ WF_vars(part = "direct" /\ ProtocolSent(p, q))
       /\ WF_vars(part = "direct" /\ DeliverDirect(p, q))
       /\ WF_vars(part = "direct" /\ SettleDirect(p, q))
       /\ WF_vars(part = "direct" /\ RetryDue(p, q))
       /\ WF_vars(part = "direct" /\ Serves(p, q))
  /\ WF_syncVars(part = "sync" /\ Sync!Serve)
  /\ WF_syncVars(part = "sync" /\ Sync!Apply)
  /\ WF_syncVars(part = "sync" /\ Sync!Connect)
  /\ \A s \in {"s1", "s2"} :
       /\ WF_topicVars(part = "topic" /\ Topic!Recv(s))
       /\ WF_topicVars(part = "topic" /\ Topic!CloseTopic(s))
  /\ \A e \in Endpoints :
       /\ WF_streamVars(part \in {"stream", "opens"} /\ Stream!CloseStep(e))
       /\ WF_streamVars(part \in {"stream", "opens"} /\ Stream!AcceptStep(e))
  /\ \A s \in Streams :
       /\ WF_streamVars(part \in {"stream", "opens"} /\ Stream!OpenStep(s))
       /\ WF_streamVars(part = "stream" /\ Stream!RecvStep(s))
  /\ \A k \in Packets :
       /\ WF_streamVars(part = "stream" /\ Stream!SendStep(k))
       /\ WF_streamVars(part = "stream" /\ \E d \in Stream!Decisions : Stream!Decide(k, d))
  /\ WF_agentVars(part = "agent" /\ Agent!DriverStep)
  /\ WF_runVars(part = "run" /\ Run!RunStep)
  /\ \A h \in Hosts :
       /\ WF_runVars(part = "run" /\ Run!JobStep(h) /\ ~Run!AwaitsExit(h))
       /\ WF_runVars(part = "run" /\ Run!DriveCancelled(h))

FairLinksSpec == LinksSpec /\ LinksFairness

----------------------------------------------------------------------------
(* Properties; those of the direct lanes keep their names from DirectLane. *)

\* A client of the sync stream whose cursor is of the current lifetime misses
\* no row up to it, whatever was evicted from the change ring, cut off or
\* restarted, and its cursor never goes back within that lifetime.
ClientIsCurrent ==
  /\ [](part \in {"sync", "behind"} => Sync!TypeOK /\ Sync!ClientIsCurrent)
  /\ Sync!CursorAdvances

\* The transport tells the truth: a subscription that was not evicted has every
\* fact once and in order, a loss is told before the close, a peer that left is
\* not taken for up by a subscription that was not evicted; an open stream has two live ends, an identity one endpoint,
\* and both ends of a stream agree on a decision.
TransportTellsTheTruth ==
  /\ part = "topic" =>
       /\ Topic!TypeOK
       /\ Topic!NoGaps
       /\ Topic!LossIsReported
       /\ Topic!LeftNeighborsAreDown
  /\ part = "stream" =>
       /\ Stream!TypeOK
       /\ Stream!OpenStreamsHaveLiveEnds
       /\ Stream!OneEndpointPerPeer
       /\ Stream!DecisionsAreBelieved

\* A coordinated run reports what happened: its result is the end every Host
\* published, a failure that reports neither an incomplete cleanup nor drivers
\* that did not stop leaves no execution, no driver outlives it, an answer
\* belongs to the callout its driver was shown and is asked for once; an
\* executable's answers are its first lines in order, none skipped or used
\* twice, and a closed one is gone.
RunsReportWhatHappened ==
  /\ part = "run" =>
       /\ Run!TypeOK
       /\ Run!ReportedResultIsShared
       /\ Run!CleanFailureLeavesNothing
       /\ Run!NoDriverOutlivesTheRun
       /\ Run!AcceptedCalloutsAreNotAskedAgain
       /\ Run!AnswersReachTheirCallout
  /\ part = "agent" =>
       /\ Agent!TypeOK
       /\ Agent!AnswersAreTheLinesInOrder
       /\ Agent!ClosedMeansGone

Nth(p, first, second) == IF p = "a" THEN first ELSE second

SubOf(p) == Nth(p, "s1", "s2")
StreamOf(p) == Nth(p, "s1", "s2")
PeerOf(p) == Nth(p, "b", "a")

\* What is under way in a part, at most two things at a time, and how it ends.
UnderWay(p) ==
  \/ part = "direct" /\ Lags(p, PeerOf(p))
  \/ part = "topic" /\ Topic!Removed(SubOf(p))
  \/ part = "opens" /\ Stream!Opening(StreamOf(p))
  \/ part = "stream" /\ Nth(p, Stream!Opening("s1"), \E k \in Packets : Stream!Sending(k))
  \/ part = "agent" /\ Nth(p, Agent!Called, FALSE)
  \/ part = "run" /\ Nth(p, signal, Run!DriverFailed)

Over(p) ==
  \/ part = "direct" /\ Caught(p, PeerOf(p))
  \/ part = "topic" /\ Topic!Finished(SubOf(p))
  \/ part = "opens" /\ Stream!Opened(StreamOf(p))
  \/ part = "stream" /\ Nth(p, Stream!Opened("s1"), \A k \in Packets : Stream!Sent(k))
  \/ part = "agent" /\ Nth(p, Agent!Returned, TRUE)
  \/ part = "run" /\ Nth(p, stage = "Returned", Run!FailureHandled)

\* What is under way comes to its end: direct messages are handed over unless a
\* participant ends or the receiver stays frozen, a client catches up, a removed
\* subscription ends at its receiver, opens and sends return although a queue
\* is full or an end closes, every call on an executable agent returns unless a
\* child that has closed its output goes on running; and Ctrl-C, at whatever
\* stage it arrives, and a driver that fails end a coordinated run, also while
\* Hosts or people answer nothing; only a job that waits for its executable to
\* exit after the session holds a run whose other driver failed, until Ctrl-C.
LinksComeToAnEnd ==
  /\ \A p \in Participants : UnderWay(p) ~> Over(p)
  /\ part = "sync" => Sync!ClientCatchesUp
=============================================================================
