---------------------------- MODULE MCExecution ----------------------------
(***************************************************************************)
(* Small programs and bounds for Execution. Each behaviour is that of one  *)
(* scenario: the program and the bounds that the .cfg gives ("given"), or  *)
(* those of one of the instances below. The scenarios share participants   *)
(* and state, so one statement of a property speaks about all of them. In  *)
(* one more scenario ("forming") the session stays in its initial state    *)
(* and the negotiation that would form it is at work.                      *)
(***************************************************************************)
EXTENDS Execution, SequencesExt

CONSTANTS
  Scenarios,
  LastStep,     \* the step at which the given program ends the session
  Lenient,      \* TRUE: it accepts any author at any step
  Crashes, Stops

VARIABLES
  scenario,
  asked, record, drive, starts, wire, lapsed, acked   \* Negotiation

formingVars == <<asked, record, drive, starts, wire, lapsed, acked>>

----------------------------------------------------------------------------
(* Programs.                                                               *)

TurnOrder == SetToSeq(Participants)

\* The replicated trace decides who may send next.
Turn(log) == TurnOrder[((Len(log) + 1) % Len(TurnOrder)) + 1]

InTurn(log, from, data) == from = Turn(log)

AsksInTurn(log, local, p) == p = Turn(log)

Anyone(log, from, data) == TRUE

AtStep1(log, from, data) == Len(log) = 1

AtStep2(log, from, data) == Len(log) = 2

Never(log, from, data) == FALSE

GivenAccepts(log, from, data) == Lenient \/ InTurn(log, from, data)

GivenAsks(log, local, p) == Lenient \/ AsksInTurn(log, local, p)

GivenEnds(log, from, data) == Len(log) = LastStep

Spending(crashes, timeouts, stops, windows) ==
  [crash |-> crashes, timeout |-> timeouts, stop |-> stops, window |-> windows]

GivenBudget == Spending(Crashes, 0, Stops, 0)

----------------------------------------------------------------------------
(* Scenarios.                                                              *)

\* A session of two turns, with a crash and a send that times out.
Faults == INSTANCE Execution WITH
  Ends <- AtStep1, Aborts <- Never, Accepts <- InTurn, Asks <- AsksInTurn,
  MaxOutgoing <- 1, MaxBroadcasts <- 1, Budget <- Spending(1, 1, 0, 0)

\* Both may author every step, and the program aborts.
Rivals == INSTANCE Execution WITH
  Ends <- Never, Aborts <- AtStep2, Accepts <- Anyone, Asks <- Anyone,
  MaxOutgoing <- 1, MaxBroadcasts <- 1, Budget <- Spending(1, 0, 1, 0)

\* A send that times out and a confirmation window that elapses.
Windows == INSTANCE Execution WITH
  Ends <- Never, Aborts <- AtStep1, Accepts <- InTurn, Asks <- AsksInTurn,
  MaxOutgoing <- 1, MaxBroadcasts <- 1, Budget <- Spending(0, 1, 0, 1)

\* A stop, and a send that times out.
Late == INSTANCE Execution WITH
  Ends <- Never, Aborts <- AtStep1, Accepts <- InTurn, Asks <- AsksInTurn,
  MaxOutgoing <- 1, MaxBroadcasts <- 1, Budget <- Spending(0, 1, 1, 0)

\* Two stops race, and a confirmation window elapses.
Races == INSTANCE Execution WITH
  Ends <- Never, Aborts <- AtStep1, Accepts <- InTurn, Asks <- AsksInTurn,
  MaxOutgoing <- 1, MaxBroadcasts <- 1, Budget <- Spending(0, 0, 2, 1)

\* One stop, and no fault.
Stopped == INSTANCE Execution WITH
  Ends <- AtStep2, Aborts <- Never, Accepts <- InTurn, Asks <- AsksInTurn,
  MaxOutgoing <- 1, MaxBroadcasts <- 1, Budget <- Spending(0, 0, 1, 0)

\* A creator and a joiner over a topic that loses facts.
Forming == INSTANCE Negotiation WITH
  Hosts <- {1, 2}, Creators <- {1}, Target <- [h \in {2} |-> 1], Params <- {1},
  Pref <- [h \in {1, 2} |-> IF h = 1 THEN 1 ELSE None], TargetSize <- 2, Fast <- {},
  MaxAttempts <- 1, Lossy <- TRUE, MaxSeq <- 0, MaxStarts <- [h \in {1, 2} |-> 0],
  Withdrawers <- {}, request <- asked

ExecutionInit ==
  /\ scenario \in Scenarios
  /\ Forming!Init
  /\ \/ scenario = "given" /\ Init
     \/ scenario = "faults" /\ Faults!Init
     \/ scenario = "rivals" /\ Rivals!Init
     \/ scenario = "windows" /\ Windows!Init
     \/ scenario = "late" /\ Late!Init
     \/ scenario = "races" /\ Races!Init
     \/ scenario \in {"stopped", "forming"} /\ Stopped!Init

SessionNext ==
  \/ scenario = "given" /\ Next
  \/ scenario = "faults" /\ Faults!Next
  \/ scenario = "rivals" /\ Rivals!Next
  \/ scenario = "windows" /\ Windows!Next
  \/ scenario = "late" /\ Late!Next
  \/ scenario = "races" /\ Races!Next
  \/ scenario = "stopped" /\ Stopped!Next

ExecutionNext ==
  /\ UNCHANGED scenario
  /\ \/ SessionNext /\ UNCHANGED formingVars
     \/ scenario = "forming" /\ Forming!Next /\ UNCHANGED vars

peerVars == <<vars, formingVars>>

ExecutionSpec == ExecutionInit /\ [][ExecutionNext]_<<scenario, peerVars>>

----------------------------------------------------------------------------
(* The fairness of Execution, for the two scenarios of the liveness run,   *)
(* and that of Negotiation. Only one scenario is at work in a behaviour,   *)
(* so one conjunct stands for a step of each: of the facts that are lost   *)
(* and repeated, and of the deliveries that are not overtaken for ever.    *)

Served(p, q) ==
  /\ \/ scenario = "given" /\ Serves(q, p)
     \/ scenario = "stopped" /\ Stopped!Serves(q, p)
  /\ UNCHANGED formingVars

Settled(p, q) ==
  /\ \/ scenario = "given" /\ SettleSend(p, q)
     \/ scenario = "stopped" /\ Stopped!SettleSend(p, q)
  /\ UNCHANGED formingVars

HeardByJoiner(kind) ==
  /\ scenario = "forming"
  /\ \E f \in wire : f.kind = kind /\ Forming!JoinerHears(2, f) /\ drive' # drive
  /\ UNCHANGED vars

HeardByCreator ==
  /\ scenario = "forming" /\ \E f \in wire : Forming!Heard(1, 2, f)
  /\ UNCHANGED vars

Fetched ==
  /\ scenario = "forming" /\ \E f \in wire : Forming!ServeFetch(1, f) /\ wire' # wire
  /\ UNCHANGED vars

DeliveryFairness(p, q) ==
  /\ SF_peerVars(Served(p, q) \/ Fetched)
  /\ SF_peerVars(Served(q, p) \/ HeardByCreator)
  /\ SF_peerVars(Settled(p, q) \/ HeardByJoiner("Offer"))
  /\ SF_peerVars(Settled(q, p) \/ HeardByJoiner("ActivationTickets"))
  /\ SF_peerVars(HeardByJoiner("ActivationAnnouncement"))

SessionFairness ==
  \A p \in Participants :
    /\ WF_vars(\/ scenario = "given" /\ Advances(p)
               \/ scenario = "stopped" /\ Stopped!Advances(p))
    /\ \A q \in Participants \ {p} :
         WF_vars(\/ scenario = "given" /\ RetryDue(p, q)
                 \/ scenario = "stopped" /\ Stopped!RetryDue(p, q))

FormingFairness ==
  /\ WF_formingVars(scenario = "forming" /\ Forming!CreatorEmit(1))
  /\ WF_formingVars(scenario = "forming" /\ Forming!Relay(1))
  /\ WF_formingVars(scenario = "forming" /\ Forming!ParticipantEmit(2))
  /\ \A h \in {1, 2} : WF_formingVars(scenario = "forming" /\ Forming!FinishNegotiation(h))
  /\ WF_formingVars(/\ scenario = "forming"
                    /\ \E f \in wire : /\ f.kind = "Offer" /\ Cardinality(f.tickets) < 2
                                       /\ Forming!Lose(f))

FairExecutionSpec ==
  /\ ExecutionSpec /\ SessionFairness /\ FormingFairness
  /\ DeliveryFairness(TurnOrder[1], TurnOrder[2])

----------------------------------------------------------------------------
(* Liveness; every other property has its name from Execution.             *)

\* What the session, or the stopped one, owes its first and its second
\* participant, and what the session owes at its end.
SessionOwes(n) ==
  \/ scenario = "given" /\ n \in {1, 2} /\ st[TurnOrder[n]].proposal # None
  \/ scenario = "given" /\ n = 3 /\ EndIsCertified
  \/ scenario = "stopped" /\ n \in {1, 2} /\ StopAtCursor(TurnOrder[3 - n], TurnOrder[n])

SessionPays(n) ==
  \/ scenario = "given" /\ n \in {1, 2} /\ st[TurnOrder[n]].proposal = None
  \/ scenario = "given" /\ n = 3 /\ AllRetired
  \/ scenario = "stopped" /\ n \in {1, 2} /\ IsTerminal(st[TurnOrder[n]])

\* Every session concludes: with no stop, and although a participant crashes,
\* staged steps are certified and a certified last step reaches everybody, who
\* publish their receipts, confirm and retire; a stop reaches all that are at
\* its cursor.
SessionsConclude == \A n \in 1..3 : SessionOwes(n) ~> SessionPays(n)

\* An activation that a creator froze comes about everywhere, although the
\* topic loses facts: every member signs it, it is committed, and a commit
\* known to one member reaches all of them.
ActivationSpreads ==
  scenario = "forming" => Forming!FreezeCompletes /\ Forming!CommitSpreads
=============================================================================
