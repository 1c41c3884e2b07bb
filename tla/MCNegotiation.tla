---------------------------- MODULE MCNegotiation ----------------------------
(***************************************************************************)
(* Instances of Negotiation for TLC. Each behaviour is that of one         *)
(* scenario: the constants that the .cfg gives ("given"), or a scenario    *)
(* with the same Hosts and creators in which every daemon may die once.    *)
(***************************************************************************)
EXTENDS Negotiation

CONSTANT Scenarios

VARIABLE scenario

\* Restarts and repeated requests of each Host.
NoStarts == [h \in Hosts |-> 0]
EachStartsOnce == [h \in Hosts |-> 1]

\* The joiners take any creator's offer.
AnyTarget == [h \in Joiners |-> None]

\* What the requests prefer.
SameTerms == [h \in Hosts |-> IF h \in Creators THEN 1 ELSE None]
AllPrefer == [h \in Hosts |-> 1]

\* Daemons die and are started again; nobody prefers other terms or renews.
Restarts == INSTANCE Negotiation WITH
  MaxStarts <- EachStartsOnce, MaxSeq <- 0, Pref <- SameTerms

NegotiationInit ==
  /\ scenario \in Scenarios
  /\ \/ scenario = "given" /\ Init
     \/ scenario = "restarts" /\ Restarts!Init

NegotiationNext ==
  /\ UNCHANGED scenario
  /\ \/ scenario = "given" /\ Next
     \/ scenario = "restarts" /\ Restarts!Next

NegotiationSpec == NegotiationInit /\ [][NegotiationNext]_<<scenario, vars>>
==============================================================================
