----------------------------- MODULE ContractNet ----------------------------
(***************************************************************************)
(* Task allocation (programs/contract-net): participant 0 coordinates, the *)
(* workers publish one offer each in order, the coordinator proposes the   *)
(* plan that the offers determine, and everybody accepts it.               *)
(*                                                                         *)
(* An offer maps each task to a cost or None: the duplicate bids and       *)
(* capabilities, and the bounds on texts, that validate also refuses       *)
(* cannot be written down in that form.                                    *)
(***************************************************************************)
EXTENDS Agreement, Sequences, FiniteSetsExt

CONSTANTS
  Workers,        \* 1 .. n-1
  Tasks,          \* the capability that each task asks for, a sequence
  Offers,         \* what an agent may answer, invalid offers included
  MaxCost

ContractNetAssumption ==
  /\ Workers = 1..Cardinality(Workers) /\ Cardinality(Workers) \in 1..15
  /\ Len(Tasks) \in 1..16 /\ MaxCost \in Nat

VARIABLES log, applied, frozen, shared, local, outgoing, ended, strayed

Participants == {0} \cup Workers
Answers == Offers
Faulty == {}
Strays == {}
MaxStrays == 0

Coordinator == 0

InitShared == [phase |-> "CollectingOffers", offers |-> << >>, agreement |-> NewAgreement]

InitLocal == [offerSent |-> FALSE, proposalSent |-> FALSE, accepted |-> None]

Result(s, l, out, end) == [shared |-> s, local |-> l, out |-> out, end |-> end]

----------------------------------------------------------------------------

\* WorkerOffer::validate
ValidOffer(o) ==
  /\ o.capacity <= Len(Tasks)
  /\ \A t \in DOMAIN o.bids : o.bids[t] # None =>
       /\ t \in DOMAIN Tasks /\ o.bids[t] <= MaxCost
       /\ Tasks[t] \in o.capabilities

Offered(s) == {w \in DOMAIN s.offers : s.offers[w] # None}

AllOffersReceived(s) == DOMAIN s.offers # {} /\ Offered(s) = DOMAIN s.offers

IsNextOfferer(s, p) ==
  LET open == DOMAIN s.offers \ Offered(s) IN p \in open /\ \A q \in open : p <= q

\* is_next: the one sender that the state waits for.
IsNext(s, p) ==
  IF s.phase = "CollectingOffers"
    THEN IsNextOfferer(s, p) \/ (AllOffersReceived(s) /\ p = Coordinator)
    ELSE IsNextVoter(s.agreement, p)

\* The workers who can still take task t after the awards so far.
Candidates(offers, awards, t) ==
  {w \in DOMAIN offers :
     /\ offers[w] # None
     /\ Cardinality({u \in DOMAIN awards : awards[u] = w}) < offers[w].capacity
     /\ Tasks[t] \in offers[w].capabilities /\ offers[w].bids[t] # None}

Cheapest(offers, t, ws) ==
  CHOOSE w \in ws : \A v \in ws :
    \/ offers[w].bids[t] < offers[v].bids[t]
    \/ offers[w].bids[t] = offers[v].bids[t] /\ w <= v

\* plan: tasks in input order, each to the cheapest worker with capacity left.
Plan(offers) ==
  LET award[t \in 0..Len(Tasks)] ==
        IF t = 0 THEN << >>
        ELSE LET ws == Candidates(offers, award[t - 1], t)
             IN Append(award[t - 1], IF ws = {} THEN None ELSE Cheapest(offers, t, ws))
  IN award[Len(Tasks)]

----------------------------------------------------------------------------

OnSessionStarted(me, s, l) ==
  {Result([s EXCEPT !.offers = [w \in Workers |-> None]], l, << >>, FALSE)}

Callout(me, s, l) ==
  /\ s.phase = "CollectingOffers" /\ me # Coordinator
  /\ IsNext(s, me) /\ ~l.offerSent

OnInput(me, s, l, offer) ==
  IF s.phase # "CollectingOffers" \/ ~IsNextOfferer(s, me) \/ ~ValidOffer(offer) THEN {}
  ELSE {Result(s, [l EXCEPT !.offerSent = TRUE],
               <<[kind |-> "Offer", offer |-> offer]>>, FALSE)}

QueueProposalIfDue(me, s, l) ==
  IF me # Coordinator \/ ~AllOffersReceived(s) \/ l.proposalSent
    THEN {Result(s, l, << >>, FALSE)}
    ELSE {Result(s, [l EXCEPT !.proposalSent = TRUE],
                 <<[kind |-> "Proposal", plan |-> Plan(s.offers)]>>, FALSE)}

QueueAcceptIfDue(me, s, l) ==
  LET plan == s.agreement.value IN
  IF plan # Plan(s.offers) THEN {}
  ELSE IF IsNextVoter(s.agreement, me) /\ l.accepted # plan
    THEN {Result(s, [l EXCEPT !.accepted = plan],
                 <<[kind |-> "Accept", plan |-> plan]>>, FALSE)}
    ELSE {Result(s, l, << >>, FALSE)}

OnOffer(me, s, l, from, offer) ==
  IF s.phase # "CollectingOffers" \/ from = Coordinator \/ ~ValidOffer(offer) THEN {}
  ELSE QueueProposalIfDue(me, [s EXCEPT !.offers[from] = offer], l)

OnProposal(me, s, l, from, plan) ==
  IF \/ s.phase # "CollectingOffers" \/ from # Coordinator
     \/ ~AllOffersReceived(s) \/ plan # Plan(s.offers) THEN {}
  ELSE UNION {QueueAcceptIfDue(me, [s EXCEPT !.phase = "ReviewingProposal",
                                             !.agreement = a], l)
              : a \in Propose(s.agreement, plan, Participants, Cardinality(Participants))}

\* A unanimous ballot can only be pending or accepted.
OnAccept(me, s, l, from, plan) ==
  IF s.phase # "ReviewingProposal" THEN {}
  ELSE UNION {LET t == [s EXCEPT !.agreement = a] IN
              IF Tally(a) = "Accepted" THEN {Result(t, l, << >>, TRUE)}
              ELSE QueueAcceptIfDue(me, t, l)
              : a \in Vote(s.agreement, from, plan, "Accept")}

OnMessage(me, s, l, from, msg) ==
  IF ~IsNext(s, from) THEN {}
  ELSE CASE msg.kind = "Offer" -> OnOffer(me, s, l, from, msg.offer)
         [] msg.kind = "Proposal" -> OnProposal(me, s, l, from, msg.plan)
         [] msg.kind = "Accept" -> OnAccept(me, s, l, from, msg.plan)

INSTANCE ProgramSession

----------------------------------------------------------------------------
(* Properties *)

\* Every way to give tasks to workers that the offers allow.
Feasible(offers) ==
  {f \in [DOMAIN Tasks -> Workers \cup {None}] :
     /\ \A t \in DOMAIN Tasks : f[t] # None =>
          offers[f[t]].bids[t] # None /\ Tasks[t] \in offers[f[t]].capabilities
     /\ \A w \in Workers :
          Cardinality({t \in DOMAIN Tasks : f[t] = w}) <= offers[w].capacity}

\* Task t is better served by worker v than by w: at all, cheaper, or by the
\* lower index at the same cost.
Better(offers, t, v, w) ==
  /\ v # w /\ v # None
  /\ \/ w = None
     \/ offers[v].bids[t] < offers[w].bids[t]
     \/ offers[v].bids[t] = offers[w].bids[t] /\ v < w

\* What all accept is the first of the feasible allocations in the order that
\* compares the tasks in input order: no allocation is better for the first
\* task on which it differs, and no worker is given more than its capacity.
AcceptedPlanIsFirst ==
  \A p \in Participants : shared[p].agreement.value # None =>
    LET plan == shared[p].agreement.value
        offers == shared[p].offers
    IN /\ plan \in Feasible(offers)
       /\ \A f \in Feasible(offers) \ {plan} :
            LET d == Min({t \in DOMAIN Tasks : f[t] # plan[t]})
            IN Better(offers, d, plan[d], f[d])

\* The session ends when everyone has accepted the one plan, not before.
EveryoneAcceptedTheOutcome ==
  \A p \in Participants : ended[p] =>
    \A q \in Participants : local[q].accepted = shared[p].agreement.value
=============================================================================
