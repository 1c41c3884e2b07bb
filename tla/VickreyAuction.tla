--------------------------- MODULE VickreyAuction ---------------------------
(***************************************************************************)
(* The sealed-bid second-price auction (programs/vickrey-auction).         *)
(* Participant 0 is the seller, who commits to nothing of interest so that *)
(* both commit-reveal rounds have one slot for each participant. A tie for *)
(* the highest bid is broken by jointly committed randomness.              *)
(***************************************************************************)
EXTENDS CommitReveal, Integers, Sequences, FiniteSets, FiniteSetsExt

CONSTANTS
  Bidders,          \* 1 .. n-1
  Bids,             \* amounts an agent may answer
  Reserve,          \* an amount, or None
  Nonces            \* what the Host may draw

VickreyAssumption ==
  /\ Bidders \subseteq Nat /\ Bids \subseteq Nat /\ Nonces \subseteq Nat
  /\ Bidders = 1..Cardinality(Bidders) /\ Cardinality(Bidders) \in 2..8
  /\ Reserve \in Nat \cup {None}

VARIABLES log, applied, frozen, shared, local, outgoing, ended, strayed

Participants == {0} \cup Bidders
Answers == Bids
Faulty == {}
Strays == {}
MaxStrays == 0

InitShared ==
  [phase |-> "Setup", bids |-> NewCommitReveal(2), entropy |-> NewCommitReveal(2),
   settlement |-> None]

InitLocal == [bids |-> NewLocal, entropy |-> NewLocal]

Result(s, l, out, end) == [shared |-> s, local |-> l, out |-> out, end |-> end]

Bid(m) == [route |-> "Bid", inner |-> m]
Entropy(m) == [route |-> "Entropy", inner |-> m]

----------------------------------------------------------------------------
(* Settlement *)

ReserveOr0 == IF Reserve = None THEN 0 ELSE Reserve

Qualifying(bids) == {p \in Bidders : bids[p] >= ReserveOr0}

Highest(bids) == Max({bids[p] : p \in Qualifying(bids)})

Tied(bids) == {p \in Qualifying(bids) : bids[p] = Highest(bids)}

\* The second entry of the qualifying bids in descending order, else the
\* reserve.
SecondPrice(bids) ==
  IF Cardinality(Tied(bids)) > 1 THEN Highest(bids)
  ELSE LET others == Qualifying(bids) \ Tied(bids) IN
       IF others = {} THEN ReserveOr0 ELSE Max({bids[p] : p \in others})

Sold(winner, price) == [kind |-> "Sold", winner |-> winner, price |-> price]
NoSale == [kind |-> "NoSale"]

\* The Host's permutation of k items for a seed: some function of all nonces.
Permutation(values, k) ==
  LET seed == MapThenSumSet(LAMBDA q : values[q], DOMAIN values)
  IN [i \in 0..k-1 |-> (i + seed) % k]

\* settle_tie: the tied bidders in order, shuffled; the first one wins.
SettleTie(s) ==
  LET bids == s.bids.values
      tied == Tied(bids)
      At(i) == CHOOSE p \in tied : Cardinality({q \in tied : q < p}) = i
  IN Sold(At(Permutation(s.entropy.values, Cardinality(tied))[0]), SecondPrice(bids))

\* settle_bids: a settlement, or None when a tie is to be broken.
SettleBids(bids) ==
  IF Qualifying(bids) = {} THEN NoSale
  ELSE IF Cardinality(Tied(bids)) > 1 THEN None
  ELSE Sold(CHOOSE p \in Tied(bids) : TRUE, SecondPrice(bids))

----------------------------------------------------------------------------
(* Handlers *)

\* queue_bid_action_if_due: a reveal, or the seller's commit.
QueueBid(me, s, l, end) ==
  LET reveal == RevealDue(s.bids, me, l.bids)
      commit == IF me = 0 /\ CommitDue(s.bids, me, l.bids)
                  THEN CommitWithSalt(s.bids, l.bids, 0, 0) ELSE {}
  IN IF reveal \cup commit = {} THEN {Result(s, l, << >>, end)}
     ELSE {Result(s, [l EXCEPT !.bids = r.local], <<Bid(r.msg)>>, end) :
             r \in reveal \cup commit}

\* queue_entropy_action_if_due: likewise, and the bidders draw a nonce.
QueueEntropy(me, s, l, end) ==
  LET reveal == RevealDue(s.entropy, me, l.entropy)
      commits == IF ~CommitDue(s.entropy, me, l.entropy) THEN {}
                 ELSE UNION {CommitWithSalt(s.entropy, l.entropy, n, me) :
                               n \in IF me = 0 THEN {0} ELSE Nonces}
  IN IF reveal \cup commits = {} THEN {Result(s, l, << >>, end)}
     ELSE {Result(s, [l EXCEPT !.entropy = r.local], <<Entropy(r.msg)>>, end) :
             r \in reveal \cup commits}

OnSessionStarted(me, s, l) ==
  LET n == Cardinality(Participants) IN
  QueueBid(me, [s EXCEPT !.phase = "Bidding", !.bids = NewCommitReveal(n),
                         !.entropy = NewCommitReveal(n)], l, FALSE)

OnBid(me, s, l, cr) ==
  LET t == [s EXCEPT !.bids = cr]
      settled == SettleBids(cr.values)
  IN IF ~IsComplete(cr) THEN QueueBid(me, t, l, FALSE)
     ELSE IF settled = None
       THEN QueueEntropy(me, [t EXCEPT !.phase = "TieBreak"], l, FALSE)
     ELSE {Result([t EXCEPT !.settlement = settled], l, << >>, TRUE)}

OnEntropyAfterMine(me, s, l, cr) ==
  LET t == [s EXCEPT !.entropy = cr] IN
  IF l.entropy.committedRound = None THEN {}
  ELSE IF ~IsComplete(cr) THEN QueueEntropy(me, t, l, FALSE)
  ELSE {Result([t EXCEPT !.settlement = SettleTie(t)], l, << >>, TRUE)}

OnEntropy(me, s, l, cr) ==
  LET t == [s EXCEPT !.entropy = cr] IN
  IF ~IsComplete(cr) THEN QueueEntropy(me, t, l, FALSE)
  ELSE {Result([t EXCEPT !.settlement = SettleTie(t)], l, << >>, TRUE)}

OnMessage(me, s, l, from, msg) ==
  IF msg.route = "Bid"
    THEN IF s.phase # "Bidding" \/ ~IsNext(s.bids, from) THEN {}
         ELSE UNION {OnBid(me, s, l, cr) : cr \in HandleCR(s.bids, from, msg.inner)}
    ELSE IF s.phase # "TieBreak" \/ ~IsNext(s.entropy, from) THEN {}
         ELSE UNION {OnEntropy(me, s, l, cr) : cr \in HandleCR(s.entropy, from, msg.inner)}

Callout(me, s, l) ==
  /\ s.phase = "Bidding" /\ me # 0
  /\ IsNext(s.bids, me) /\ NeedsCommit(s.bids, l.bids)

OnInput(me, s, l, amount) ==
  IF me = 0 \/ s.phase # "Bidding" \/ ~IsNext(s.bids, me) THEN {}
  ELSE {Result(s, [l EXCEPT !.bids = r.local], <<Bid(r.msg)>>, FALSE) :
          r \in CommitWithSalt(s.bids, l.bids, amount, me)}

INSTANCE ProgramSession

----------------------------------------------------------------------------
(* Properties *)

\* What bidder i, to whom the item is worth v, may gain from a settlement of
\* these bids: a tie may fall either way.
Gains(bids, i, v) ==
  IF Qualifying(bids) = {} \/ i \notin Tied(bids) THEN {0}
  ELSE {v - SecondPrice(bids)} \cup (IF Cardinality(Tied(bids)) > 1 THEN {0} ELSE {})

\* The settlement that every Host reaches is the Vickrey rule's: the item goes
\* to a highest qualifying bidder, and no bidder could have gained more with
\* another bid than with its own, whatever the others bid.
SettlementIsTruthful ==
  \A p \in Participants : shared[p].settlement # None =>
    LET bids == shared[p].bids.values
        settlement == shared[p].settlement
    IN /\ settlement = NoSale => \A i \in Bidders : bids[i] < ReserveOr0
       /\ settlement # NoSale =>
            /\ settlement.winner \in Tied(bids)
            /\ settlement.price >= ReserveOr0 /\ settlement.price <= bids[settlement.winner]
       /\ \A i \in Bidders : \A other \in Bids :
            \A g \in Gains(bids, i, bids[i]) :
              \A h \in Gains([bids EXCEPT ![i] = other], i, bids[i]) : g >= h
=============================================================================
