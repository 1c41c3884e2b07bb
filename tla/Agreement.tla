----------------------------- MODULE Agreement ------------------------------
(***************************************************************************)
(* The agreement primitive and the ballot in it (arena0-primitives         *)
(* agreement.rs, ballot.rs): one proposal, an exact set of voters and a    *)
(* threshold. An operation that may fail returns the set of its results.   *)
(***************************************************************************)
EXTENDS Naturals, FiniteSets

CONSTANT None

NewAgreement == [value |-> None, voters |-> {}, votes |-> << >>, threshold |-> 0]

Votes == {"Accept", "Reject"}

Cast(a, vote) == {p \in a.voters : a.votes[p] = vote}

\* tally: accepted, out of reach, or open.
Tally(a) ==
  LET accepts == Cardinality(Cast(a, "Accept"))
      remaining == Cardinality(Cast(a, None))
  IN CASE a.voters = {} -> "NotStarted"
       [] a.voters # {} /\ accepts >= a.threshold -> "Accepted"
       [] a.voters # {} /\ accepts + remaining < a.threshold -> "Rejected"
       [] OTHER -> "Pending"

\* A proposal is made once, with a threshold that its voters can reach.
Propose(a, value, voters, threshold) ==
  IF a.voters # {} \/ voters = {} \/ threshold \notin 1..Cardinality(voters) THEN {}
  ELSE {[value |-> value, voters |-> voters,
         votes |-> [p \in voters |-> None], threshold |-> threshold]}

\* An eligible voter votes once, on this proposal, while the result is open.
Vote(a, p, value, vote) ==
  IF \/ Tally(a) # "Pending" \/ value # a.value
     \/ p \notin a.voters \/ a.votes[p] # None THEN {}
  ELSE {[a EXCEPT !.votes[p] = vote]}

\* next_voter: the first voter who has not voted, while the result is open.
IsNextVoter(a, p) ==
  /\ Tally(a) = "Pending" /\ p \in Cast(a, None)
  /\ \A q \in Cast(a, None) : p <= q
=============================================================================
