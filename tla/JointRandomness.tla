--------------------------- MODULE JointRandomness --------------------------
(***************************************************************************)
(* The permutation that a Host draws from the agreed seed                  *)
(* (arena0-crypto permutation.rs) and the loop that applies it to a list   *)
(* in place (arena0-primitives joint_randomness.rs). The words of the      *)
(* seeded generator are inputs.                                            *)
(***************************************************************************)
EXTENDS Integers, FiniteSets

CONSTANTS
  Sizes,          \* numbers of items
  Width           \* bits of a generator word (64 in the code)

JointRandomnessAssumption ==
  Sizes \subseteq Nat /\ Width \in Nat /\ \A n \in Sizes : n < 2^Width

VARIABLES
  phase,          \* "Draw", "Apply" or "Done"
  index,          \* position of the pass, descending
  order,          \* the permutation, then its entries still to be applied
  drawn,          \* the permutation as drawn
  direct,         \* the list that the same pass shuffles directly
  items,          \* the list that the permutation is applied to
  start, current  \* the cycle being followed

vars == <<phase, index, order, drawn, direct, items, start, current>>

Swap(f, i, j) == [f EXCEPT ![i] = f[j], ![j] = f[i]]

\* Words below the threshold are drawn again.
Threshold(bound) == (2^Width - bound) % bound

Accepted(bound) == Threshold(bound)..2^Width - 1

Init ==
  \E n \in Sizes :
    /\ phase = "Draw" /\ index = n - 1
    /\ order = [i \in 0..n-1 |-> i] /\ drawn = order
    /\ direct = [i \in 0..n-1 |-> i] /\ items = direct
    /\ start = 0 /\ current = 0

\* One position of the descending pass.
Draw ==
  /\ phase = "Draw" /\ index >= 1
  /\ \E word \in Accepted(index + 1) :
       LET s == word % (index + 1) IN
       /\ order' = Swap(order, index, s)
       /\ direct' = Swap(direct, index, s)
  /\ index' = index - 1
  /\ UNCHANGED <<phase, drawn, items, start, current>>

DrawDone ==
  /\ phase = "Draw" /\ index < 1
  /\ phase' = "Apply" /\ drawn' = order
  /\ UNCHANGED <<index, order, direct, items, start, current>>

\* The body of the inner loop.
Follow ==
  /\ phase = "Apply" /\ start \in DOMAIN order /\ order[current] # start
  /\ items' = Swap(items, current, order[current])
  /\ order' = [order EXCEPT ![current] = current]
  /\ current' = order[current]
  /\ UNCHANGED <<phase, index, drawn, direct, start>>

\* The end of a cycle, and of the outer loop.
CloseCycle ==
  /\ phase = "Apply" /\ start \in DOMAIN order /\ order[current] = start
  /\ order' = [order EXCEPT ![current] = current]
  /\ start' = start + 1 /\ current' = start + 1
  /\ UNCHANGED <<phase, index, drawn, direct, items>>

Finish ==
  /\ phase = "Apply" /\ start \notin DOMAIN order
  /\ phase' = "Done"
  /\ UNCHANGED <<index, order, drawn, direct, items, start, current>>

Next == Draw \/ DrawDone \/ Follow \/ CloseCycle \/ Finish

Spec == Init /\ [][Next]_vars

----------------------------------------------------------------------------

\* The cycle-following loop of shuffle puts at every position the item that
\* the drawn permutation names, and that is the list that the pass itself
\* would have produced.
ShuffleAppliesOrder ==
  phase = "Done" =>
    /\ \A i \in DOMAIN items : items[i] = drawn[i]
    /\ items = direct

\* Every choice is unbiased: the accepted words are a whole number of residue
\* classes, so each position is drawn by the same number of words.
ChoiceIsUnbiased ==
  phase = "Draw" /\ index >= 1 =>
    LET words(r) == {w \in Accepted(index + 1) : w % (index + 1) = r}
    IN \A r, q \in 0..index : Cardinality(words(r)) = Cardinality(words(q))
                                /\ words(r) # {}
=============================================================================
