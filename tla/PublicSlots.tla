----------------------------- MODULE PublicSlots ----------------------------
(***************************************************************************)
(* The two programs in which each participant in turn fills its slot with  *)
(* a value in public: cumulative-sum, whose Hosts draw the values and add  *)
(* them, and minimal-choice (examples/minimal-program), whose agents       *)
(* choose them.                                                            *)
(***************************************************************************)
EXTENDS Naturals, Sequences, FiniteSetsExt

CONSTANTS
  None,
  N,              \* participants
  Asked,          \* TRUE: minimal-choice, agents are asked; FALSE: drawn
  Values,         \* choices, or what a Host may draw
  Modulus,        \* of the sum: 2^64 in a release build
  Faulty, Strays, MaxStrays

PublicSlotsAssumption ==
  /\ N \in 2..64 /\ Asked \in BOOLEAN /\ Values \subseteq Nat
  /\ Modulus \in Nat \ {0} /\ MaxStrays \in Nat

VARIABLES log, applied, frozen, shared, local, outgoing, ended, strayed

Participants == 0..N-1
Answers == IF Asked THEN Values ELSE {}

InitShared == [slots |-> [p \in Participants |-> None], total |-> 0, finalized |-> FALSE]

\* sent, or choice_pending
InitLocal == [sent |-> FALSE]

Result(s, l, out, end) == [shared |-> s, local |-> l, out |-> out, end |-> end]

Empty(s) == {p \in Participants : s.slots[p] = None}

IsNextSlot(s, p) == p \in Empty(s) /\ \A q \in Empty(s) : p <= q

QueueContributionIfDue(me, s, l) ==
  IF Asked \/ ~IsNextSlot(s, me) \/ l.sent THEN {Result(s, l, << >>, FALSE)}
  ELSE {Result(s, [l EXCEPT !.sent = TRUE], <<v>>, FALSE) : v \in Values}

OnSessionStarted(me, s, l) == QueueContributionIfDue(me, s, l)

\* finalize_if_ready: the sum of a u64 wraps round in a release build.
Finalize(s) ==
  IF Asked THEN s
  ELSE [s EXCEPT !.finalized = TRUE,
                 !.total = MapThenSumSet(LAMBDA p : s.slots[p], Participants) % Modulus]

OnMessage(me, s, l, from, value) ==
  IF ~IsNextSlot(s, from) THEN {}
  ELSE LET t == [s EXCEPT !.slots[from] = value]
           m == IF Asked THEN [l EXCEPT !.sent = FALSE] ELSE l
       IN IF Empty(t) = {} THEN {Result(Finalize(t), m, << >>, TRUE)}
          ELSE QueueContributionIfDue(me, t, m)

Callout(me, s, l) == Asked /\ ~l.sent /\ IsNextSlot(s, me)

OnInput(me, s, l, value) ==
  IF ~IsNextSlot(s, me) THEN {}
  ELSE {Result(s, [l EXCEPT !.sent = TRUE], <<value>>, FALSE)}

INSTANCE ProgramSession

----------------------------------------------------------------------------

\* Each slot holds what its own participant said, once, and the total is the
\* sum of those values: a participant that sends more, or out of turn, cannot
\* fill another's slot or change its own.
SlotsAreTheirOwners ==
  \A p \in Participants :
    /\ \A q \in Participants : shared[p].slots[q] # None =>
         \E i \in 2..applied[p] :
           /\ log[i] = [from |-> q, msg |-> shared[p].slots[q]]
           /\ \A j \in 2..applied[p] : log[j].from = q => j = i
    /\ ended[p] /\ ~Asked => /\ \A q \in Participants : shared[p].slots[q] # None
                             /\ shared[p].total = MapThenSumSet(
                                  LAMBDA i : log[i].msg, 2..N + 1) % Modulus
=============================================================================
