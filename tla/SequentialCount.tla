--------------------------- MODULE SequentialCount --------------------------
(***************************************************************************)
(* Counting in turn from a jointly drawn start (programs/sequential-count  *)
(* with the TurnManager primitive): a commit-reveal round of nonces picks  *)
(* the first participant, then the turn goes round.                        *)
(***************************************************************************)
EXTENDS CommitReveal, Sequences, FiniteSets, Bitwise

CONSTANTS N, CountTo, Nonces

SequentialCountAssumption ==
  N \in 3..32 /\ CountTo \in 1..4096 /\ Nonces \subseteq Nat

VARIABLES log, applied, frozen, shared, local, outgoing, ended, strayed

Participants == 0..N-1
Answers == {}
Faulty == {}
Strays == {}
MaxStrays == 0

InitShared ==
  [phase |-> "Setup", count |-> 0, history |-> << >>, turns |-> None,
   cr |-> NewCommitReveal(2)]

InitLocal == [cr |-> NewLocal, lastSent |-> None]

Result(s, l, out, end) == [shared |-> s, local |-> l, out |-> out, end |-> end]

Setup(m) == [route |-> "CommitReveal", inner |-> m]
Count(v) == [route |-> "Count", value |-> v]

\* TurnManager: the order and the position of the current participant.
NewTurns(order) == [order |-> order, current |-> 0]
Current(turns) == turns.order[turns.current]

Advance(turns) == [turns EXCEPT !.current = (@ + 1) % Cardinality(DOMAIN turns.order)]

\* The nonces combined by exclusive or.
CombinedNonce(values) ==
  LET x[i \in 0..N] == IF i = 0 THEN 0 ELSE x[i - 1] ^^ values[i - 1] IN x[N]

\* apply_order: round robin from the participant the nonces select.
ApplyOrder(s) ==
  LET start == CombinedNonce(s.cr.values) % N
  IN [s EXCEPT !.turns = NewTurns([i \in 0..N-1 |-> (start + i) % N])]

QueueSetupAction(me, s, l) ==
  LET reveal == RevealDue(s.cr, me, l.cr)
      commits == IF ~CommitDue(s.cr, me, l.cr) THEN {}
                 ELSE UNION {CommitWithSalt(s.cr, l.cr, n, me) : n \in Nonces}
  IN IF reveal \cup commits = {} THEN {Result(s, l, << >>, FALSE)}
     ELSE {Result(s, [l EXCEPT !.cr = r.local], <<Setup(r.msg)>>, FALSE) :
             r \in reveal \cup commits}

QueueCountIfDue(me, s, l) ==
  LET next == s.count + 1 IN
  IF Current(s.turns) = me /\ l.lastSent # next
    THEN {Result(s, [l EXCEPT !.lastSent = next], <<Count(next)>>, FALSE)}
    ELSE {Result(s, l, << >>, FALSE)}

OnSessionStarted(me, s, l) ==
  QueueSetupAction(me, [s EXCEPT !.cr = NewCommitReveal(N)], l)

OnSetup(me, s, l, cr) ==
  LET t == [s EXCEPT !.cr = cr] IN
  IF ~IsComplete(cr) THEN QueueSetupAction(me, t, l)
  ELSE QueueCountIfDue(me, [ApplyOrder(t) EXCEPT !.phase = "Counting"], l)

\* The next count comes from the participant whose turn it is.
OnCount(me, s, l, from, value) ==
  LET t == [s EXCEPT !.count = value, !.history = Append(@, from),
                     !.turns = Advance(@)]
  IN IF from # Current(s.turns) \/ value # s.count + 1 THEN {}
     ELSE IF value = CountTo THEN {Result(t, l, << >>, TRUE)}
     ELSE QueueCountIfDue(me, t, l)

OnMessage(me, s, l, from, msg) ==
  IF msg.route = "CommitReveal"
    THEN IF s.phase # "Setup" \/ ~IsNext(s.cr, from) THEN {}
         ELSE UNION {OnSetup(me, s, l, cr) : cr \in HandleCR(s.cr, from, msg.inner)}
    ELSE IF s.phase # "Counting" THEN {} ELSE OnCount(me, s, l, from, msg.value)

Callout(me, s, l) == FALSE
OnInput(me, s, l, a) == {}

INSTANCE ProgramSession

----------------------------------------------------------------------------

\* Everybody counts in turn: the agreed history is a round robin, so that two
\* participants' counts never differ by more than one.
CountsAreFair ==
  \A p \in Participants :
    LET h == shared[p].history
        Turns(q) == Cardinality({i \in DOMAIN h : h[i] = q})
    IN /\ shared[p].count = Len(h)
       /\ \A i \in 1..Len(h) - 1 : h[i + 1] = (h[i] + 1) % N
       /\ \A q, r \in Participants : Turns(q) <= Turns(r) + 1
=============================================================================
