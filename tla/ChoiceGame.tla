----------------------------- MODULE ChoiceGame -----------------------------
(***************************************************************************)
(* The two games of simultaneous choice, rock-paper-scissors (best of      *)
(* three) and the prisoner's dilemma (a fixed number of rounds): the same  *)
(* handlers around a commit-reveal round, different scores and ends.       *)
(***************************************************************************)
EXTENDS CommitReveal, Sequences, FiniteSets

CONSTANTS
  Game,             \* "RockPaperScissors" or "PrisonerDilemma"
  TotalRounds,      \* 3 and 5 in the programs
  Faulty, Strays, MaxStrays

ChoiceGameAssumption ==
  /\ Game \in {"RockPaperScissors", "PrisonerDilemma"}
  /\ TotalRounds \in Nat \ {0} /\ MaxStrays \in Nat

VARIABLES log, applied, frozen, shared, local, outgoing, ended, strayed

Participants == {0, 1}

Rps == Game = "RockPaperScissors"

Answers == IF Rps THEN {"Rock", "Paper", "Scissors"} ELSE {"Cooperate", "Defect"}

Beats(a, b) == <<a, b>> \in
  {<<"Rock", "Scissors">>, <<"Scissors", "Paper">>, <<"Paper", "Rock">>}

\* The points of the player who chose a against b.
Points(a, b) ==
  IF Rps THEN (IF Beats(a, b) THEN 1 ELSE 0)
  ELSE CASE a = "Cooperate" /\ b = "Cooperate" -> 3
         [] a = "Cooperate" /\ b = "Defect" -> 0
         [] a = "Defect" /\ b = "Cooperate" -> 5
         [] OTHER -> 1

InitShared ==
  [phase |-> "Setup", round |-> 0, totalRounds |-> 0,
   scores |-> [p \in Participants |-> 0], cr |-> NewCommitReveal(2)]

InitLocal == NewLocal

Result(s, l, out, end) == [shared |-> s, local |-> l, out |-> out, end |-> end]

OnSessionStarted(me, s, l) ==
  {Result([s EXCEPT !.phase = "Playing", !.totalRounds = TotalRounds,
                    !.round = IF Rps THEN 1 ELSE 0], l, << >>, FALSE)}

Finished(round, totalRounds, scores) ==
  \/ round >= totalRounds
  \/ Rps /\ \E p \in Participants : scores[p] >= (totalRounds \div 2) + 1

\* apply_completed_round: score in participant order, end or reset.
ApplyCompletedRound(s) ==
  LET v == s.cr.values
      scores == [p \in Participants |-> s.scores[p] + Points(v[p], v[1 - p])]
      round == IF Rps THEN s.round ELSE s.round + 1
      finished == Finished(round, s.totalRounds, scores)
  IN [state |-> [s EXCEPT !.scores = scores,
                          !.round = IF Rps /\ ~finished THEN round + 1 ELSE round,
                          !.cr = IF finished THEN @ ELSE Reset(@)],
      finished |-> finished]

\* queue_reveal_if_due, queue_setup_action
QueueRevealIfDue(me, s, l) ==
  LET due == RevealDue(s.cr, me, l) IN
  IF due = {} THEN {Result(s, l, << >>, FALSE)}
  ELSE {Result(s, r.local, <<r.msg>>, FALSE) : r \in due}

OnMessage(me, s, l, from, msg) ==
  IF ~IsNext(s.cr, from) THEN {}
  ELSE UNION {IF IsComplete(cr)
           THEN LET done == ApplyCompletedRound([s EXCEPT !.cr = cr])
                IN {Result(done.state, l, << >>, done.finished)}
           ELSE QueueRevealIfDue(me, [s EXCEPT !.cr = cr], l)
         : cr \in HandleCR(s.cr, from, msg)}

Callout(me, s, l) == IsNext(s.cr, me) /\ NeedsCommit(s.cr, l)

\* The salt is drawn by the Host: another one for every commit.
OnInput(me, s, l, choice) ==
  IF ~IsNext(s.cr, me) THEN {}
  ELSE {Result(s, r.local, <<r.msg>>, FALSE) :
          r \in CommitWithSalt(s.cr, l, choice, <<me, s.cr.round>>)}

INSTANCE ProgramSession

----------------------------------------------------------------------------
(* Properties *)

\* The scores are those of the game: recomputed from the choices revealed in
\* the agreed log, round by round, whoever computes them.
ScoresMatchTheLog ==
  \A p \in Participants : applied[p] = Len(log) =>
    LET Of(q) == SelectSeq(Tail(log), LAMBDA e : e.from = q /\ e.msg.kind = "Reveal")
        rounds == Len(Of(1))
        Won(q, pts) == {i \in 1..rounds :
                          Points(Of(q)[i].msg.value, Of(1 - q)[i].msg.value) = pts}
    IN \A q \in Participants :
         shared[p].scores[q] = Cardinality(Won(q, 1)) + 3 * Cardinality(Won(q, 3))
                                 + 5 * Cardinality(Won(q, 5))

\* Nobody's choice can be seen while another can still choose: a reveal is in
\* a queue or in the log only when every commit of its round is in the log.
ChoicesStaySealed ==
  LET commits == {i \in 2..Len(log) : log[i].msg.kind = "Commit"}
      sent(p) == {outgoing[p][i] : i \in DOMAIN outgoing[p]}
                   \cup {log[i].msg : i \in {j \in 2..Len(log) : log[j].from = p}}
  IN \A p \in Participants \ Faulty : \A m \in sent(p) :
       m.kind = "Reveal" => Cardinality(commits) >= 2 * (m.salt[2] + 1)

\* A participant reveals what it committed to in that round, a faulty one too.
RevealsMatchCommits ==
  LET Of(q, kind) == SelectSeq(Tail(log), LAMBDA e : e.from = q /\ e.msg.kind = kind)
  IN \A p \in Participants : \A i \in DOMAIN Of(p, "Reveal") :
       /\ i \in DOMAIN Of(p, "Commit")
       /\ Of(p, "Commit")[i].msg.hash =
            ComputeHash(Of(p, "Reveal")[i].msg.value, Of(p, "Reveal")[i].msg.salt)
=============================================================================
