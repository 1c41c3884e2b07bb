-------------------------------- MODULE Chess -------------------------------
(***************************************************************************)
(* The chess program (programs/chess) with the TurnManager primitive. The  *)
(* rules of chess are a library's: a board is what the program reads of    *)
(* it, the side to move, the half-move clock, whether the side to move has *)
(* a move and is in check, and the material.                               *)
(***************************************************************************)
EXTENDS Naturals, Sequences, FiniteSets

CONSTANTS
  None,
  DrawClock,      \* half-moves without progress that draw the game: 100
  Illegal,        \* an answer that is not a legal move
  Faulty, MaxStrays

ChessAssumption == DrawClock \in Nat \ {0} /\ MaxStrays \in Nat

VARIABLES log, applied, frozen, shared, local, outgoing, ended, strayed

Participants == {0, 1}
White == 0
Black == 1

----------------------------------------------------------------------------
(* The board, an abstraction of cozy_chess: a side has its king, perhaps a *)
(* major and a minor piece.                                                *)

StartBoard ==
  [side |-> White, clock |-> 0, stuck |-> FALSE, check |-> FALSE,
   men |-> [p \in Participants |-> {"king", "minor", "major"}]]

MoveKinds == {"quiet", "check", "mate", "stalemate", "takeMinor", "takeMajor"}

LegalMoves(b) ==
  IF b.stuck THEN {}
  ELSE {"quiet", "check", "mate", "stalemate"}
       \cup (IF "minor" \in b.men[1 - b.side] THEN {"takeMinor"} ELSE {})
       \cup (IF "major" \in b.men[1 - b.side] THEN {"takeMajor"} ELSE {})

PlayMove(b, m) ==
  LET taken == CASE m = "takeMinor" -> {"minor"} [] m = "takeMajor" -> {"major"} [] OTHER -> {}
  IN [side |-> 1 - b.side,
      clock |-> IF taken = {} THEN b.clock + 1 ELSE 0,
      stuck |-> m \in {"mate", "stalemate"},
      check |-> m \in {"check", "mate"},
      men |-> [b.men EXCEPT ![1 - b.side] = @ \ taken]]

----------------------------------------------------------------------------

InsufficientMaterial(b) ==
  \/ \A p \in Participants : Cardinality(b.men[p]) = 1
  \/ \E p \in Participants :
       b.men[p] = {"king", "minor"} /\ Cardinality(b.men[1 - p]) = 1

\* Status::compute: mate and stalemate come before the draws.
Status(b) ==
  CASE LegalMoves(b) = {} /\ b.check ->
         IF b.side = White THEN "BlackWins" ELSE "WhiteWins"
    [] LegalMoves(b) = {} /\ ~b.check -> "Stalemate"
    [] LegalMoves(b) # {} /\ b.clock >= DrawClock -> "DrawBy50MoveRule"
    [] LegalMoves(b) # {} /\ b.clock < DrawClock /\ InsufficientMaterial(b) ->
         "DrawByInsufficientMaterial"
    [] OTHER -> "InProgress"

InitShared == [phase |-> "Setup", turn |-> None, board |-> None, status |-> "InProgress",
               history |-> << >>]

InitLocal == [movePending |-> FALSE]

Result(s, l, out, end) == [shared |-> s, local |-> l, out |-> out, end |-> end]

OnSessionStarted(me, s, l) ==
  {Result([phase |-> "Playing", turn |-> White, board |-> StartBoard,
           status |-> Status(StartBoard), history |-> << >>], l, << >>, FALSE)}

NextSender(s) ==
  IF s.phase # "Playing" \/ s.status # "InProgress" THEN None ELSE s.turn

\* validate_move
ValidMove(s, m) ==
  s.phase = "Playing" /\ s.status = "InProgress" /\ m \in LegalMoves(s.board)

Answers == MoveKinds \cup {Illegal}
Strays == Answers

Callout(me, s, l) == NextSender(s) = me /\ ~l.movePending

OnInput(me, s, l, m) ==
  IF NextSender(s) # me \/ ~ValidMove(s, m) THEN {}
  ELSE {Result(s, [l EXCEPT !.movePending = TRUE], <<m>>, FALSE)}

\* on_message with apply_move: the move, the status and the next turn.
OnMessage(me, s, l, from, m) ==
  IF NextSender(s) # from \/ ~ValidMove(s, m) THEN {}
  ELSE LET board == PlayMove(s.board, m)
           t == [s EXCEPT !.board = board, !.status = Status(board),
                          !.history = Append(@, m), !.turn = 1 - @]
       IN {Result(t, [l EXCEPT !.movePending = FALSE], << >>, t.status # "InProgress")}

INSTANCE ProgramSession

----------------------------------------------------------------------------

\* The program's turn and the board's side to move never part, and each move
\* of the agreed game was made by the side that had the move, an ill-behaved
\* participant's moves included.
MoversAlternate ==
  \A p \in Participants :
    /\ shared[p].board # None => shared[p].turn = shared[p].board.side
    /\ \A i \in 2..Len(log) : i <= applied[p] => log[i].from = i % 2

\* The outcome is the one that the rules give the final board: a game that is
\* mate is won even when the move that mates also exhausts the clock, and the
\* winner moved last.
WonGamesWereMated ==
  \A p \in Participants : ended[p] =>
    LET last == log[applied[p]] IN
    /\ last.msg = "mate" <=> shared[p].status \in {"WhiteWins", "BlackWins"}
    /\ shared[p].status = "WhiteWins" => last.from = White
    /\ shared[p].status = "BlackWins" => last.from = Black
=============================================================================
