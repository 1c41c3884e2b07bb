---------------------------- MODULE AgreedSession ----------------------------
(***************************************************************************)
(* What a session promises its participants, without actors, messages or   *)
(* signatures: one public trace that grows a step at a time and only when  *)
(* everybody stands at its end, participants at most one step behind it,   *)
(* and one conclusion, either a terminal last step or a stop after which   *)
(* the trace never grows.                                                  *)
(***************************************************************************)
EXTENDS Naturals, Sequences

CONSTANTS Participants, Entries

VARIABLES
  trace,      \* the agreed public trace
  position,   \* position[p]: how many of its steps p has certified
  ended,      \* ended[p]: p has concluded
  stopped     \* somebody stopped the session unilaterally

vars == <<trace, position, ended, stopped>>

Init ==
  /\ trace = <<>>
  /\ position = [p \in Participants |-> 0]
  /\ ended = [p \in Participants |-> FALSE]
  /\ stopped = FALSE

\* The last step of the trace is p's next one.
Install(p, entry) ==
  /\ ~ended[p]
  /\ position' = [position EXCEPT ![p] = @ + 1]
  /\ ended' = [ended EXCEPT ![p] = entry.terminal # "None"]
  /\ UNCHANGED stopped

\* p is the first to certify the next step.
Extend(p) ==
  /\ ~stopped
  /\ \A q \in Participants : position[q] = Len(trace) /\ ~ended[q]
  /\ Len(trace') = Len(trace) + 1
  /\ LET entry == trace'[Len(trace')] IN
     entry \in Entries /\ trace' = Append(trace, entry) /\ Install(p, entry)

CatchUp(p) ==
  /\ position[p] + 1 = Len(trace)
  /\ Install(p, trace[Len(trace)])
  /\ UNCHANGED trace

\* p stops, or adopts a stop, at the end of the trace.
Stop(p) ==
  /\ ~ended[p]
  /\ position[p] = Len(trace)
  /\ \A q \in Participants : ended[q] => stopped
  /\ stopped' = TRUE
  /\ ended' = [ended EXCEPT ![p] = TRUE]
  /\ UNCHANGED <<trace, position>>

Next == \E p \in Participants : Extend(p) \/ CatchUp(p) \/ Stop(p)

Spec == Init /\ [][Next]_vars

=============================================================================
