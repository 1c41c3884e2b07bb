--------------------------- MODULE ProgramSession ---------------------------
(***************************************************************************)
(* One program run by the Hosts of an ensemble, on top of what the module  *)
(* Execution establishes: agreed events form one log that every Host       *)
(* applies in order, each to its own replica of the shared state and its   *)
(* own local state (arena0-node execution/guest.rs, arena0-sdk program.rs).*)
(*                                                                         *)
(* A handler is an operator that returns the set of its possible results,  *)
(* several where it draws randomness, none where it rejects or faults: a   *)
(* fault of on_message traps, and the Host takes a trapped message for a   *)
(* rejected one, which restores both states and discards the effects. A    *)
(* result is                                                               *)
(*   [shared, local, out, end]: the states, the messages broadcast, and    *)
(* whether the session ends.                                               *)
(*                                                                         *)
(* A Host that has applied an event is frozen until every Host has signed  *)
(* it: it takes no answer and authors nothing.                             *)
(***************************************************************************)
EXTENDS Naturals, Sequences

CONSTANTS
  None,
  Participants,                     \* 0 .. n-1, in ensemble order
  InitShared, InitLocal,
  OnSessionStarted(_, _, _),        \* me, shared, local
  OnMessage(_, _, _, _, _),         \* me, shared, local, from, msg
  Callout(_, _, _),                 \* me, shared, local: a question is open
  OnInput(_, _, _, _),              \* me, shared, local, answer
  Answers,
  Faulty,         \* participants whose program sends messages of its own
  Strays,         \* those messages
  MaxStrays       \* and how many of them (bound of the model)

VARIABLES
  log,        \* agreed events; the first is SessionStarted
  applied,    \* how many of them each Host has applied
  frozen,     \* Hosts whose last step is not certified yet
  shared, local, outgoing,
  ended,      \* each Host has applied the event that ends the session
  strayed     \* stray messages so far

vars == <<log, applied, frozen, shared, local, outgoing, ended, strayed>>

Started == [from |-> None, msg |-> None]

\* The results of handling the event at the given position.
Handle(p, e) ==
  IF e.from = None THEN OnSessionStarted(p, shared[p], local[p])
  ELSE OnMessage(p, shared[p], local[p], e.from, e.msg)

Init ==
  /\ log = <<Started>>
  /\ applied = [p \in Participants |-> 0]
  /\ frozen = {}
  /\ shared = [p \in Participants |-> InitShared]
  /\ local = [p \in Participants |-> InitLocal]
  /\ outgoing = [p \in Participants |-> << >>]
  /\ ended = [p \in Participants |-> FALSE]
  /\ strayed = 0

\* apply_message, ensure_session_started: dispatch the next agreed event.
Apply(p) ==
  /\ applied[p] < Len(log) /\ p \notin frozen
  /\ \E r \in Handle(p, log[applied[p] + 1]) :
       /\ shared' = [shared EXCEPT ![p] = r.shared]
       /\ local' = [local EXCEPT ![p] = r.local]
       /\ outgoing' = [outgoing EXCEPT ![p] =
            (IF log[applied[p] + 1].from = p THEN Tail(@) ELSE @) \o r.out]
       /\ ended' = [ended EXCEPT ![p] = r.end]
  /\ applied' = [applied EXCEPT ![p] = @ + 1]
  /\ frozen' = frozen \cup {p}
  /\ UNCHANGED <<log, strayed>>

\* The certificate of the step arrives.
Certify(p) ==
  /\ p \in frozen /\ \A q \in Participants : applied[q] >= applied[p]
  /\ frozen' = frozen \ {p}
  /\ UNCHANGED <<log, applied, shared, local, outgoing, ended, strayed>>

MayAuthor(p) ==
  /\ ~ended[p] /\ p \notin frozen /\ applied[p] = Len(log) /\ outgoing[p] # << >>

Accepts(p) ==
  Handle(p, [from |-> p, msg |-> Head(outgoing[p])]) # {}

\* The oldest queued message becomes the next agreed event, if its author's
\* own program accepts it; otherwise it is removed from the queue.
AuthorNext(p) ==
  /\ MayAuthor(p) /\ Accepts(p)
  /\ log' = Append(log, [from |-> p, msg |-> Head(outgoing[p])])
  /\ UNCHANGED <<applied, frozen, shared, local, outgoing, ended, strayed>>

DropRejected(p) ==
  /\ MayAuthor(p) /\ ~Accepts(p)
  /\ outgoing' = [outgoing EXCEPT ![p] = Tail(@)]
  /\ UNCHANGED <<log, applied, frozen, shared, local, ended, strayed>>

\* An agent answers the open callout.
SubmitInput(p) ==
  /\ ~ended[p] /\ p \notin frozen /\ applied[p] > 0
  /\ Callout(p, shared[p], local[p])
  /\ \E a \in Answers : \E r \in OnInput(p, shared[p], local[p], a) :
       /\ local' = [local EXCEPT ![p] = r.local]
       /\ outgoing' = [outgoing EXCEPT ![p] = @ \o r.out]
  /\ UNCHANGED <<log, applied, frozen, shared, ended, strayed>>

Stray(p) ==
  /\ p \in Faulty /\ strayed < MaxStrays /\ ~ended[p]
  /\ \E m \in Strays : outgoing' = [outgoing EXCEPT ![p] = Append(@, m)]
  /\ strayed' = strayed + 1
  /\ UNCHANGED <<log, applied, frozen, shared, local, ended>>

Next == \E p \in Participants :
  Apply(p) \/ Certify(p) \/ AuthorNext(p) \/ DropRejected(p) \/ SubmitInput(p) \/ Stray(p)

Spec == Init /\ [][Next]_vars

\* What Hosts and agents owe: Hosts keep working, agents answer.
Work == \E p \in Participants :
  Apply(p) \/ Certify(p) \/ AuthorNext(p) \/ DropRejected(p) \/ SubmitInput(p)

FairSpec == Spec /\ WF_vars(Work)

----------------------------------------------------------------------------

TypeOK ==
  /\ applied \in [Participants -> 0..Len(log)]
  /\ frozen \subseteq Participants
  /\ ended \in [Participants -> BOOLEAN]
  /\ strayed \in 0..MaxStrays
  /\ \A i \in 2..Len(log) : log[i].from \in Participants
  /\ DOMAIN shared = Participants /\ DOMAIN local = Participants
  /\ DOMAIN outgoing = Participants

\* Hosts that have applied as many events have the same shared state: no
\* handler writes what only it knows, its own index, its local state or the
\* randomness it draws, into the shared state.
ReplicasAgree ==
  \A p, q \in Participants :
    applied[p] = applied[q] => shared[p] = shared[q] /\ ended[p] = ended[q]

\* What its author accepted, every Host accepts: an agreed event never leaves
\* a Host behind.
NobodyIsLeftBehind ==
  \A p \in Participants : applied[p] < Len(log) /\ p \notin frozen =>
    Handle(p, log[applied[p] + 1]) # {}

\* The sender-order rule: two Hosts never propose different events for the
\* same position, so the program alone never causes a conflict between
\* proposals.
OneAuthor ==
  \A p, q \in Participants :
    (MayAuthor(p) /\ MayAuthor(q) /\ p # q) => ~(Accepts(p) /\ Accepts(q))

=============================================================================
