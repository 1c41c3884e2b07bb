---------------------------- MODULE CommitReveal ----------------------------
(***************************************************************************)
(* The commit-reveal primitive (arena0-primitives commit_reveal.rs): its   *)
(* shared state and the participant-local companion, as records, and its   *)
(* operations as operators. An operation that may fail returns the set of  *)
(* its results: empty when it returns an error.                            *)
(***************************************************************************)
EXTENDS Naturals

CONSTANT None

NewCommitReveal(n) ==
  [phase |-> "Idle", round |-> 0, hashes |-> [i \in 0..n-1 |-> None],
   values |-> [i \in 0..n-1 |-> None]]

NewLocal ==
  [value |-> None, salt |-> None, committedRound |-> None, revealedRound |-> None]

\* BLAKE3 of the value and the salt: one digest for each pair.
ComputeHash(value, salt) == <<"hash", value, salt>>

Commit(hash) == [kind |-> "Commit", hash |-> hash]
Reveal(value, salt) == [kind |-> "Reveal", value |-> value, salt |-> salt]

Missing(slots) == {i \in DOMAIN slots : slots[i] = None}

\* next_participant: the first missing slot of the phase.
IsNext(cr, p) ==
  LET open == CASE cr.phase = "Idle" -> Missing(cr.hashes)
                [] cr.phase = "Revealing" -> Missing(cr.values)
                [] OTHER -> {}
  IN p \in open /\ \A q \in open : p <= q

NeedsCommit(cr, loc) == cr.phase = "Idle" /\ loc.committedRound # cr.round

IsComplete(cr) == cr.phase = "Complete"

CommitWithSalt(cr, loc, value, salt) ==
  IF loc.committedRound = cr.round THEN {}
  ELSE {[local |-> [loc EXCEPT !.value = value, !.salt = salt,
                               !.committedRound = cr.round],
         msg |-> Commit(ComputeHash(value, salt))]}

HandleCommit(cr, p, hash) ==
  IF cr.phase # "Idle" \/ cr.hashes[p] # None THEN {}
  ELSE LET hashes == [cr.hashes EXCEPT ![p] = hash] IN
       {[cr EXCEPT !.hashes = hashes,
                   !.phase = IF Missing(hashes) = {} THEN "Revealing" ELSE @]}

HandleReveal(cr, p, value, salt) ==
  IF \/ cr.phase # "Revealing" \/ cr.values[p] # None
     \/ cr.hashes[p] # ComputeHash(value, salt) THEN {}
  ELSE LET values == [cr.values EXCEPT ![p] = value] IN
       {[cr EXCEPT !.values = values,
                   !.phase = IF Missing(values) = {} THEN "Complete" ELSE @]}

HandleCR(cr, p, msg) ==
  IF msg.kind = "Commit" THEN HandleCommit(cr, p, msg.hash)
  ELSE HandleReveal(cr, p, msg.value, msg.salt)

\* Once per round, when every commitment is in.
TakeReveal(cr, loc) ==
  IF \/ cr.phase # "Revealing" \/ loc.committedRound # cr.round
     \/ loc.revealedRound = cr.round THEN {}
  ELSE {[local |-> [loc EXCEPT !.revealedRound = cr.round],
         msg |-> Reveal(loc.value, loc.salt)]}

RevealOnceCommitted(cr, p, loc) ==
  IF cr.hashes[p] = None \/ loc.committedRound # cr.round \/ loc.revealedRound = cr.round
    THEN {}
    ELSE {[local |-> [loc EXCEPT !.revealedRound = cr.round],
           msg |-> Reveal(loc.value, loc.salt)]}

\* my_turn: the reveal that a participant owes as the next sender, if any.
RevealDue(cr, p, loc) == IF IsNext(cr, p) THEN TakeReveal(cr, loc) ELSE {}

\* my_turn: otherwise whether it owes a commit.
CommitDue(cr, p, loc) ==
  IsNext(cr, p) /\ TakeReveal(cr, loc) = {} /\ NeedsCommit(cr, loc)

\* The caller resets a complete round only.
ResetKeepsRound(cr) ==
  [cr EXCEPT !.phase = "Idle",
             !.hashes = [i \in DOMAIN @ |-> None], !.values = [i \in DOMAIN @ |-> None]]

Reset(cr) ==
  [cr EXCEPT !.phase = "Idle", !.round = @ + 1,
             !.hashes = [i \in DOMAIN @ |-> None], !.values = [i \in DOMAIN @ |-> None]]
=============================================================================
