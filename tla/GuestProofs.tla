---------------------------- MODULE GuestProofs -----------------------------
(***************************************************************************)
(* Isolation of the guest, for any glue, memory size, limits and number of *)
(* dispatches and faults. What the properties say of the moment between    *)
(* two dispatches, or of the entry of one, depends on what a dispatch may  *)
(* have done in between, so the invariant follows a dispatch through its   *)
(* stages: which images are in memory, which effects are still queued, and *)
(* that until it is persisted the checkpoint is the actor's state.         *)
(***************************************************************************)
EXTENDS GuestInstance, FiniteSetTheorems, SequenceTheorems, TLAPS

\* A row within its limits, and a staged step that certification may install.
RowHolds(s) ==
    /\ s \in Rows
    /\ s.sh <= SharedMax /\ s.lo <= Capacity
    /\ s.pos <= MaxEvents /\ s.step <= s.pos
    /\ s.out <= MaxOutgoing /\ s.direct <= MaxDirect
    /\ s.pend # None =>
          /\ s.pos < MaxEvents
          /\ s.pend.sh <= SharedMax /\ s.pend.lo <= Capacity /\ s.pend.out <= MaxOutgoing

\* The instance has these images in memory.
Loaded(i, images) == i.sh = Frame(images.sh) /\ i.lo = Frame(images.lo)

\* A resident that no dispatch has entered.
Rested(i, s) ==
    /\ i \in Instances /\ i.scope.calls <= MaxCalls
    /\ i.ckpt = Images(s) /\ Loaded(i, Images(s))
    /\ i.scope.queue = <<>>

\* The images in memory at the stages of a dispatch.
MemoryHolds(c, i, s) ==
    /\ c.stage = "handler" => Loaded(i, Images(s))
    /\ c.stage # "handler" =>
          c.cand \in [sh : Nat, lo : Nat] /\ c.cand.sh <= SharedMax /\ c.cand.lo <= Capacity
    /\ c.stage = "storing" => Loaded(i, [sh |-> c.cand.sh, lo |-> s.lo])
    /\ c.stage \in {"stored", "result", "persisting"} => Loaded(i, c.cand)

\* The effects of a dispatch, queued or taken.
Taken(c, i) == IF c.stage \in {"result", "persisting"} THEN c.effects ELSE i.scope.queue

EffectsHold(c, i, s) ==
    /\ Taken(c, i) = c.emitted
    /\ c.stage \in {"result", "persisting"} => i.scope.queue = <<>>
    /\ c.ev \in Local =>
          /\ s.out + Count(c.emitted, {"broadcast"}) <= MaxOutgoing
          /\ s.direct + Count(c.emitted, {"send_direct"}) <= MaxDirect

\* The scope of a handler: its own event, and clean until its first call.
ScopeHolds(c, i, s) ==
    c.stage = "handler" =>
        /\ i.scope.kind = c.ev /\ (i.scope.signer <=> c.ev \in Local)
        /\ i.scope.attachment => c.ev = "direct"
        /\ c.ev \in Local => i.scope.outgoing = s.out /\ i.scope.direct = s.direct
        /\ i.scope.calls = 0 =>
              i.work = "baseline" /\ i.scope.queue = <<>> /\ i.scope.ordinal = 0

\* What a dispatch signed so far has one payload an ordinal.
SignsHold(c, i) ==
    /\ c.signed # {} => c.ev \in Local
    /\ \A x \in c.signed : x.at < i.scope.ordinal
    /\ \A x, y \in c.signed : x.at = y.at => x.payload = y.payload

\* The row that a dispatch is about to persist.
NextHolds(c, i, s) ==
    c.stage = "persisting" =>
        /\ RowHolds(c.next)
        /\ c.ev \in Local => /\ c.next.pend = None /\ Images(c.next) = c.cand
                             /\ c.next.sh = s.sh /\ c.next.pos = s.pos + 1
        /\ c.ev \notin Local => /\ c.next.pend # None
                                /\ c.cand = Images(c.next.pend)
                                /\ Images(c.next) = Images(s) /\ c.next.pos = s.pos

CallHolds(c, i, s) ==
    /\ c \in Calls
    /\ i \in Instances /\ i.scope.calls <= MaxCalls /\ i.ckpt = Images(s)
    /\ s.status = "active" /\ s.pend = None /\ s.pos < MaxEvents
    /\ c.ev = "own" => s.out > 0
    /\ MemoryHolds(c, i, s) /\ EffectsHold(c, i, s) /\ ScopeHolds(c, i, s)
    /\ SignsHold(c, i) /\ NextHolds(c, i, s)

\* The committed signatures are of positions that are taken.
ReleasedHolds ==
    /\ released \subseteq [pos : Nat, at : Nat, payload : Payloads]
    /\ \A x \in released : x.pos < state.pos
    /\ SignaturesUnique

ImagesHold == agreed \subseteq 0..SharedMax /\ state.sh \in agreed /\ (shown # None => shown \in agreed)

Inv ==
    /\ durable = state /\ RowHolds(state)
    /\ up \in BOOLEAN /\ faults \in 0..MaxFaults
    /\ inst # None => up
    /\ call = None => inst = None \/ Rested(inst, state)
    /\ call # None => inst # None /\ CallHolds(call, inst, state)
    /\ ReleasedHolds /\ ImagesHold

-----------------------------------------------------------------------------
(* Types.                                                                   *)

LEMMA RowFields ==
    ASSUME NEW s \in Rows
    PROVE  /\ s.sh \in Nat /\ s.lo \in Nat /\ s.pos \in Nat /\ s.step \in Nat
           /\ s.out \in Nat /\ s.direct \in Nat /\ s.pend \in Staged \cup {None}
           /\ s.status \in {"active", "ended"}
           /\ Images(s) \in [sh : Nat, lo : Nat]
           /\ Images(s).sh = s.sh /\ Images(s).lo = s.lo
BY DEF Rows, Images

LEMMA StagedFields ==
    ASSUME NEW p \in Staged
    PROVE  p.sh \in Nat /\ p.lo \in Nat /\ p.out \in Nat /\ p.ends \in BOOLEAN
BY DEF Staged

LEMMA InstanceFields ==
    ASSUME NEW i \in Instances
    PROVE  /\ i.sh \in [len : Nat, top : Nat] /\ i.lo \in [len : Nat, top : Nat]
           /\ i.work \in {"baseline", "used"} /\ i.ckpt \in [sh : Nat, lo : Nat]
           /\ i.scope \in Scopes /\ i.scope.queue \in Seq(Effects)
           /\ i.scope.calls \in Nat /\ i.scope.ordinal \in Nat
           /\ i.scope.outgoing \in Nat /\ i.scope.direct \in Nat
BY DEF Instances, Scopes

\* A scope keeps everything but its queue when an effect is put on it.
LEMMA QueueFields ==
    ASSUME NEW s \in Scopes, NEW queue \in Seq(Effects)
    PROVE  LET sc == [s EXCEPT !.queue = queue] IN
           /\ sc \in Scopes /\ sc.calls = s.calls /\ sc.queue = queue
           /\ sc.kind = s.kind /\ sc.ordinal = s.ordinal
           /\ sc.signer = s.signer /\ sc.attachment = s.attachment
           /\ sc.outgoing = s.outgoing /\ sc.direct = s.direct
BY DEF Scopes

\* And everything but its ordinal when a signature takes one.
LEMMA OrdinalFields ==
    ASSUME NEW s \in Scopes, NEW n \in Nat
    PROVE  LET sc == [s EXCEPT !.ordinal = n] IN
           /\ sc \in Scopes /\ sc.calls = s.calls /\ sc.ordinal = n
           /\ sc.kind = s.kind /\ sc.queue = s.queue
           /\ sc.signer = s.signer /\ sc.attachment = s.attachment
           /\ sc.outgoing = s.outgoing /\ sc.direct = s.direct
BY DEF Scopes

LEMMA CallFields ==
    ASSUME NEW c \in Calls
    PROVE  /\ c.ev \in Events
           /\ c.stage \in {"handler", "storing", "stored", "result", "persisting"}
           /\ c.emitted \in Seq(Effects) /\ c.effects \in Seq(Effects)
           /\ c.signed \in SUBSET [at : Nat, payload : Payloads]
BY DEF Calls

LEMMA FrameFields ==
    ASSUME NEW n \in Nat
    PROVE  /\ Frame(n) \in [len : Nat, top : Nat]
           /\ Frame(n).len = n /\ Frame(n).top = n
           /\ \A m \in Nat : WriteFrame(Frame(m), n) = Frame(n)
BY DEF Frame, WriteFrame

-----------------------------------------------------------------------------
(* Counting effects.                                                        *)

LEMMA CountFacts ==
    ASSUME NEW q \in Seq(Effects), NEW S
    PROVE  /\ Count(q, S) \in Nat
           /\ q = <<>> => Count(q, S) = 0
           /\ \A e \in Effects :
                Count(Append(q, e), S) = IF e \in S THEN Count(q, S) + 1 ELSE Count(q, S)
<1> DEFINE M == {i \in DOMAIN q : q[i] \in S}
<1>1. Len(q) \in Nat /\ DOMAIN q = 1..Len(q)
  OBVIOUS
<1>2. IsFiniteSet(M)
  <2>1. IsFiniteSet(1..Len(q))
    BY <1>1, FS_Interval
  <2> QED  BY <1>1, <2>1, FS_Subset
<1>3. Cardinality(M) \in Nat
  BY <1>2, FS_CardinalityType
<1>4. ASSUME q = <<>> PROVE Cardinality(M) = 0
  <2>1. M = {}
    BY <1>4
  <2> QED  BY <2>1, FS_EmptySet
<1>5. ASSUME NEW e \in Effects
      PROVE  Count(Append(q, e), S) = IF e \in S THEN Count(q, S) + 1 ELSE Count(q, S)
  <2> DEFINE r == Append(q, e)
             N == {i \in DOMAIN r : r[i] \in S}
  <2>1. /\ DOMAIN r = 1..(Len(q) + 1)
        /\ \A i \in 1..Len(q) : r[i] = q[i]
        /\ r[Len(q) + 1] = e
    BY <1>5, AppendProperties
  <2> HIDE DEF r
  <2>2. 1..(Len(q) + 1) = (1..Len(q)) \cup {Len(q) + 1}
    BY <1>1
  <2>3. CASE e \in S
    <3>1. N = M \cup {Len(q) + 1}
      BY <1>1, <2>1, <2>2, <2>3
    <3>2. Len(q) + 1 \notin M
      BY <1>1
    <3>3. Cardinality(N) = Cardinality(M) + 1
      BY <1>2, <3>1, <3>2, FS_AddElement
    <3> QED  BY <2>3, <3>3 DEF Count, r
  <2>4. CASE e \notin S
    <3>1. N = M
      BY <1>1, <2>1, <2>2, <2>4
    <3> QED  BY <2>4, <3>1 DEF Count, r
  <2> QED  BY <2>3, <2>4
<1> QED  BY <1>3, <1>4, <1>5 DEF Count

-----------------------------------------------------------------------------
(* The instance.                                                            *)

LEMMA ResidentFacts ==
    ASSUME BoundsAssumption, NoneAssumption, NEW s, RowHolds(s)
    PROVE  Resident(s) # None /\ Rested(Resident(s), s)
<1>1. s \in Rows
  BY DEF RowHolds
<1>2. Frame(s.sh) \in [len : Nat, top : Nat] /\ Frame(s.lo) \in [len : Nat, top : Nat]
  BY <1>1, RowFields, FrameFields
<1>3. NewScope(None) \in Scopes /\ NewScope(None).calls = 0 /\ NewScope(None).queue = <<>>
  BY DEF NewScope, Scopes
<1>4. Images(s) \in [sh : Nat, lo : Nat] /\ Images(s).sh = s.sh /\ Images(s).lo = s.lo
  BY <1>1, RowFields
<1>5. Resident(s) \in Instances
  BY <1>2, <1>3, <1>4 DEF Resident, Instances
<1>6. /\ Resident(s).ckpt = Images(s) /\ Resident(s).scope = NewScope(None)
      /\ Resident(s).sh = Frame(s.sh) /\ Resident(s).lo = Frame(s.lo)
  BY DEF Resident
<1> QED
  BY <1>3, <1>4, <1>5, <1>6 DEF Rested, Loaded, NoneAssumption, BoundsAssumption

LEMMA RestoreFacts ==
    ASSUME NEW i \in Instances
    PROVE  /\ RestoreCommitted(i) \in Instances
           /\ RestoreCommitted(i).ckpt = i.ckpt /\ RestoreCommitted(i).scope = i.scope
           /\ Loaded(RestoreCommitted(i), i.ckpt)
<1>1. Frame(i.ckpt.sh) \in [len : Nat, top : Nat] /\ Frame(i.ckpt.lo) \in [len : Nat, top : Nat]
  BY InstanceFields, FrameFields
<1> QED
  BY <1>1 DEF RestoreCommitted, Instances, Loaded

LEMMA DiscardRests ==
    ASSUME NEW i \in Instances, NEW s, i.ckpt = Images(s), i.scope.queue = <<>>,
           i.scope.calls <= MaxCalls
    PROVE  Rested(RestoreCommitted(i), s)
BY RestoreFacts DEF Rested

LEMMA RollbackRests ==
    ASSUME BoundsAssumption, NEW i \in Instances, NEW s, i.ckpt = Images(s)
    PROVE  Rested(RestoreCommitted(Rollback(i)), s)
<1> DEFINE j == RestoreCommitted(i)
<1>1. j \in Instances /\ j.ckpt = Images(s)
  BY RestoreFacts
<1>2. /\ NewScope(i.scope) \in Scopes
      /\ NewScope(i.scope).calls = 0 /\ NewScope(i.scope).queue = <<>>
  BY DEF NewScope, Scopes
<1> HIDE DEF j
<1>3. LET k == [j EXCEPT !.scope = NewScope(i.scope)] IN
      k \in Instances /\ k.ckpt = Images(s) /\ k.scope = NewScope(i.scope)
  BY <1>1, <1>2 DEF Instances
<1>4. LET k == Rollback(i) IN
      k \in Instances /\ k.ckpt = Images(s) /\ k.scope = NewScope(i.scope)
  BY <1>3 DEF Rollback, j
<1>5. MaxCalls \in Nat
  BY DEF BoundsAssumption
<1> QED
  BY <1>2, <1>4, <1>5, DiscardRests

LEMMA ChargedFacts ==
    ASSUME NEW i \in Instances
    PROVE  LET j == Charged(i) IN
           /\ j \in Instances /\ j.ckpt = i.ckpt /\ j.sh = i.sh /\ j.lo = i.lo
           /\ j.scope.calls = i.scope.calls + 1 /\ j.scope.queue = i.scope.queue
           /\ j.scope.kind = i.scope.kind /\ j.scope.ordinal = i.scope.ordinal
           /\ j.scope.signer = i.scope.signer /\ j.scope.attachment = i.scope.attachment
           /\ j.scope.outgoing = i.scope.outgoing /\ j.scope.direct = i.scope.direct
<1> DEFINE sc == [i.scope EXCEPT !.calls = @ + 1]
<1>1. i.scope \in Scopes
  BY InstanceFields
<1>2. /\ sc \in Scopes /\ sc.calls = i.scope.calls + 1 /\ sc.queue = i.scope.queue
      /\ sc.kind = i.scope.kind /\ sc.ordinal = i.scope.ordinal
      /\ sc.signer = i.scope.signer /\ sc.attachment = i.scope.attachment
      /\ sc.outgoing = i.scope.outgoing /\ sc.direct = i.scope.direct
  BY <1>1 DEF Scopes
<1>3. Charged(i) = [i EXCEPT !.scope = sc, !.work = "used"]
  BY DEF Charged, Instances
<1> HIDE DEF sc
<1>4. LET j == Charged(i) IN
      j \in Instances /\ j.ckpt = i.ckpt /\ j.sh = i.sh /\ j.lo = i.lo /\ j.scope = sc
  BY <1>2, <1>3 DEF Instances
<1> QED
  BY <1>2, <1>4

-----------------------------------------------------------------------------
(* Steps between dispatches and steps of a dispatch.                        *)

\* A step after which no dispatch is in progress.
LEMMA StepRests ==
    ASSUME Inv, durable' = state', RowHolds(state'), up' \in BOOLEAN, faults' \in 0..MaxFaults,
           call' = None, inst' = None \/ (up' /\ Rested(inst', state')),
           ReleasedHolds', ImagesHold'
    PROVE  Inv'
BY DEF Inv

\* A step of the handler or of its host calls.
LEMMA StepWorks ==
    ASSUME Inv, up, UNCHANGED <<durable, state, up, faults, history, shown>>,
           call' # None, inst' # None, CallHolds(call', inst', state)
    PROVE  Inv'
<1>1. ReleasedHolds' /\ ImagesHold'
  BY DEF Inv, ReleasedHolds, ImagesHold, SignaturesUnique, history
<1>2. CallHolds(call', inst', state')
  OBVIOUS
<1> QED
  BY <1>1, <1>2 DEF Inv

\* Later positions leave the released signatures apart.
LEMMA ReleasedStay ==
    ASSUME Inv, released' = released, state' \in Rows, state'.pos >= state.pos
    PROVE  ReleasedHolds'
<1>1. state.pos \in Nat /\ state'.pos \in Nat
  BY RowFields DEF Inv, RowHolds
<1>2. ReleasedHolds
  BY DEF Inv
<1>3. \A x \in released' : x.pos < state'.pos
  BY <1>1, <1>2 DEF ReleasedHolds
<1> QED
  BY <1>2, <1>3 DEF ReleasedHolds, SignaturesUnique

LEMMA ImagesStay ==
    ASSUME Inv, UNCHANGED <<agreed, shown>>, state'.sh = state.sh
    PROVE  ImagesHold'
BY DEF Inv, ImagesHold

LEMMA InitHolds == BoundsAssumption /\ Init => Inv
<1> SUFFICES ASSUME BoundsAssumption, Init PROVE Inv
  OBVIOUS
<1>1. state \in Rows
  BY DEF Init, Rows
<1>2. state.sh = 1 /\ state.lo = 0 /\ state.pos = 0 /\ state.step = 0 /\ state.out = 0
      /\ state.direct = 0 /\ state.pend = None
  BY DEF Init
<1>3. RowHolds(state)
  BY <1>1, <1>2 DEF RowHolds, BoundsAssumption
<1>4. ReleasedHolds
  BY DEF Init, ReleasedHolds, SignaturesUnique
<1>5. ImagesHold
  BY <1>2 DEF Init, ImagesHold, BoundsAssumption
<1>6. faults \in 0..MaxFaults
  BY DEF Init, BoundsAssumption
<1>7. up \in BOOLEAN /\ inst = None /\ call = None /\ durable = state
  BY DEF Init
<1> QED
  BY <1>3, <1>4, <1>5, <1>6, <1>7 DEF Inv

-----------------------------------------------------------------------------
(* Starting, dying and what happens between dispatches.                     *)

LEMMA RecoverKeeps ==
    ASSUME BoundsAssumption, NoneAssumption, Inv, Recover
    PROVE  Inv'
<1>1. state' = state /\ durable' = state' /\ RowHolds(state') /\ call = None
  BY DEF Inv, Recover
<1>2. Rested(inst', state')
  BY <1>1, ResidentFacts DEF Inv, Recover
<1>3. ReleasedHolds' /\ ImagesHold'
  BY <1>1 DEF Recover, Inv, history, ReleasedHolds, ImagesHold, SignaturesUnique
<1> QED
  BY <1>1, <1>2, <1>3, StepRests DEF Recover, Inv

LEMMA CrashKeeps ==
    ASSUME BoundsAssumption, Inv, Crash
    PROVE  Inv'
<1>1. state' = state /\ durable' = state' /\ RowHolds(state')
  BY DEF Inv, Crash
<1>2. ReleasedHolds' /\ ImagesHold'
  BY <1>1 DEF Crash, Inv, history, ReleasedHolds, ImagesHold, SignaturesUnique
<1>3. faults' \in 0..MaxFaults
  BY DEF Crash, Inv, BoundsAssumption
<1> QED
  BY <1>1, <1>2, <1>3, StepRests DEF Crash

LEMMA ProjectKeeps ==
    ASSUME Inv, Project
    PROVE  Inv'
<1>1. UNCHANGED <<durable, state, inst, call, up, faults, released, agreed>>
  BY DEF Project, history
<1>2. ReleasedHolds'
  BY <1>1 DEF Inv, ReleasedHolds, SignaturesUnique
<1>3. ImagesHold'
  BY <1>1 DEF Inv, ImagesHold, Project, Projected
<1> QED
  BY <1>1, <1>2, <1>3, StepRests DEF Inv, Project

LEMMA DeliveredKeeps ==
    ASSUME BoundsAssumption, Inv, Delivered
    PROVE  Inv'
<1>1. state \in Rows /\ state.direct > 0
  BY DEF Inv, RowHolds, Delivered
<1>2. /\ state' \in Rows /\ state'.direct = state.direct - 1
      /\ state'.sh = state.sh /\ state'.lo = state.lo /\ state'.pos = state.pos
      /\ state'.step = state.step /\ state'.out = state.out /\ state'.pend = state.pend
  BY <1>1 DEF Delivered, Rows
<1>3. RowHolds(state')
  BY <1>1, <1>2, RowFields DEF Inv, RowHolds, BoundsAssumption
<1>4. Images(state') = Images(state)
  BY <1>2 DEF Images
<1>5. inst' = None \/ (up' /\ Rested(inst', state'))
  BY <1>4 DEF Delivered, Inv, Rested
<1>6. ReleasedHolds'
  BY <1>1, <1>2, RowFields, ReleasedStay DEF Delivered, history
<1>7. ImagesHold'
  BY <1>2, ImagesStay DEF Delivered, history
<1> QED
  BY <1>3, <1>5, <1>6, <1>7, StepRests DEF Delivered, Inv

LEMMA CertifyKeeps ==
    ASSUME BoundsAssumption, Inv, Certify
    PROVE  Inv'
<1> DEFINE p == state.pend
           status == IF p.ends THEN "ended" ELSE "active"
<1>1. state \in Rows /\ p \in Staged /\ RowHolds(state)
  BY RowFields DEF Inv, RowHolds, Certify
<1>2. p.sh \in Nat /\ p.lo \in Nat /\ p.out \in Nat /\ p.ends \in BOOLEAN
  BY <1>1, StagedFields
<1>3. state.pos \in Nat /\ state.step \in Nat
  BY <1>1, RowFields
<1>4. state' = [state EXCEPT !.sh = p.sh, !.lo = p.lo, !.out = p.out, !.pend = None,
                             !.pos = state.pos + 1, !.step = state.step + 1,
                             !.status = status]
  BY <1>1 DEF Certify, Rows
<1>5. p # None
  BY DEF Certify
<1> HIDE DEF p
<1>6. status \in {"active", "ended"}
  OBVIOUS
<1>7. state.pos + 1 \in Nat /\ state.step + 1 \in Nat
  BY <1>3
<1> HIDE DEF status
<1>8. /\ state' \in Rows /\ state'.direct = state.direct /\ state'.sh = p.sh /\ state'.lo = p.lo
      /\ state'.pos = state.pos + 1 /\ state'.step = state.step + 1 /\ state'.out = p.out
      /\ state'.pend = None
  BY <1>1, <1>2, <1>4, <1>6, <1>7 DEF Rows
<1>9. RowHolds(state')
  <2>1. p.sh <= SharedMax /\ p.lo <= Capacity /\ p.out <= MaxOutgoing
        /\ state.pos < MaxEvents /\ state.step <= state.pos /\ state.direct <= MaxDirect
    BY <1>1, <1>5 DEF RowHolds, p
  <2> QED  BY <1>3, <1>8, <2>1 DEF RowHolds, BoundsAssumption
<1>10. inst' = None \/ (up' /\ Rested(inst', state'))
  <2>1. inst = None \/ (up /\ Rested(inst, state))
    BY DEF Inv, Certify
  <2>2. inst' = ReloadResident(inst, state') /\ up' = up
    BY <1>4 DEF Certify, p
  <2>3. CASE inst # None
    <3>1. inst' = RestorePayloads(inst, state')
      BY <2>2, <2>3 DEF ReloadResident
    <3>2. Images(state') \in [sh : Nat, lo : Nat] /\ Images(state').sh = state'.sh
          /\ Images(state').lo = state'.lo
      BY <1>8, RowFields
    <3>3. Frame(state'.sh) \in [len : Nat, top : Nat] /\ Frame(state'.lo) \in [len : Nat, top : Nat]
      BY <1>8, RowFields, FrameFields
    <3>4. inst \in Instances /\ inst.scope.calls <= MaxCalls /\ inst.scope.queue = <<>>
      BY <2>1, <2>3 DEF Rested
    <3>5. /\ inst' \in Instances /\ inst'.scope = inst.scope /\ inst'.ckpt = Images(state')
          /\ inst'.sh = Frame(state'.sh) /\ inst'.lo = Frame(state'.lo)
      BY <3>1, <3>2, <3>3, <3>4 DEF RestorePayloads, Instances
    <3> QED  BY <2>1, <2>2, <2>3, <3>2, <3>4, <3>5 DEF Rested, Loaded
  <2> QED  BY <2>2, <2>3 DEF ReloadResident
<1>11. ReleasedHolds'
  BY <1>3, <1>8, ReleasedStay DEF Certify
<1>12. ImagesHold'
  <2>1. agreed' = agreed \cup {p.sh} /\ shown' = shown
    BY DEF Certify, p
  <2>2. p.sh <= SharedMax
    BY <1>1, <1>5 DEF RowHolds, p
  <2>3. p.sh \in 0..SharedMax
    BY <1>2, <2>2 DEF BoundsAssumption
  <2> QED  BY <1>8, <2>1, <2>3 DEF Inv, ImagesHold
<1> QED
  BY <1>9, <1>10, <1>11, <1>12, StepRests DEF Certify, Inv

-----------------------------------------------------------------------------
(* Entry and host calls.                                                    *)

LEMMA EnterKeeps ==
    ASSUME BoundsAssumption, NoneAssumption, Inv,
           NEW ev \in Events, NEW attached \in BOOLEAN, Enter(ev, attached)
    PROVE  Inv'
<1> DEFINE i == IF inst = None THEN Resident(state) ELSE inst
           signer == ev \in Local
           sc == [NewScope(i.scope) EXCEPT
                    !.kind = ev, !.outgoing = OutgoingLen(ev), !.direct = state.direct,
                    !.signer = signer, !.attachment = attached]
<1>1. Rested(i, state)
  BY ResidentFacts DEF Inv, Enter, Dispatchable
<1>2. state \in Rows /\ RowHolds(state)
  BY DEF Inv, RowHolds
<1>3. OutgoingLen(ev) \in Nat /\ (ev \in Local => OutgoingLen(ev) = state.out)
  BY <1>2, RowFields DEF Enter, Dispatchable, OutgoingLen, Local
<1>4. /\ sc \in Scopes /\ sc.kind = ev /\ sc.outgoing = OutgoingLen(ev)
      /\ sc.direct = state.direct /\ sc.signer = signer /\ sc.attachment = attached
      /\ sc.queue = <<>> /\ sc.calls = 0 /\ sc.ordinal = 0
  <2>1. signer \in BOOLEAN
    OBVIOUS
  <2> HIDE DEF signer
  <2>2. state.direct \in Nat
    BY <1>2, RowFields
  <2> HIDE DEF i
  <2> DEFINE n == NewScope(i.scope)
  <2>3. n \in Scopes /\ n.queue = <<>> /\ n.calls = 0 /\ n.ordinal = 0
    BY DEF NewScope, Scopes
  <2>4. OutgoingLen(ev) \in Nat /\ ev \in Events \cup {"none"}
    BY <1>3
  <2> HIDE DEF n
  <2>5. sc = [n EXCEPT !.kind = ev, !.outgoing = OutgoingLen(ev), !.direct = state.direct,
                       !.signer = signer, !.attachment = attached]
    BY DEF n
  <2> HIDE DEF sc
  <2> QED  BY <2>1, <2>2, <2>3, <2>4, <2>5 DEF Scopes
<1>5. inst' = [EnterClean(i) EXCEPT !.scope = sc]
  BY DEF Enter
<1>6. call' = [ev |-> ev, stage |-> "handler", emitted |-> <<>>, signed |-> {},
               cand |-> None, effects |-> <<>>, next |-> None]
  BY DEF Enter
<1> HIDE DEF i, sc
<1>7. i \in Instances /\ i.ckpt = Images(state) /\ Loaded(i, Images(state))
  BY <1>1 DEF Rested
<1>8. /\ inst' \in Instances /\ inst'.scope = sc /\ inst'.work = "baseline"
      /\ inst'.ckpt = Images(state) /\ inst'.sh = i.sh /\ inst'.lo = i.lo
  BY <1>4, <1>5, <1>7 DEF EnterClean, Instances
<1>9. Loaded(inst', Images(state))
  BY <1>7, <1>8 DEF Loaded
<1>10. /\ call' \in Calls /\ call'.ev = ev /\ call'.stage = "handler" /\ call'.signed = {}
       /\ call'.emitted = <<>>
  BY <1>6 DEF Calls
<1>11. MemoryHolds(call', inst', state)
  BY <1>9, <1>10 DEF MemoryHolds
<1>12. EffectsHold(call', inst', state)
  <2>1. Taken(call', inst') = <<>>
    BY <1>4, <1>8, <1>10 DEF Taken
  <2>2. Count(<<>>, {"broadcast"}) = 0 /\ Count(<<>>, {"send_direct"}) = 0
    <3>1. <<>> \in Seq(Effects)
      OBVIOUS
    <3> QED  BY <3>1, CountFacts
  <2>3. state.out + 0 <= MaxOutgoing /\ state.direct + 0 <= MaxDirect
    BY <1>2, RowFields DEF RowHolds
  <2> QED  BY <1>10, <2>1, <2>2, <2>3 DEF EffectsHold
<1>13. ScopeHolds(call', inst', state)
  BY <1>3, <1>4, <1>8, <1>10 DEF ScopeHolds, Enter
<1>14. SignsHold(call', inst') /\ NextHolds(call', inst', state)
  BY <1>10 DEF SignsHold, NextHolds
<1>15. /\ state.status = "active" /\ state.pend = None /\ state.pos < MaxEvents
       /\ ev = "own" => state.out > 0
  BY DEF Enter, Dispatchable
<1>16. inst'.scope.calls <= MaxCalls
  BY <1>4, <1>8 DEF BoundsAssumption
<1>17. CallHolds(call', inst', state)
  BY <1>8, <1>10, <1>11, <1>12, <1>13, <1>14, <1>15, <1>16 DEF CallHolds
<1> QED
  BY <1>8, <1>10, <1>17, StepWorks DEF Enter, Dispatchable, NoneAssumption

\* A handler in progress.
LEMMA HandlerFacts ==
    ASSUME Inv, NEW stage, At(stage)
    PROVE  /\ up /\ call # None /\ inst # None /\ call.stage = stage
           /\ CallHolds(call, inst, state)
           /\ call \in Calls /\ inst \in Instances
           /\ state \in Rows /\ RowHolds(state)
           /\ MemoryHolds(call, inst, state) /\ EffectsHold(call, inst, state)
           /\ ScopeHolds(call, inst, state) /\ SignsHold(call, inst)
           /\ inst.ckpt = Images(state) /\ inst.scope.calls <= MaxCalls
           /\ state.status = "active" /\ state.pend = None /\ state.pos < MaxEvents
BY DEF Inv, At, CallHolds, RowHolds

\* A host call that leaves only its charge.
LEMMA ChargeWorks ==
    ASSUME NoneAssumption, BoundsAssumption, Inv, Importing, inst' = Charged(inst), call' = call
    PROVE  CallHolds(call', inst', state) /\ call' # None /\ inst' # None
<1>1. At("handler") /\ inst.scope.calls < MaxCalls
  BY DEF Importing, Scoped
<1>2. /\ inst' \in Instances /\ inst'.ckpt = inst.ckpt /\ inst'.sh = inst.sh /\ inst'.lo = inst.lo
      /\ inst'.scope.calls = inst.scope.calls + 1 /\ inst'.scope.queue = inst.scope.queue
      /\ inst'.scope.kind = inst.scope.kind /\ inst'.scope.ordinal = inst.scope.ordinal
      /\ inst'.scope.signer = inst.scope.signer /\ inst'.scope.attachment = inst.scope.attachment
      /\ inst'.scope.outgoing = inst.scope.outgoing /\ inst'.scope.direct = inst.scope.direct
  BY <1>1, HandlerFacts, ChargedFacts
<1>3. call'.stage = "handler" /\ call'.ev = call.ev /\ call' \in Calls
  BY <1>1, HandlerFacts
<1>4. MemoryHolds(call', inst', state)
  BY <1>1, <1>2, <1>3, HandlerFacts DEF MemoryHolds, Loaded
<1>5. EffectsHold(call', inst', state)
  BY <1>1, <1>2, <1>3, HandlerFacts DEF EffectsHold, Taken
<1>6. inst'.scope.calls # 0 /\ inst'.scope.calls <= MaxCalls
  BY <1>1, <1>2, HandlerFacts, InstanceFields, SMTT(30) DEF BoundsAssumption
<1>7. ScopeHolds(call', inst', state)
  BY <1>1, <1>2, <1>3, <1>6, HandlerFacts DEF ScopeHolds
<1>8. SignsHold(call', inst') /\ NextHolds(call', inst', state)
  BY <1>1, <1>2, <1>3, HandlerFacts DEF SignsHold, NextHolds
<1> QED
  BY <1>1, <1>2, <1>3, <1>4, <1>5, <1>6, <1>7, <1>8, HandlerFacts DEF CallHolds, NoneAssumption

\* A host call that queues an effect the event's limits leave room for.
LEMMA EmitWorks ==
    ASSUME NoneAssumption, BoundsAssumption, Inv, Importing, NEW effect \in Effects, Emit(effect),
           call.ev \in Local =>
             /\ effect = "broadcast" =>
                  state.out + Count(inst.scope.queue, {"broadcast"}) < MaxOutgoing
             /\ effect = "send_direct" =>
                  state.direct + Count(inst.scope.queue, {"send_direct"}) < MaxDirect
    PROVE  CallHolds(call', inst', state) /\ call' # None /\ inst' # None
<1> DEFINE j == Charged(inst)
           q == Append(inst.scope.queue, effect)
<1>1. At("handler") /\ inst.scope.calls < MaxCalls
  BY DEF Importing, Scoped
<1>2. /\ j \in Instances /\ j.ckpt = inst.ckpt /\ j.sh = inst.sh /\ j.lo = inst.lo
      /\ j.scope.calls = inst.scope.calls + 1 /\ j.scope.queue = inst.scope.queue
      /\ j.scope.kind = inst.scope.kind /\ j.scope.ordinal = inst.scope.ordinal
      /\ j.scope.signer = inst.scope.signer /\ j.scope.attachment = inst.scope.attachment
      /\ j.scope.outgoing = inst.scope.outgoing /\ j.scope.direct = inst.scope.direct
  BY <1>1, HandlerFacts, ChargedFacts
<1>3. inst.scope.queue \in Seq(Effects) /\ q \in Seq(Effects)
  BY <1>1, HandlerFacts, InstanceFields
<1>4. call.emitted = inst.scope.queue
  BY <1>1, HandlerFacts DEF EffectsHold, Taken
<1>5. inst' = [j EXCEPT !.scope.queue = q]
  BY <1>2 DEF Emit
<1>6. call' = [call EXCEPT !.emitted = q]
  BY <1>1, <1>4, HandlerFacts DEF Emit, Calls
<1> HIDE DEF j, q
<1>7. LET sc == [j.scope EXCEPT !.queue = q] IN
      /\ sc \in Scopes /\ sc.calls = j.scope.calls /\ sc.queue = q
      /\ sc.kind = j.scope.kind /\ sc.ordinal = j.scope.ordinal
      /\ sc.signer = j.scope.signer /\ sc.attachment = j.scope.attachment
      /\ sc.outgoing = j.scope.outgoing /\ sc.direct = j.scope.direct
  <2>1. j.scope \in Scopes
    BY <1>2, InstanceFields
  <2> QED  BY <1>3, <2>1, QueueFields
<1>8. /\ inst' \in Instances /\ inst'.ckpt = j.ckpt /\ inst'.sh = j.sh /\ inst'.lo = j.lo
      /\ inst'.scope = [j.scope EXCEPT !.queue = q]
  BY <1>2, <1>5, <1>7 DEF Instances
<1>9. /\ call' \in Calls /\ call'.stage = "handler" /\ call'.ev = call.ev /\ call'.emitted = q
      /\ call'.signed = call.signed
  BY <1>1, <1>3, <1>6, HandlerFacts DEF Calls
<1>10. MemoryHolds(call', inst', state)
  BY <1>1, <1>2, <1>8, <1>9, HandlerFacts DEF MemoryHolds, Loaded
<1>11. EffectsHold(call', inst', state)
  <2>1. Taken(call', inst') = q
    BY <1>7, <1>8, <1>9 DEF Taken
  <2>2. ASSUME call.ev \in Local
        PROVE  /\ state.out + Count(q, {"broadcast"}) <= MaxOutgoing
               /\ state.direct + Count(q, {"send_direct"}) <= MaxDirect
    <3> DEFINE b == Count(inst.scope.queue, {"broadcast"})
               d == Count(inst.scope.queue, {"send_direct"})
    <3>1. b \in Nat /\ d \in Nat
      BY <1>3, CountFacts
    <3>2. /\ Count(q, {"broadcast"}) = IF effect \in {"broadcast"} THEN b + 1 ELSE b
          /\ Count(q, {"send_direct"}) = IF effect \in {"send_direct"} THEN d + 1 ELSE d
      BY <1>3, CountFacts DEF q
    <3>3. state.out + b <= MaxOutgoing /\ state.direct + d <= MaxDirect
      BY <1>1, <1>4, <2>2, HandlerFacts DEF EffectsHold
    <3>4. /\ effect = "broadcast" => state.out + b < MaxOutgoing
          /\ effect = "send_direct" => state.direct + d < MaxDirect
      BY <2>2
    <3>5. state.out \in Nat /\ state.direct \in Nat
      BY <1>1, HandlerFacts, RowFields
    <3> HIDE DEF b, d
    <3> QED  BY <3>1, <3>2, <3>3, <3>4, <3>5 DEF BoundsAssumption
  <2> QED  BY <1>9, <2>1, <2>2 DEF EffectsHold
<1>12. inst'.scope.calls # 0 /\ inst'.scope.calls <= MaxCalls
  <2>1. inst'.scope.calls = inst.scope.calls + 1
    BY <1>2, <1>7, <1>8
  <2>2. inst.scope.calls \in Nat /\ MaxCalls \in Nat
    BY <1>1, HandlerFacts, InstanceFields DEF BoundsAssumption
  <2> QED  BY <1>1, <2>1, <2>2
<1>13. ScopeHolds(call', inst', state)
  BY <1>1, <1>2, <1>7, <1>8, <1>9, <1>12, HandlerFacts DEF ScopeHolds
<1>14. SignsHold(call', inst') /\ NextHolds(call', inst', state)
  BY <1>1, <1>2, <1>7, <1>8, <1>9, HandlerFacts DEF SignsHold, NextHolds
<1>15. call'.ev = "own" => state.out > 0
  BY <1>1, <1>9, HandlerFacts DEF CallHolds
<1> QED
  BY <1>1, <1>2, <1>8, <1>9, <1>10, <1>11, <1>12, <1>13, <1>14, <1>15, HandlerFacts
     DEF CallHolds, NoneAssumption

LEMMA BroadcastKeeps ==
    ASSUME NoneAssumption, BoundsAssumption, Inv, Broadcast
    PROVE  Inv'
<1>1. Importing /\ At("handler")
  BY DEF Broadcast, Importing
<1>2. CASE BroadcastFull
  BY <1>1, <1>2, ChargeWorks, HandlerFacts, StepWorks DEF Broadcast, Refused
<1>3. CASE ~BroadcastFull
  <2>1. ASSUME call.ev \in Local
        PROVE  state.out + Count(inst.scope.queue, {"broadcast"}) < MaxOutgoing
    <3>1. inst.scope.kind \in Local /\ inst.scope.outgoing = state.out
      BY <1>1, <2>1, HandlerFacts DEF ScopeHolds
    <3>2. ~(state.out + Count(inst.scope.queue, {"broadcast"}) >= MaxOutgoing)
      BY <1>3, <3>1 DEF BroadcastFull, Scoped
    <3>3. Count(inst.scope.queue, {"broadcast"}) \in Nat
      BY <1>1, HandlerFacts, InstanceFields, CountFacts
    <3>4. state.out \in Nat
      BY <1>1, HandlerFacts, RowFields
    <3> QED  BY <3>2, <3>3, <3>4 DEF BoundsAssumption
  <2>2. Emit("broadcast") /\ "broadcast" \in Effects /\ "broadcast" # "send_direct"
    BY <1>3 DEF Broadcast, Effects
  <2>3. CallHolds(call', inst', state) /\ call' # None /\ inst' # None
    BY <1>1, <2>1, <2>2, EmitWorks
  <2> QED  BY <1>1, <2>3, HandlerFacts, StepWorks DEF Broadcast
<1> QED
  BY <1>2, <1>3

LEMMA SendDirectKeeps ==
    ASSUME NoneAssumption, BoundsAssumption, Inv, SendDirect
    PROVE  Inv'
<1> DEFINE d == Count(inst.scope.queue, {"send_direct"})
<1>1. Importing /\ At("handler") /\ inst.scope.kind \in Local
  BY DEF SendDirect, Importing, Scoped
<1>2. inst.scope.direct = state.direct
  BY <1>1, HandlerFacts DEF ScopeHolds
<1>3. CASE state.direct + d >= MaxDirect
  <2>1. Refused
    BY <1>2, <1>3 DEF SendDirect, Scoped
  <2> QED  BY <1>1, <2>1, ChargeWorks, HandlerFacts, StepWorks DEF SendDirect, Refused
<1>4. CASE ~(state.direct + d >= MaxDirect)
  <2>1. Emit("send_direct") /\ "send_direct" \in Effects /\ "broadcast" # "send_direct"
    BY <1>2, <1>4 DEF SendDirect, Scoped, Effects
  <2>2. d \in Nat /\ state.direct \in Nat
    BY <1>1, HandlerFacts, InstanceFields, RowFields, CountFacts
  <2>3. state.direct + d < MaxDirect
    BY <1>4, <2>2 DEF BoundsAssumption
  <2>4. CallHolds(call', inst', state) /\ call' # None /\ inst' # None
    BY <1>1, <2>1, <2>3, EmitWorks
  <2> QED  BY <1>1, <2>4, HandlerFacts, StepWorks DEF SendDirect
<1> QED
  BY <1>3, <1>4

LEMMA SetTimerKeeps ==
    ASSUME NoneAssumption, BoundsAssumption, Inv, SetTimer
    PROVE  Inv'
<1>1. Importing /\ At("handler") /\ Emit("set_timer")
  BY DEF SetTimer, Importing
<1>2. "set_timer" \in Effects /\ "set_timer" # "broadcast" /\ "set_timer" # "send_direct"
  BY DEF Effects
<1>3. CallHolds(call', inst', state) /\ call' # None /\ inst' # None
  BY <1>1, <1>2, EmitWorks
<1> QED
  BY <1>1, <1>3, HandlerFacts, StepWorks DEF SetTimer

LEMMA LifecyclesKeeps ==
    ASSUME NoneAssumption, BoundsAssumption, Inv, NEW effect \in Lifecycle, Lifecycles(effect)
    PROVE  Inv'
<1>1. Importing /\ At("handler") /\ Emit(effect)
  BY DEF Lifecycles, Importing
<1>2. effect \in Effects /\ effect # "broadcast" /\ effect # "send_direct"
  BY DEF Effects, Lifecycle
<1>3. CallHolds(call', inst', state) /\ call' # None /\ inst' # None
  BY <1>1, <1>2, EmitWorks
<1> QED
  BY <1>1, <1>3, HandlerFacts, StepWorks DEF Lifecycles

LEMMA ObserveKeeps ==
    ASSUME NoneAssumption, BoundsAssumption, Inv, Observe
    PROVE  Inv'
<1>1. Importing /\ At("handler")
  BY DEF Observe, Importing
<1> QED
  BY <1>1, ChargeWorks, HandlerFacts, StepWorks DEF Observe

LEMMA SignKeeps ==
    ASSUME NoneAssumption, BoundsAssumption, Inv, NEW payload \in Payloads, Sign(payload)
    PROVE  Inv'
<1> DEFINE j == Charged(inst)
           n == inst.scope.ordinal
           new == [at |-> n, payload |-> payload]
<1>1. At("handler") /\ inst.scope.calls < MaxCalls /\ inst.scope.signer
  BY DEF Sign, Importing, Scoped
<1>2. /\ j \in Instances /\ j.ckpt = inst.ckpt /\ j.sh = inst.sh /\ j.lo = inst.lo
      /\ j.scope.calls = inst.scope.calls + 1 /\ j.scope.queue = inst.scope.queue
      /\ j.scope.kind = inst.scope.kind /\ j.scope.ordinal = n
      /\ j.scope.signer = inst.scope.signer /\ j.scope.attachment = inst.scope.attachment
      /\ j.scope.outgoing = inst.scope.outgoing /\ j.scope.direct = inst.scope.direct
  BY <1>1, HandlerFacts, ChargedFacts
<1>3. n \in Nat /\ n + 1 \in Nat
  BY <1>1, HandlerFacts, InstanceFields
<1>4. inst' = [j EXCEPT !.scope.ordinal = n + 1]
  BY <1>2 DEF Sign, NextOrdinal
<1>5. call' = [call EXCEPT !.signed = call.signed \cup {new}]
  BY <1>1, HandlerFacts DEF Sign, Calls, Scoped
<1>6. new \in [at : Nat, payload : Payloads] /\ new.at = n
  BY <1>3
<1> HIDE DEF j, n, new
<1>7. LET sc == [j.scope EXCEPT !.ordinal = n + 1] IN
      /\ sc \in Scopes /\ sc.calls = j.scope.calls /\ sc.ordinal = n + 1
      /\ sc.kind = j.scope.kind /\ sc.queue = j.scope.queue
      /\ sc.signer = j.scope.signer /\ sc.attachment = j.scope.attachment
      /\ sc.outgoing = j.scope.outgoing /\ sc.direct = j.scope.direct
  <2>1. j.scope \in Scopes
    BY <1>2, InstanceFields
  <2>2. n + 1 \in Nat
    BY <1>3
  <2> QED  BY <2>1, <2>2, OrdinalFields
<1>8. /\ inst' \in Instances /\ inst'.ckpt = j.ckpt /\ inst'.sh = j.sh /\ inst'.lo = j.lo
      /\ inst'.scope = [j.scope EXCEPT !.ordinal = n + 1]
  BY <1>2, <1>4, <1>7 DEF Instances
<1>9. call.signed \cup {new} \in SUBSET [at : Nat, payload : Payloads]
  BY <1>1, <1>6, HandlerFacts, CallFields
<1>10. /\ call' \in Calls /\ call'.stage = "handler" /\ call'.ev = call.ev
       /\ call'.emitted = call.emitted /\ call'.signed = call.signed \cup {new}
  BY <1>1, <1>5, <1>9, HandlerFacts DEF Calls
<1>11. MemoryHolds(call', inst', state)
  BY <1>1, <1>2, <1>8, <1>10, HandlerFacts DEF MemoryHolds, Loaded
<1>12. EffectsHold(call', inst', state)
  <2>1. Taken(call', inst') = call.emitted
    BY <1>1, <1>2, <1>7, <1>8, <1>10, HandlerFacts DEF Taken, EffectsHold
  <2> QED  BY <1>1, <1>10, <2>1, HandlerFacts DEF EffectsHold
<1>13. inst'.scope.calls # 0 /\ inst'.scope.calls <= MaxCalls
  <2>1. inst'.scope.calls = inst.scope.calls + 1
    BY <1>2, <1>7, <1>8
  <2>2. inst.scope.calls \in Nat /\ MaxCalls \in Nat
    BY <1>1, HandlerFacts, InstanceFields DEF BoundsAssumption
  <2> QED  BY <1>1, <2>1, <2>2
<1>14. ScopeHolds(call', inst', state)
  <2>1. /\ inst'.scope.kind = inst.scope.kind /\ inst'.scope.signer = inst.scope.signer
        /\ inst'.scope.attachment = inst.scope.attachment
        /\ inst'.scope.outgoing = inst.scope.outgoing /\ inst'.scope.direct = inst.scope.direct
    BY <1>2, <1>7, <1>8
  <2>2. ScopeHolds(call, inst, state) /\ call.stage = "handler"
    BY <1>1, HandlerFacts
  <2> QED  BY <1>10, <1>13, <2>1, <2>2 DEF ScopeHolds
<1>15. SignsHold(call', inst')
  <2>1. call'.ev \in Local
    BY <1>1, <1>10, HandlerFacts DEF ScopeHolds
  <2>2. inst'.scope.ordinal = n + 1
    BY <1>7, <1>8
  <2>3. \A x \in call.signed : x.at \in Nat /\ x.at < n
    BY <1>1, HandlerFacts, CallFields DEF SignsHold, n
  <2>4. \A x, y \in call.signed : x.at = y.at => x.payload = y.payload
    BY <1>1, HandlerFacts DEF SignsHold
  <2>5. \A x \in call'.signed : x.at < inst'.scope.ordinal
    BY <1>3, <1>6, <1>10, <2>2, <2>3
  <2>6. \A x, y \in call'.signed : x.at = y.at => x.payload = y.payload
    BY <1>3, <1>6, <1>10, <2>3, <2>4
  <2> QED  BY <2>1, <2>5, <2>6 DEF SignsHold
<1>16. NextHolds(call', inst', state) /\ (call'.ev = "own" => state.out > 0)
  BY <1>1, <1>10, HandlerFacts DEF NextHolds, CallHolds
<1>17. CallHolds(call', inst', state)
  BY <1>1, <1>2, <1>8, <1>10, <1>11, <1>12, <1>13, <1>14, <1>15, <1>16, HandlerFacts
     DEF CallHolds
<1> QED
  BY <1>1, <1>8, <1>10, <1>17, HandlerFacts, StepWorks DEF Sign, NoneAssumption

-----------------------------------------------------------------------------
(* How a dispatch ends.                                                     *)

\* A failure leaves a row that fits its limits and no resident.
LEMMA FatalRow ==
    ASSUME Inv, NEW row, RowHolds(row), Fatal(row)
    PROVE  /\ RowHolds(state') /\ state' \in Rows /\ durable' = state'
           /\ state'.sh = row.sh /\ state'.pos = row.pos /\ inst' = None /\ up' \in BOOLEAN
<1>1. row \in Rows
  BY DEF RowHolds
<1>2. LET r == [row EXCEPT !.status = "ended", !.pend = None] IN
      /\ r \in Rows /\ r.sh = row.sh /\ r.lo = row.lo /\ r.pos = row.pos /\ r.step = row.step
      /\ r.out = row.out /\ r.direct = row.direct /\ r.pend = None
  BY <1>1 DEF Rows
<1>3. RowHolds([row EXCEPT !.status = "ended", !.pend = None])
  BY <1>2 DEF RowHolds
<1> QED
  BY <1>1, <1>2, <1>3 DEF Fatal, Inv

LEMMA FatalKeeps ==
    ASSUME Inv, Fatal(durable), call' = None, faults' \in 0..MaxFaults,
           UNCHANGED <<history, shown>>
    PROVE  Inv'
<1>1. RowHolds(state) /\ durable = state /\ state \in Rows
  BY DEF Inv, RowHolds
<1>2. /\ RowHolds(state') /\ state' \in Rows /\ durable' = state' /\ state'.sh = state.sh
      /\ state'.pos = state.pos /\ inst' = None /\ up' \in BOOLEAN
  BY <1>1, FatalRow
<1>3. ReleasedHolds'
  BY <1>1, <1>2, RowFields, ReleasedStay DEF history
<1>4. ImagesHold'
  BY <1>2, ImagesStay DEF history
<1> QED
  BY <1>2, <1>3, <1>4, StepRests

\* A rejected event leaves a resident that rests on what is durable.
LEMMA RejectionKeeps ==
    ASSUME BoundsAssumption, Inv, NEW stage, At(stage), NEW i, Rested(i, state), Rejection(i),
           call' = None, UNCHANGED <<faults, history, shown>>
    PROVE  Inv'
<1>1. /\ state \in Rows /\ RowHolds(state) /\ durable = state /\ up
      /\ call.ev = "own" => state.out > 0
  BY HandlerFacts DEF Inv, CallHolds
<1>2. ASSUME inst' = i, UNCHANGED <<durable, state, up>> PROVE Inv'
  <2>1. ReleasedHolds' /\ ImagesHold'
    BY <1>2 DEF Inv, ReleasedHolds, ImagesHold, SignaturesUnique, history
  <2> QED  BY <1>1, <1>2, <2>1, StepRests DEF Inv
<1>3. ASSUME call.ev = "own", state' = [state EXCEPT !.out = @ - 1], durable' = state',
             inst' = i, UNCHANGED up
      PROVE  Inv'
  <2>1. state.out - 1 \in Nat /\ state.out - 1 <= MaxOutgoing
    BY <1>1, <1>3, RowFields DEF RowHolds, BoundsAssumption
  <2>2. /\ state' \in Rows /\ state'.out = state.out - 1 /\ state'.sh = state.sh
        /\ state'.lo = state.lo /\ state'.pos = state.pos /\ state'.step = state.step
        /\ state'.direct = state.direct /\ state'.pend = state.pend
    BY <1>1, <1>3, <2>1 DEF Rows
  <2>3. RowHolds(state')
    BY <1>1, <2>1, <2>2 DEF RowHolds
  <2>4. Rested(inst', state')
    BY <1>3, <2>2 DEF Rested, Images
  <2>5. ReleasedHolds'
    <3>1. state'.pos >= state.pos
      BY <1>1, <2>2, RowFields
    <3> QED  BY <2>2, <3>1, ReleasedStay DEF history
  <2>6. ImagesHold'
    BY <2>2, ImagesStay DEF history
  <2> QED  BY <1>1, <1>3, <2>3, <2>4, <2>5, <2>6, StepRests DEF Inv
<1>4. ASSUME Fatal(durable) PROVE Inv'
  BY <1>4, FatalKeeps DEF Inv
<1> QED
  BY <1>2, <1>3, <1>4 DEF Rejection

LEMMA TrapKeeps ==
    ASSUME BoundsAssumption, NoneAssumption, Inv, Trap
    PROVE  Inv'
<1>1. PICK stage \in {"handler", "storing", "stored"} : At(stage)
  BY DEF Trap
<1>2. RowHolds(state)
  BY DEF Inv
<1>3. CASE call.ev \in {"start", "timer"}
  BY <1>3, FatalKeeps DEF Inv, Trap, Ended
<1>4. CASE call.ev \notin {"start", "timer"}
  <2>1. Rested(AfterTrap(inst), state)
    BY <1>2, ResidentFacts DEF AfterTrap
  <2>2. Rejection(AfterTrap(inst)) /\ call' = None /\ UNCHANGED <<faults, history, shown>>
    BY <1>4 DEF Trap, Ended
  <2> QED  BY <1>1, <2>1, <2>2, RejectionKeeps
<1> QED
  BY <1>3, <1>4

LEMMA RejectKeeps ==
    ASSUME BoundsAssumption, Inv, Reject
    PROVE  Inv'
<1>1. At("handler")
  BY DEF Reject
<1>2. Charged(inst) \in Instances /\ Charged(inst).ckpt = Images(state)
  BY <1>1, HandlerFacts, ChargedFacts
<1>3. Rested(RestoreCommitted(Rollback(Charged(inst))), state)
  BY <1>2, RollbackRests
<1> QED
  BY <1>1, <1>3, RejectionKeeps DEF Reject, Ended

LEMMA ApplyRejectsKeeps ==
    ASSUME BoundsAssumption, Inv, ApplyRejects
    PROVE  Inv'
<1>1. At("result")
  BY DEF ApplyRejects
<1>2. inst.scope.queue = <<>>
  BY <1>1, HandlerFacts DEF EffectsHold
<1>3. Rested(Discard(inst), state)
  BY <1>1, <1>2, HandlerFacts, DiscardRests DEF Discard
<1> QED
  BY <1>1, <1>3, RejectionKeeps DEF ApplyRejects, Ended

LEMMA ApplyFailsKeeps ==
    ASSUME Inv, ApplyFails
    PROVE  Inv'
BY FatalKeeps DEF Inv, ApplyFails, Ended

-----------------------------------------------------------------------------
(* An accepted dispatch.                                                    *)

LEMMA AcceptKeeps ==
    ASSUME NoneAssumption, BoundsAssumption, Inv,
           NEW sh \in 0..Capacity, NEW lo \in 0..Capacity, Accept(sh, lo)
    PROVE  Inv'
<1> DEFINE j == Charged(inst)
           images == [sh |-> sh, lo |-> lo]
<1>1. At("handler") /\ inst.scope.calls < MaxCalls /\ sh <= SharedMax
  BY DEF Accept, Scoped
<1>2. sh \in Nat /\ lo \in Nat /\ lo <= Capacity
  BY DEF BoundsAssumption
<1>3. /\ j \in Instances /\ j.ckpt = inst.ckpt /\ j.sh = inst.sh /\ j.lo = inst.lo
      /\ j.scope.calls = inst.scope.calls + 1 /\ j.scope.queue = inst.scope.queue
      /\ j.scope.ordinal = inst.scope.ordinal
  BY <1>1, HandlerFacts, ChargedFacts
<1>4. inst.sh = Frame(state.sh) /\ inst.lo = Frame(state.lo)
  BY <1>1, HandlerFacts, RowFields DEF MemoryHolds, Loaded
<1>5. WriteFrame(j.sh, sh) = Frame(sh)
  BY <1>1, <1>2, <1>3, <1>4, HandlerFacts, RowFields, FrameFields
<1>6. inst' = [j EXCEPT !.sh = Frame(sh)]
  BY <1>3, <1>5 DEF Accept, Instances
<1>7. call' = [call EXCEPT !.stage = "storing", !.cand = images]
  BY DEF Accept
<1>8. images \in [sh : Nat, lo : Nat] /\ images.sh = sh /\ images.lo = lo
  BY <1>2
<1> HIDE DEF j, images
<1>9. /\ inst' \in Instances /\ inst'.ckpt = j.ckpt /\ inst'.sh = Frame(sh) /\ inst'.lo = j.lo
      /\ inst'.scope = j.scope
  <2>1. Frame(sh) \in [len : Nat, top : Nat]
    BY <1>2, FrameFields
  <2> QED  BY <1>3, <1>6, <2>1 DEF Instances
<1>10. /\ call' \in Calls /\ call'.stage = "storing" /\ call'.ev = call.ev
       /\ call'.emitted = call.emitted /\ call'.signed = call.signed /\ call'.cand = images
  BY <1>1, <1>7, <1>8, HandlerFacts DEF Calls
<1>11. MemoryHolds(call', inst', state)
  <2>1. Loaded(inst', [sh |-> call'.cand.sh, lo |-> state.lo])
    BY <1>3, <1>4, <1>8, <1>9, <1>10 DEF Loaded
  <2> QED  BY <1>1, <1>2, <1>8, <1>10, <2>1 DEF MemoryHolds
<1>12. EffectsHold(call', inst', state)
  <2>1. Taken(call', inst') = call.emitted
    BY <1>1, <1>3, <1>9, <1>10, HandlerFacts DEF Taken, EffectsHold
  <2> QED  BY <1>1, <1>10, <2>1, HandlerFacts DEF EffectsHold
<1>13. inst'.scope.calls <= MaxCalls
  BY <1>1, <1>3, <1>9, HandlerFacts, InstanceFields, SMTT(30) DEF BoundsAssumption
<1>14. SignsHold(call', inst')
  BY <1>1, <1>3, <1>9, <1>10, HandlerFacts DEF SignsHold
<1>15. ScopeHolds(call', inst', state) /\ NextHolds(call', inst', state)
  BY <1>10 DEF ScopeHolds, NextHolds
<1>16. call'.ev = "own" => state.out > 0
  BY <1>1, <1>10, HandlerFacts DEF CallHolds
<1>17. CallHolds(call', inst', state)
  BY <1>1, <1>3, <1>9, <1>10, <1>11, <1>12, <1>13, <1>14, <1>15, <1>16, HandlerFacts
     DEF CallHolds
<1> QED
  BY <1>1, <1>9, <1>10, <1>17, HandlerFacts, StepWorks DEF Accept, NoneAssumption

LEMMA StoreLocalKeeps ==
    ASSUME NoneAssumption, BoundsAssumption, Inv, StoreLocal
    PROVE  Inv'
<1> DEFINE j == Charged(inst)
           lo == call.cand.lo
<1>1. At("storing") /\ inst.scope.calls < MaxCalls
  BY DEF StoreLocal, Scoped
<1>2. call.cand \in [sh : Nat, lo : Nat] /\ call.cand.sh <= SharedMax /\ lo <= Capacity
  BY <1>1, HandlerFacts DEF MemoryHolds
<1>3. /\ j \in Instances /\ j.ckpt = inst.ckpt /\ j.sh = inst.sh /\ j.lo = inst.lo
      /\ j.scope.calls = inst.scope.calls + 1 /\ j.scope.queue = inst.scope.queue
      /\ j.scope.ordinal = inst.scope.ordinal
  BY <1>1, HandlerFacts, ChargedFacts
<1>4. inst.sh = Frame(call.cand.sh) /\ inst.lo = Frame(state.lo)
  BY <1>1, HandlerFacts DEF MemoryHolds, Loaded
<1>5. WriteFrame(j.lo, lo) = Frame(lo)
  BY <1>1, <1>2, <1>3, <1>4, HandlerFacts, RowFields, FrameFields
<1>6. inst' = [j EXCEPT !.lo = Frame(lo)]
  BY <1>3, <1>5 DEF StoreLocal, Instances
<1>7. call' = [call EXCEPT !.stage = "stored"]
  BY DEF StoreLocal
<1>8. Frame(lo) \in [len : Nat, top : Nat]
  BY <1>2, FrameFields
<1> HIDE DEF j, lo
<1>9. /\ inst' \in Instances /\ inst'.ckpt = j.ckpt /\ inst'.sh = j.sh /\ inst'.lo = Frame(lo)
      /\ inst'.scope = j.scope
  BY <1>3, <1>6, <1>8 DEF Instances
<1>10. /\ call' \in Calls /\ call'.stage = "stored" /\ call'.ev = call.ev
       /\ call'.emitted = call.emitted /\ call'.signed = call.signed /\ call'.cand = call.cand
  BY <1>1, <1>7, HandlerFacts DEF Calls
<1>11. MemoryHolds(call', inst', state)
  <2>1. Loaded(inst', call'.cand)
    BY <1>3, <1>4, <1>9, <1>10 DEF Loaded, lo
  <2> QED  BY <1>2, <1>10, <2>1 DEF MemoryHolds, lo
<1>12. EffectsHold(call', inst', state)
  <2>1. Taken(call', inst') = call.emitted
    BY <1>1, <1>3, <1>9, <1>10, HandlerFacts DEF Taken, EffectsHold
  <2> QED  BY <1>1, <1>10, <2>1, HandlerFacts DEF EffectsHold
<1>13. inst'.scope.calls <= MaxCalls
  BY <1>1, <1>3, <1>9, HandlerFacts, InstanceFields, SMTT(30) DEF BoundsAssumption
<1>14. SignsHold(call', inst')
  BY <1>1, <1>3, <1>9, <1>10, HandlerFacts DEF SignsHold
<1>15. ScopeHolds(call', inst', state) /\ NextHolds(call', inst', state)
  BY <1>10 DEF ScopeHolds, NextHolds
<1>16. call'.ev = "own" => state.out > 0
  BY <1>1, <1>10, HandlerFacts DEF CallHolds
<1>17. CallHolds(call', inst', state)
  BY <1>1, <1>3, <1>9, <1>10, <1>11, <1>12, <1>13, <1>14, <1>15, <1>16, HandlerFacts
     DEF CallHolds
<1> QED
  BY <1>1, <1>9, <1>10, <1>17, HandlerFacts, StepWorks DEF StoreLocal, NoneAssumption

LEMMA ReturnsKeeps ==
    ASSUME NoneAssumption, Inv, Returns
    PROVE  Inv'
<1>1. At("stored")
  BY DEF Returns
<1>2. inst.scope.queue \in Seq(Effects) /\ inst.scope.queue = call.emitted
  BY <1>1, HandlerFacts, InstanceFields DEF EffectsHold, Taken
<1>3. /\ inst' \in Instances /\ inst'.ckpt = inst.ckpt /\ inst'.sh = inst.sh /\ inst'.lo = inst.lo
      /\ inst'.scope.queue = <<>> /\ inst'.scope.calls = inst.scope.calls
      /\ inst'.scope.ordinal = inst.scope.ordinal
  <2> DEFINE sc == [inst.scope EXCEPT !.queue = <<>>]
  <2>1. inst \in Instances /\ inst.scope \in Scopes
    BY <1>1, HandlerFacts, InstanceFields
  <2>2. /\ sc \in Scopes /\ sc.queue = <<>> /\ sc.calls = inst.scope.calls
        /\ sc.ordinal = inst.scope.ordinal
    <3>1. <<>> \in Seq(Effects)
      OBVIOUS
    <3> QED  BY <2>1, <3>1 DEF Scopes
  <2>3. inst' = [inst EXCEPT !.scope = sc]
    BY <2>1 DEF Returns, Instances
  <2> HIDE DEF sc
  <2> QED  BY <2>1, <2>2, <2>3 DEF Instances
<1>4. call' = [call EXCEPT !.stage = "result", !.effects = inst.scope.queue]
  BY DEF Returns, Scoped
<1>5. /\ call' \in Calls /\ call'.stage = "result" /\ call'.ev = call.ev
      /\ call'.emitted = call.emitted /\ call'.signed = call.signed /\ call'.cand = call.cand
      /\ call'.effects = inst.scope.queue
  BY <1>1, <1>2, <1>4, HandlerFacts DEF Calls
<1>6. MemoryHolds(call', inst', state)
  BY <1>1, <1>3, <1>5, HandlerFacts DEF MemoryHolds, Loaded
<1>7. EffectsHold(call', inst', state)
  <2>1. Taken(call', inst') = call.emitted
    BY <1>2, <1>5 DEF Taken
  <2> QED  BY <1>1, <1>3, <1>5, <2>1, HandlerFacts DEF EffectsHold
<1>8. SignsHold(call', inst')
  BY <1>1, <1>3, <1>5, HandlerFacts DEF SignsHold
<1>9. ScopeHolds(call', inst', state) /\ NextHolds(call', inst', state)
  BY <1>5 DEF ScopeHolds, NextHolds
<1>10. call'.ev = "own" => state.out > 0
  BY <1>1, <1>5, HandlerFacts DEF CallHolds
<1>11. CallHolds(call', inst', state)
  BY <1>1, <1>3, <1>5, <1>6, <1>7, <1>8, <1>9, <1>10, HandlerFacts DEF CallHolds
<1> QED
  BY <1>1, <1>3, <1>5, <1>11, HandlerFacts, StepWorks DEF Returns, NoneAssumption

LEMMA AppliesKeeps ==
    ASSUME NoneAssumption, BoundsAssumption, Inv, Applies
    PROVE  Inv'
<1>1. At("result") /\ ~Overflows /\ SharedKept
  BY DEF Applies
<1>2. /\ state \in Rows /\ RowHolds(state) /\ state.status = "active" /\ state.pend = None
      /\ state.pos < MaxEvents
  BY <1>1, HandlerFacts
<1>3. /\ state.sh \in Nat /\ state.lo \in Nat /\ state.pos \in Nat /\ state.step \in Nat
      /\ state.out \in Nat /\ state.direct \in Nat
  BY <1>2, RowFields
<1>4. /\ call.cand \in [sh : Nat, lo : Nat] /\ call.cand.sh <= SharedMax /\ call.cand.lo <= Capacity
      /\ Loaded(inst, call.cand)
  BY <1>1, HandlerFacts DEF MemoryHolds
<1>5. inst.sh.len = call.cand.sh /\ inst.lo.len = call.cand.lo
  BY <1>4, FrameFields DEF Loaded
<1>6. /\ call.effects \in Seq(Effects) /\ call.effects = call.emitted
      /\ call.ev = "own" => state.out > 0
  BY <1>1, HandlerFacts, CallFields DEF EffectsHold, Taken, CallHolds
<1>7. Count(call.effects, {"broadcast"}) \in Nat /\ Count(call.effects, {"send_direct"}) \in Nat
  BY <1>6, CountFacts
<1>8. OutAfter \in Nat /\ OutAfter <= MaxOutgoing
  BY <1>1, <1>3, <1>6, <1>7 DEF Overflows, OutAfter, Popped, BoundsAssumption
<1>9. /\ Applied \in Rows /\ RowHolds(Applied)
      /\ call.ev \in Local => /\ Applied.pend = None /\ Images(Applied) = call.cand
                              /\ Applied.sh = state.sh /\ Applied.pos = state.pos + 1
      /\ call.ev \notin Local => /\ Applied.pend # None /\ call.cand = Images(Applied.pend)
                                 /\ Images(Applied) = Images(state) /\ Applied.pos = state.pos
  <2>1. CASE call.ev \in Local
    <3> DEFINE d == state.direct + Count(call.effects, {"send_direct"})
               n == [state EXCEPT !.lo = call.cand.lo, !.sh = call.cand.sh,
                                  !.pos = state.pos + 1, !.out = OutAfter, !.direct = d]
    <3>1. d \in Nat /\ d <= MaxDirect
      BY <1>1, <1>3, <1>6, <1>7, <2>1, HandlerFacts DEF EffectsHold
    <3>2. Applied = n
      BY <1>2, <1>5, <2>1 DEF Applied, Rows
    <3>3. call.cand.sh = state.sh
      BY <1>1, <1>5, <2>1 DEF SharedKept
    <3>4. state.pos + 1 \in Nat /\ call.cand.sh \in Nat /\ call.cand.lo \in Nat
      BY <1>3, <1>4
    <3> HIDE DEF d
    <3>5. /\ n \in Rows /\ n.sh = call.cand.sh /\ n.lo = call.cand.lo /\ n.pos = state.pos + 1
          /\ n.step = state.step /\ n.out = OutAfter /\ n.direct = d /\ n.pend = None
      BY <1>2, <1>8, <3>1, <3>4 DEF Rows
    <3> HIDE DEF n
    <3>6. RowHolds(n)
      BY <1>2, <1>3, <1>4, <1>8, <3>1, <3>5 DEF RowHolds, BoundsAssumption
    <3>7. Images(n) = call.cand
      BY <1>4, <3>5 DEF Images
    <3> QED  BY <2>1, <3>2, <3>3, <3>5, <3>6, <3>7
  <2>2. CASE call.ev \notin Local
    <3> DEFINE ends == Count(call.effects, Lifecycle) > 0
               p == [sh |-> call.cand.sh, lo |-> call.cand.lo, out |-> OutAfter, ends |-> ends]
               n == [state EXCEPT !.pend = p]
    <3>1. ends \in BOOLEAN
      OBVIOUS
    <3>2. Applied = n
      BY <1>5, <2>2 DEF Applied
    <3> HIDE DEF ends
    <3>3. p \in Staged /\ p.sh = call.cand.sh /\ p.lo = call.cand.lo /\ p.out = OutAfter
      BY <1>4, <1>8, <3>1 DEF Staged
    <3>4. p # None
      BY <3>3 DEF NoneAssumption
    <3> HIDE DEF p
    <3>5. /\ n \in Rows /\ n.sh = state.sh /\ n.lo = state.lo /\ n.pos = state.pos
          /\ n.step = state.step /\ n.out = state.out /\ n.direct = state.direct /\ n.pend = p
      BY <1>2, <3>3 DEF Rows
    <3> HIDE DEF n
    <3>6. RowHolds(n)
      BY <1>2, <1>4, <1>8, <3>3, <3>5 DEF RowHolds
    <3>7. call.cand = Images(p) /\ Images(n) = Images(state)
      BY <1>4, <3>3, <3>5 DEF Images
    <3> QED  BY <2>2, <3>2, <3>4, <3>5, <3>6, <3>7
  <2> QED  BY <2>1, <2>2
<1>10. call' = [call EXCEPT !.stage = "persisting", !.next = Applied] /\ inst' = inst
  BY DEF Applies
<1>11. /\ call' \in Calls /\ call'.stage = "persisting" /\ call'.ev = call.ev
       /\ call'.emitted = call.emitted /\ call'.signed = call.signed /\ call'.cand = call.cand
       /\ call'.effects = call.effects /\ call'.next = Applied
  BY <1>1, <1>9, <1>10, HandlerFacts DEF Calls
<1>12. MemoryHolds(call', inst', state)
  BY <1>4, <1>10, <1>11 DEF MemoryHolds
<1>13. EffectsHold(call', inst', state)
  BY <1>1, <1>6, <1>10, <1>11, HandlerFacts DEF EffectsHold, Taken
<1>14. SignsHold(call', inst') /\ ScopeHolds(call', inst', state)
  BY <1>1, <1>10, <1>11, HandlerFacts DEF SignsHold, ScopeHolds
<1>15. NextHolds(call', inst', state)
  BY <1>9, <1>11 DEF NextHolds
<1>16. CallHolds(call', inst', state)
  BY <1>1, <1>6, <1>10, <1>11, <1>12, <1>13, <1>14, <1>15, HandlerFacts DEF CallHolds
<1> QED
  BY <1>1, <1>10, <1>11, <1>16, HandlerFacts, StepWorks DEF Applies, NoneAssumption

\* The signatures of a dispatch join the released ones under a new position.
LEMMA ReleaseHolds ==
    ASSUME Inv, At("persisting"), state' \in Rows, state'.pos = call.next.pos,
           released' = released \cup
              {[pos |-> state.pos, at |-> s.at, payload |-> s.payload] : s \in call.signed}
    PROVE  ReleasedHolds'
<1> DEFINE new == {[pos |-> state.pos, at |-> s.at, payload |-> s.payload] : s \in call.signed}
<1>1. /\ call.signed \in SUBSET [at : Nat, payload : Payloads] /\ SignsHold(call, inst)
      /\ NextHolds(call, inst, state) /\ call.stage = "persisting" /\ state.pos \in Nat
  BY HandlerFacts, CallFields, RowFields DEF CallHolds
<1>2. ReleasedHolds
  BY DEF Inv
<1>3. new \subseteq [pos : Nat, at : Nat, payload : Payloads]
  BY <1>1
<1>4. \A x \in new : x.pos = state.pos
  OBVIOUS
<1>5. \A x, y \in new : x.at = y.at => x.payload = y.payload
  BY <1>1 DEF SignsHold
<1>6. state'.pos \in Nat /\ state'.pos >= state.pos /\ (new # {} => state'.pos = state.pos + 1)
  BY <1>1, RowFields DEF NextHolds, SignsHold
<1> HIDE DEF new
<1>7. released' = released \cup new
  BY DEF new
<1>8. released' \subseteq [pos : Nat, at : Nat, payload : Payloads]
  BY <1>2, <1>3, <1>7 DEF ReleasedHolds
<1>9. \A x \in released : x.pos \in Nat /\ x.pos < state.pos
  BY <1>2 DEF ReleasedHolds
<1>10. \A x \in released' : x.pos < state'.pos
  BY <1>1, <1>4, <1>6, <1>7, <1>9
<1>11. \A x, y \in released' : (x.pos = y.pos /\ x.at = y.at) => x.payload = y.payload
  <2> SUFFICES ASSUME NEW x \in released', NEW y \in released', x.pos = y.pos, x.at = y.at
               PROVE  x.payload = y.payload
    OBVIOUS
  <2>1. CASE x \in released /\ y \in released
    BY <1>2, <2>1 DEF ReleasedHolds, SignaturesUnique
  <2>2. CASE x \in new /\ y \in new
    BY <1>5, <2>2
  <2>3. ~(x \in released /\ y \in new) /\ ~(x \in new /\ y \in released)
    BY <1>1, <1>4, <1>9
  <2> QED  BY <1>7, <2>1, <2>2, <2>3
<1> QED
  BY <1>8, <1>10, <1>11 DEF ReleasedHolds, SignaturesUnique

LEMMA PersistKeeps ==
    ASSUME NoneAssumption, BoundsAssumption, Inv, Persist
    PROVE  Inv'
<1>1. At("persisting")
  BY DEF Persist
<1>2. state' = call.next /\ durable' = call.next /\ call' = None
  BY DEF Persist, Ended
<1>3. /\ NextHolds(call, inst, state) /\ call.stage = "persisting"
      /\ inst \in Instances /\ inst.ckpt = Images(state) /\ inst.scope.calls <= MaxCalls
      /\ inst.scope.queue = <<>> /\ Loaded(inst, call.cand) /\ call.cand \in [sh : Nat, lo : Nat]
  BY <1>1, HandlerFacts DEF CallHolds, EffectsHold, MemoryHolds
<1>4. RowHolds(state') /\ state' \in Rows /\ state'.sh = state.sh
  BY <1>2, <1>3 DEF NextHolds, RowHolds, Images
<1>5. Rested(inst', state')
  <2>1. CASE call.ev \in Local
    <3>1. inst' = Commit(inst) /\ Images(state') = call.cand
      BY <1>2, <1>3, <2>1 DEF Persist, NextHolds
    <3>2. inst.sh.len = call.cand.sh /\ inst.lo.len = call.cand.lo
      BY <1>3, FrameFields DEF Loaded
    <3>3. [sh |-> inst.sh.len, lo |-> inst.lo.len] = call.cand
      BY <1>3, <3>2
    <3>4. /\ inst' \in Instances /\ inst'.ckpt = call.cand /\ inst'.scope = inst.scope
          /\ inst'.sh = inst.sh /\ inst'.lo = inst.lo
      BY <1>3, <3>1, <3>3 DEF Commit, Instances
    <3> QED  BY <1>3, <3>1, <3>4 DEF Rested, Loaded
  <2>2. CASE call.ev \notin Local
    <3>1. inst' = RestoreCommitted(inst) /\ Images(state') = Images(state)
      BY <1>2, <1>3, <2>2 DEF Persist, NextHolds, Discard
    <3> QED  BY <1>3, <3>1, DiscardRests
  <2> QED  BY <2>1, <2>2
<1>6. ReleasedHolds'
  BY <1>1, <1>2, <1>4, ReleaseHolds DEF Persist
<1>7. ImagesHold'
  BY <1>4, ImagesStay DEF Persist
<1> QED
  BY <1>1, <1>2, <1>4, <1>5, <1>6, <1>7, HandlerFacts, StepRests DEF Persist, Inv

LEMMA PersistFailsKeeps ==
    ASSUME NoneAssumption, BoundsAssumption, Inv, PersistFails
    PROVE  Inv'
<1>1. At("persisting") /\ call' = None /\ UNCHANGED <<agreed, shown>>
  BY DEF PersistFails, Ended
<1>2. faults' \in 0..MaxFaults
  BY DEF PersistFails, Inv, BoundsAssumption
<1>3. CASE Fatal(durable) /\ UNCHANGED released
  BY <1>1, <1>2, <1>3, FatalKeeps DEF history
<1>4. CASE /\ Fatal(call.next)
           /\ released' = released \cup
                {[pos |-> state.pos, at |-> s.at, payload |-> s.payload] : s \in call.signed}
  <2>1. NextHolds(call, inst, state) /\ call.stage = "persisting"
    BY <1>1, HandlerFacts DEF CallHolds
  <2>2. RowHolds(call.next) /\ call.next.sh = state.sh
    BY <2>1 DEF NextHolds, Images
  <2>3. /\ RowHolds(state') /\ state' \in Rows /\ durable' = state' /\ state'.sh = state.sh
        /\ state'.pos = call.next.pos /\ inst' = None /\ up' \in BOOLEAN
    BY <1>4, <2>2, FatalRow
  <2>4. ReleasedHolds'
    BY <1>1, <1>4, <2>3, ReleaseHolds
  <2>5. ImagesHold'
    BY <1>1, <2>3, ImagesStay
  <2> QED  BY <1>1, <1>2, <2>3, <2>4, <2>5, StepRests
<1> QED
  BY <1>3, <1>4 DEF PersistFails

-----------------------------------------------------------------------------
(* The invariant and what follows from it.                                  *)

LEMMA NextKeeps ==
    ASSUME BoundsAssumption, NoneAssumption, Inv, [Next]_vars
    PROVE  Inv'
<1>1. CASE UNCHANGED vars
  BY <1>1 DEF vars, Inv, ReleasedHolds, ImagesHold, SignaturesUnique
<1>2. ASSUME NEW ev \in Events, NEW attached \in BOOLEAN, Enter(ev, attached)
      PROVE  Inv'
  BY <1>2, EnterKeeps
<1>3. ASSUME NEW effect \in Lifecycle, Lifecycles(effect)
      PROVE  Inv'
  BY <1>3, LifecyclesKeeps
<1>4. ASSUME NEW payload \in Payloads, Sign(payload)
      PROVE  Inv'
  BY <1>4, SignKeeps
<1>5. ASSUME NEW sh \in 0..Capacity, NEW lo \in 0..Capacity, Accept(sh, lo)
      PROVE  Inv'
  BY <1>5, AcceptKeeps
<1>6. CASE Recover \/ Crash \/ Project \/ Delivered \/ Certify
  BY <1>6, RecoverKeeps, CrashKeeps, ProjectKeeps, DeliveredKeeps, CertifyKeeps
<1>7. CASE Broadcast \/ SendDirect \/ SetTimer \/ Observe
  BY <1>7, BroadcastKeeps, SendDirectKeeps, SetTimerKeeps, ObserveKeeps
<1>8. CASE Trap \/ Reject \/ StoreLocal \/ Returns
  BY <1>8, TrapKeeps, RejectKeeps, StoreLocalKeeps, ReturnsKeeps
<1>9. CASE Applies \/ ApplyRejects \/ ApplyFails \/ Persist \/ PersistFails
  BY <1>9, AppliesKeeps, ApplyRejectsKeeps, ApplyFailsKeeps, PersistKeeps, PersistFailsKeeps
<1> QED
  BY <1>1, <1>2, <1>3, <1>4, <1>5, <1>6, <1>7, <1>8, <1>9 DEF Next

\* The inductive invariant of the resident guest: it follows every dispatch,
\* from resident_mut to the store's confirmation, a trap, a rejection or a crash.
THEOREM Invariance ==
    ASSUME BoundsAssumption, NoneAssumption
    PROVE  Spec => []Inv
<1>1. Init => Inv
  BY InitHolds
<1>2. Inv /\ [Next]_vars => Inv'
  BY NextKeeps
<1> QED
  BY <1>1, <1>2, PTL DEF Spec

\* Rows, instances and dispatches keep their types and limits: images fit
\* STATE_MAX and the memory, positions, queues and calls their bounds.
THEOREM TypeCorrect ==
    ASSUME BoundsAssumption, NoneAssumption
    PROVE  Spec => []TypeOK
<1>1. ASSUME Inv PROVE TypeOK
  <2>1. /\ state \in Rows /\ state.sh <= Capacity /\ state.lo <= Capacity
        /\ state.pos <= MaxEvents /\ state.step <= MaxEvents
        /\ state.out <= MaxOutgoing /\ state.direct <= MaxDirect
    BY <1>1, RowFields DEF Inv, RowHolds, BoundsAssumption
  <2>2. /\ inst \in Instances \cup {None} /\ (inst # None => inst.scope.calls <= MaxCalls)
        /\ call \in Calls \cup {None} /\ (call # None => inst # None)
    BY <1>1 DEF Inv, Rested, CallHolds
  <2>3. agreed \subseteq 0..Capacity
    BY <1>1 DEF Inv, ImagesHold, BoundsAssumption
  <2>4. up \in BOOLEAN /\ faults \in 0..MaxFaults /\ durable = state
    BY <1>1 DEF Inv
  <2> QED  BY <2>1, <2>2, <2>3, <2>4 DEF TypeOK
<1> QED
  BY <1>1, Invariance, PTL

\* Between dispatches the resident holds what the actor's state says, after an
\* accepted, a rejected, a trapped and a staged dispatch, after a certificate and
\* after a restart (the invariant the actor's `instance` field documents).
THEOREM ResidentFollowsState ==
    ASSUME BoundsAssumption, NoneAssumption
    PROVE  Spec => []ResidentMatchesState
<1>1. ASSUME Inv PROVE ResidentMatchesState
  BY <1>1, RowFields DEF Inv, RowHolds, Rested, Loaded, ResidentMatchesState
<1> QED
  BY <1>1, Invariance, PTL

\* A handler starts from committed images, a clean work memory, no effect and
\* its own capabilities, whatever ran before it (resident_mut and the reset at
\* entry).
THEOREM EntryIsClean ==
    ASSUME BoundsAssumption, NoneAssumption
    PROVE  Spec => []CleanEntry
<1>1. ASSUME Inv PROVE CleanEntry
  <2> SUFFICES ASSUME At("handler"), inst.scope.calls = 0
               PROVE  /\ inst.work = "baseline"
                      /\ inst.sh = Frame(state.sh) /\ inst.lo = Frame(state.lo)
                      /\ inst.scope.queue = <<>> /\ inst.scope.ordinal = 0
                      /\ inst.scope.signer <=> call.ev \in Local
                      /\ inst.scope.attachment => call.ev = "direct"
    BY DEF CleanEntry, Scoped
  <2>1. /\ MemoryHolds(call, inst, state) /\ ScopeHolds(call, inst, state)
        /\ call.stage = "handler" /\ state \in Rows
    BY <1>1, HandlerFacts
  <2>2. inst.sh = Frame(state.sh) /\ inst.lo = Frame(state.lo)
    BY <2>1, RowFields DEF MemoryHolds, Loaded
  <2> QED  BY <2>1, <2>2 DEF ScopeHolds
<1> QED
  BY <1>1, Invariance, PTL

\* A dispatch persists exactly the effects its own handler emitted, in order,
\* and the images it stored (apply_dispatch and the persist that follows).
THEOREM OwnCall ==
    ASSUME BoundsAssumption, NoneAssumption
    PROVE  Spec => []PersistsItsOwnCall
<1>1. ASSUME Inv PROVE PersistsItsOwnCall
  <2> SUFFICES ASSUME At("persisting")
               PROVE  /\ call.effects = call.emitted
                      /\ call.cand = IF call.next.pend = None THEN Images(call.next)
                                     ELSE [sh |-> call.next.pend.sh, lo |-> call.next.pend.lo]
    BY DEF PersistsItsOwnCall
  <2>1. EffectsHold(call, inst, state) /\ NextHolds(call, inst, state) /\ call.stage = "persisting"
    BY <1>1, HandlerFacts DEF CallHolds
  <2>2. call.effects = call.emitted
    BY <2>1 DEF EffectsHold, Taken
  <2>3. CASE call.ev \in Local
    BY <2>1, <2>2, <2>3 DEF NextHolds
  <2>4. CASE call.ev \notin Local
    BY <2>1, <2>2, <2>4 DEF NextHolds, Images
  <2> QED  BY <2>3, <2>4
<1> QED
  BY <1>1, Invariance, PTL

\* The shared image that a Host holds, stores or shows was certified by every
\* participant, whatever the program's glue stores in a local handler.
THEOREM AgreedImages ==
    ASSUME BoundsAssumption, NoneAssumption
    PROVE  Spec => []OnlyAgreedImages
<1>1. ASSUME Inv PROVE OnlyAgreedImages
  BY <1>1 DEF Inv, ImagesHold, OnlyAgreedImages
<1> QED
  BY <1>1, Invariance, PTL

\* Committed dispatches release at most one payload under an event position and
\* a call ordinal, although a handler that signed may be rejected, trap or crash.
THEOREM OneSignaturePerCall ==
    ASSUME BoundsAssumption, NoneAssumption
    PROVE  Spec => []SignaturesUnique
<1>1. ASSUME Inv PROVE SignaturesUnique
  BY <1>1 DEF Inv, ReleasedHolds
<1> QED
  BY <1>1, Invariance, PTL

\* The limits a local handler meets in its host calls are those the durable
\* queues have: its accepted dispatch overflows neither.
THEOREM LocalFits ==
    ASSUME BoundsAssumption, NoneAssumption
    PROVE  Spec => []LocalNeverOverflows
<1>1. ASSUME Inv PROVE LocalNeverOverflows
  <2> SUFFICES ASSUME At("result"), call.ev \in Local
               PROVE  /\ ~Overflows
                      /\ state.direct + Count(call.effects, {"send_direct"}) <= MaxDirect
    BY DEF LocalNeverOverflows
  <2>1. /\ state.out + Count(call.effects, {"broadcast"}) <= MaxOutgoing
        /\ state.direct + Count(call.effects, {"send_direct"}) <= MaxDirect
    BY <1>1, HandlerFacts DEF EffectsHold, Taken
  <2>2. Popped(call.ev) = 0
    BY DEF Popped, Local
  <2>3. state.out \in Nat /\ Count(call.effects, {"broadcast"}) \in Nat
    BY <1>1, HandlerFacts, RowFields, CallFields, CountFacts
  <2> QED  BY <2>1, <2>2, <2>3 DEF Overflows, OutAfter, BoundsAssumption
<1> QED
  BY <1>1, Invariance, PTL

\* What write_state_frame leaves in a state memory always passes the Host's own
\* check: a shorter payload leaves nothing of a longer one behind it.
THEOREM CanonicalFrames ==
    ASSUME BoundsAssumption, NoneAssumption
    PROVE  Spec => []FramesCanonical
<1>1. ASSUME Inv PROVE FramesCanonical
  <2>1. ASSUME NEW n \in Nat, n <= Capacity PROVE Canonical(Frame(n), Capacity)
    BY <2>1, FrameFields DEF Canonical
  <2>2. /\ state.sh \in Nat /\ state.sh <= Capacity /\ state.lo \in Nat /\ state.lo <= Capacity
        /\ Images(state).sh = state.sh /\ Images(state).lo = state.lo
    BY <1>1, RowFields DEF Inv, RowHolds, BoundsAssumption
  <2>3. CASE call = None
    BY <1>1, <2>1, <2>2, <2>3 DEF Inv, Rested, Loaded, FramesCanonical
  <2>4. CASE call # None
    <3>1. MemoryHolds(call, inst, state) /\ call \in Calls
      BY <1>1, <2>4 DEF Inv, CallHolds
    <3>2. call.stage # "handler" =>
            /\ call.cand.sh \in Nat /\ call.cand.sh <= Capacity
            /\ call.cand.lo \in Nat /\ call.cand.lo <= Capacity
      BY <3>1 DEF MemoryHolds, BoundsAssumption
    <3>3. Canonical(inst.sh, Capacity)
      BY <2>1, <2>2, <3>1, <3>2, CallFields DEF MemoryHolds, Loaded
    <3>4. Canonical(inst.lo, Capacity)
      BY <2>1, <2>2, <3>1, <3>2, CallFields DEF MemoryHolds, Loaded
    <3> QED  BY <3>3, <3>4 DEF FramesCanonical
  <2> QED  BY <2>3, <2>4
<1> QED
  BY <1>1, Invariance, PTL
=============================================================================
