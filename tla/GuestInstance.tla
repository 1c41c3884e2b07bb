--------------------------- MODULE GuestInstance ---------------------------
(***************************************************************************)
(* The resident guest of one execution: the Wasm instance that the actor   *)
(* keeps between dispatches, the host calls a handler makes while it runs, *)
(* the glue that the SDK generates around the handler, and what the actor  *)
(* does with an accepted, a rejected and a trapped dispatch.               *)
(*                                                                         *)
(* A state payload is its length (its last byte is not zero); a state      *)
(* memory keeps the length prefix and the position of its last nonzero     *)
(* byte, which is what the canonical-frame checks tell apart.  Work memory *)
(* and the mutable globals are one value, "baseline" or "used".  Host-call *)
(* budgets count the calls a handler makes itself; the four reads of the   *)
(* glue add a constant.  Byte budgets, fuel and a panic all end in a trap, *)
(* which may happen at every step.  The execution's own state machine      *)
(* (Execution) is reduced to what the guest meets of it: the agreed and    *)
(* the local image, the staged proposal, the event position and the two    *)
(* outgoing queues.                                                        *)
(***************************************************************************)
EXTENDS Integers, Sequences, FiniteSets

CONSTANTS Capacity,      \* the payload bytes a state memory can hold
          SharedMax,     \* STATE_MAX of the program's shared state
          MaxOutgoing,   \* MAX_OUTGOING_MESSAGES
          MaxDirect,     \* MAX_DIRECT_QUEUE
          MaxCalls,      \* max_host_calls, less the glue's own reads
          MaxEffects,    \* max_effects_per_dispatch
          Payloads,      \* what a handler may ask the Host to sign
          Generated,     \* the program's glue comes from the SDK
          MaxEvents,     \* bound: dispatches that take an event position
          MaxFaults,     \* bound: crashes and failed store writes
          None

BoundsAssumption ==
    /\ Capacity \in Nat /\ SharedMax \in 1..Capacity
    /\ MaxOutgoing \in Nat /\ MaxDirect \in Nat /\ MaxCalls \in Nat
    /\ Generated \in BOOLEAN
    /\ MaxEffects \in Nat /\ MaxEvents \in Nat /\ MaxFaults \in Nat

VARIABLES durable,   \* the execution row of the store
          state,     \* the actor's copy of it
          inst,      \* the resident instance, or None
          call,      \* the dispatch in progress, or None
          up,        \* the actor runs
          faults,    \* faults so far
          agreed,    \* history: shared images certified by every participant
          released,  \* history: signatures in committed dispatches
          shown      \* the shared image the last projection was computed from
vars == <<durable, state, inst, call, up, faults, agreed, released, shown>>
history == <<agreed, released>>

Agreed == {"start", "own", "peer"}
Local == {"input", "timer", "direct"}
Events == Agreed \cup Local
Lifecycle == {"end", "abort"}
Effects == Lifecycle \cup {"broadcast", "send_direct", "set_timer"}

Count(queue, effects) == Cardinality({i \in DOMAIN queue : queue[i] \in effects})

\* The execution row, the resident instance and the dispatch in progress.
Staged == [sh : Nat, lo : Nat, out : Nat, ends : BOOLEAN]
Rows ==
    [sh : Nat, lo : Nat, pos : Nat, step : Nat, out : Nat, direct : Nat,
     pend : Staged \cup {None}, status : {"active", "ended"}]
Scopes ==
    [kind : Events \cup {"none"}, outgoing : Nat, direct : Nat, signer : BOOLEAN,
     attachment : BOOLEAN, queue : Seq(Effects), calls : Nat, ordinal : Nat]
Instances ==
    [sh : [len : Nat, top : Nat], lo : [len : Nat, top : Nat],
     work : {"baseline", "used"}, ckpt : [sh : Nat, lo : Nat], scope : Scopes]
Calls ==
    [ev : Events, stage : {"handler", "storing", "stored", "result", "persisting"},
     emitted : Seq(Effects), signed : SUBSET [at : Nat, payload : Payloads],
     cand : [sh : Nat, lo : Nat] \cup {None}, effects : Seq(Effects),
     next : Rows \cup {None}]

NoneAssumption == None \notin Staged /\ None \notin Instances /\ None \notin Calls

---------------------------------------------------------------------------
(* State memories *)

\* One state memory holding a payload of n bytes.
Frame(n) == [len |-> n, top |-> n]

\* write_state_frame: clear what a longer payload left, then write the new one.
WriteFrame(frame, n) ==
    [len |-> n, top |-> IF frame.top > frame.len /\ frame.top > n THEN frame.top ELSE n]

Canonical(frame, max) == frame.len <= max /\ frame.top <= frame.len

Images(s) == [sh |-> s.sh, lo |-> s.lo]

---------------------------------------------------------------------------
(* The per-call scope and the instance *)

\* A new scope replaces every observation, budget and capability of the old one.
NewScope(old) ==
    [kind |-> "none", outgoing |-> 0, direct |-> 0, signer |-> FALSE, attachment |-> FALSE,
     queue |-> <<>>, calls |-> 0, ordinal |-> 0]

\* The sole resident instance of an execution, built from its durable images.
Resident(s) ==
    [sh |-> Frame(s.sh), lo |-> Frame(s.lo), work |-> "baseline",
     ckpt |-> Images(s), scope |-> NewScope(None)]

\* Both memories back to the checkpoint, work memory and globals to their baseline.
RestoreCommitted(i) ==
    [i EXCEPT !.sh = Frame(i.ckpt.sh), !.lo = Frame(i.ckpt.lo), !.work = "baseline"]

Rollback(i) == [RestoreCommitted(i) EXCEPT !.scope = NewScope(i.scope)]

\* The images in memory become the rollback checkpoint.
Commit(i) == [i EXCEPT !.ckpt = [sh |-> i.sh.len, lo |-> i.lo.len]]

\* Install durable images in place and make them the checkpoint.
RestorePayloads(i, s) ==
    [i EXCEPT !.sh = Frame(s.sh), !.lo = Frame(s.lo), !.work = "baseline", !.ckpt = Images(s)]

---------------------------------------------------------------------------
(* The execution as the guest meets it *)

Init ==
    /\ durable = [sh |-> 1, lo |-> 0, pos |-> 0, step |-> 0, out |-> 0, direct |-> 0,
                  pend |-> None, status |-> "active"]
    /\ state = durable
    /\ inst = None /\ call = None /\ up = FALSE /\ faults = 0
    /\ agreed = {1} /\ released = {} /\ shown = None

\* The actor starts: it loads the row and builds the resident from its images.
Recover ==
    /\ ~up
    /\ up' = TRUE /\ state' = durable /\ inst' = Resident(durable)
    /\ UNCHANGED <<durable, call, faults, history, shown>>

\* The process dies: the resident and the dispatch in progress are gone.
Crash ==
    /\ up /\ faults < MaxFaults
    /\ up' = FALSE /\ faults' = faults + 1
    /\ inst' = None /\ call' = None /\ state' = durable
    /\ UNCHANGED <<durable, history, shown>>

Dispatchable(ev) ==
    /\ up /\ call = None
    /\ state.status = "active" /\ state.pend = None /\ state.pos < MaxEvents
    /\ (ev = "start") <=> (state.step = 0)
    /\ ev = "own" => state.out > 0

\* What the sandbox is told of the queue: an own message is about to be popped.
OutgoingLen(ev) == IF ev = "own" THEN state.out - 1 ELSE state.out

\* Mutant: entry leaves work memory and globals as the last call left them.
EnterAsLeft(i) == i
\* reset_work_and_globals at every entry.
EnterClean(i) == [i EXCEPT !.work = "baseline"]

\* resident_mut, the reset at entry and the capabilities of this dispatch.
Enter(ev, attached) ==
    /\ Dispatchable(ev) /\ (attached => ev = "direct")
    /\ LET i == IF inst = None THEN Resident(state) ELSE inst
       IN  inst' = [EnterClean(i) EXCEPT
                       !.scope = [NewScope(i.scope) EXCEPT
                           !.kind = ev, !.outgoing = OutgoingLen(ev), !.direct = state.direct,
                           !.signer = ev \in Local, !.attachment = attached]]
    /\ call' = [ev |-> ev, stage |-> "handler", emitted |-> <<>>, signed |-> {},
                cand |-> None, effects |-> <<>>, next |-> None]
    /\ UNCHANGED <<durable, state, up, faults, history, shown>>

---------------------------------------------------------------------------
(* Host calls of a handler *)

At(stage) == up /\ call # None /\ call.stage = stage
Scoped == inst.scope
Charged(i) == [i EXCEPT !.scope.calls = @ + 1, !.work = "used"]
Importing == At("handler") /\ Scoped.calls < MaxCalls

Emit(effect) ==
    /\ Len(Scoped.queue) < MaxEffects
    /\ inst' = [Charged(inst) EXCEPT !.scope.queue = Append(@, effect)]
    /\ call' = [call EXCEPT !.emitted = Append(@, effect)]

\* The call returns without a trace but its budget: the queue is full.
Refused == inst' = Charged(inst) /\ UNCHANGED call

\* Only a local handler sees the bound on the outgoing queue.
BroadcastFull ==
    /\ Scoped.kind \in Local
    /\ Scoped.outgoing + Count(Scoped.queue, {"broadcast"}) >= MaxOutgoing

Broadcast ==
    /\ Importing
    /\ IF BroadcastFull THEN Refused ELSE Emit("broadcast")
    /\ UNCHANGED <<durable, state, up, faults, history, shown>>

SendDirect ==
    /\ Importing /\ Scoped.kind \in Local
    /\ IF Scoped.direct + Count(Scoped.queue, {"send_direct"}) >= MaxDirect
       THEN Refused ELSE Emit("send_direct")
    /\ UNCHANGED <<durable, state, up, faults, history, shown>>

SetTimer ==
    /\ Importing /\ Count(Scoped.queue, Lifecycle) = 0
    /\ Emit("set_timer")
    /\ UNCHANGED <<durable, state, up, faults, history, shown>>

\* end_session and abort_session: agreed events only, once, without a timer.
Lifecycles(effect) ==
    /\ Importing /\ Scoped.kind \in Agreed
    /\ Count(Scoped.queue, Lifecycle \cup {"set_timer"}) = 0
    /\ Emit(effect)
    /\ UNCHANGED <<durable, state, up, faults, history, shown>>

NextOrdinal(n) == n + 1

\* The Host signs one payload under the event position and the call ordinal.
Sign(payload) ==
    /\ Importing /\ Scoped.signer
    /\ call' = [call EXCEPT !.signed = @ \cup {[at |-> Scoped.ordinal, payload |-> payload]}]
    /\ inst' = [Charged(inst) EXCEPT !.scope.ordinal = NextOrdinal(@)]
    /\ UNCHANGED <<durable, state, up, faults, history, shown>>

\* hash, merge_cv, permutation, verify, random and log: a call that leaves
\* nothing but its charge.
Observe ==
    /\ Importing
    /\ inst' = Charged(inst)
    /\ UNCHANGED <<durable, state, call, up, faults, history, shown>>

---------------------------------------------------------------------------
(* How a dispatch ends *)

Ended == call' = None

\* An error that is fatal to the session: a failure is recorded, or the actor
\* stops and a later start reads the row again.
Fatal(row) ==
    \/ /\ durable' = [row EXCEPT !.status = "ended", !.pend = None]
       /\ state' = durable' /\ up' = up /\ inst' = None
    \/ /\ durable' = row /\ state' = row
       /\ up' = FALSE /\ inst' = None

\* A rejected event: its author drops an own message from the queue, a peer's
\* message is a divergence, and a rejected start fails the session.
Rejection(i) ==
    CASE call.ev \in Local -> inst' = i /\ UNCHANGED <<durable, state, up>>
      [] call.ev = "own" -> /\ state' = [state EXCEPT !.out = @ - 1] /\ durable' = state'
                            /\ inst' = i /\ UNCHANGED up
      [] OTHER -> Fatal(durable)

\* The sandbox's rollback may itself have failed, so the actor drops the
\* instance and its next use builds it from the durable images.
AfterTrap(i) == Resident(state)

\* A panic, a budget, fuel, a callout outside its schema or a host call this
\* event may not make.  In an input, direct or message handler the event counts
\* as rejected; in any other the error is the session's.
Trap ==
    /\ At("handler") \/ At("storing") \/ At("stored")
    /\ Ended
    /\ IF call.ev \in {"start", "timer"} THEN Fatal(durable) ELSE Rejection(AfterTrap(inst))
    /\ UNCHANGED <<faults, history, shown>>

\* The handler rejects, or a local handler changed the typed shared value: the
\* glue stores neither image; the sandbox rolls back and so does the actor.
Reject ==
    /\ At("handler")
    /\ Ended /\ Rejection(RestoreCommitted(Rollback(Charged(inst))))
    /\ UNCHANGED <<faults, history, shown>>

\* The generated glue accepts a local handler only with its shared image
\* unchanged, and writes back the bytes it was given.
GlueAccepts(ev, sh) == (Generated /\ ev \in Local) => sh = inst.sh.len

\* The handler accepts: the glue serialises both images within their limits
\* and stores the shared one.
Accept(sh, lo) ==
    /\ At("handler") /\ Scoped.calls < MaxCalls
    /\ sh <= SharedMax /\ GlueAccepts(call.ev, sh)
    /\ call' = [call EXCEPT !.stage = "storing", !.cand = [sh |-> sh, lo |-> lo]]
    /\ inst' = [Charged(inst) EXCEPT !.sh = WriteFrame(@, sh)]
    /\ UNCHANGED <<durable, state, up, faults, history, shown>>

\* The second host call of the store: the local image.
StoreLocal ==
    /\ At("storing") /\ Scoped.calls < MaxCalls
    /\ call' = [call EXCEPT !.stage = "stored"]
    /\ inst' = [Charged(inst) EXCEPT !.lo = WriteFrame(@, call.cand.lo)]
    /\ UNCHANGED <<durable, state, up, faults, history, shown>>

\* The call returned: its observations are taken and both frames validated.
Returns ==
    /\ At("stored")
    /\ Canonical(inst.sh, SharedMax) /\ Canonical(inst.lo, Capacity)
    /\ call' = [call EXCEPT !.stage = "result", !.effects = Scoped.queue]
    /\ inst' = [inst EXCEPT !.scope.queue = <<>>]
    /\ UNCHANGED <<durable, state, up, faults, history, shown>>

\* An own message is taken from the head of the queue by the step it authors.
Popped(ev) == IF ev = "own" THEN 1 ELSE 0

OutAfter == state.out - Popped(call.ev) + Count(call.effects, {"broadcast"})

\* apply_dispatch on a copy of the state: a local event installs its images at
\* once, an agreed one stages a proposal; both take the event position or
\* leave it to the certificate.
Applied ==
    IF call.ev \in Local
    THEN [state EXCEPT !.lo = inst.lo.len, !.sh = inst.sh.len, !.pos = @ + 1, !.out = OutAfter,
                       !.direct = @ + Count(call.effects, {"send_direct"})]
    ELSE [state EXCEPT !.pend = [sh |-> inst.sh.len, lo |-> inst.lo.len, out |-> OutAfter,
                                 ends |-> Count(call.effects, Lifecycle) > 0]]

Overflows == OutAfter > MaxOutgoing

\* A local event may not replace the agreed shared image.
SharedKept == call.ev \in Local => inst.sh.len = state.sh

Applies ==
    /\ At("result") /\ ~Overflows /\ SharedKept
    /\ call' = [call EXCEPT !.stage = "persisting", !.next = Applied]
    /\ UNCHANGED <<durable, state, inst, up, faults, history, shown>>

\* The step overflows the queue or exhausts the receipt budget, its end has no
\* outcome, or a peer's step cannot be applied or differs from its author's.
ApplyFails ==
    /\ At("result") /\ call.ev \in Agreed
    /\ Ended /\ Fatal(durable)
    /\ UNCHANGED <<faults, history, shown>>

\* discard_candidate.
Discard(i) == RestoreCommitted(i)

\* LocalSharedChange, or any other error of the protocol in applying an own
\* message: a plain rejection of the event.
ApplyRejects ==
    /\ At("result") /\ (~SharedKept \/ call.ev = "own")
    /\ Ended /\ Rejection(Discard(inst))
    /\ UNCHANGED <<faults, history, shown>>

\* The store confirms: a local dispatch becomes the checkpoint, a staged
\* proposal is taken out of the resident again.
Persist ==
    /\ At("persisting")
    /\ durable' = call.next /\ state' = call.next
    /\ inst' = IF call.next.pend = None THEN Commit(inst) ELSE Discard(inst)
    /\ released' = released \cup
          {[pos |-> state.pos, at |-> s.at, payload |-> s.payload] : s \in call.signed}
    /\ Ended
    /\ UNCHANGED <<up, faults, agreed, shown>>

\* The store fails and its outcome is unknown: the actor drops the resident,
\* reads the row again and fails the session or stops.
PersistFails ==
    /\ At("persisting") /\ faults < MaxFaults
    /\ faults' = faults + 1
    /\ Ended
    /\ \/ Fatal(durable) /\ UNCHANGED released
       \/ /\ Fatal(call.next)
          /\ released' = released \cup
               {[pos |-> state.pos, at |-> s.at, payload |-> s.payload] : s \in call.signed}
    /\ UNCHANGED <<agreed, shown>>

ReloadResident(i, s) == IF i = None THEN i ELSE RestorePayloads(i, s)

\* The last signature certifies the staged step: its images are installed and
\* the resident is loaded with them.
Certify ==
    /\ up /\ call = None /\ state.pend # None
    /\ LET p == state.pend
           next == [state EXCEPT !.sh = p.sh, !.lo = p.lo, !.out = p.out, !.pend = None,
                                 !.pos = @ + 1, !.step = @ + 1,
                                 !.status = IF p.ends THEN "ended" ELSE "active"]
       IN  /\ durable' = next /\ state' = next
           /\ inst' = ReloadResident(inst, next)
           /\ agreed' = agreed \cup {p.sh}
    /\ UNCHANGED <<call, up, faults, released, shown>>

\* A delivered message or frame leaves its queue.
Delivered ==
    /\ up /\ call = None /\ state.direct > 0
    /\ state' = [state EXCEPT !.direct = @ - 1] /\ durable' = state'
    /\ UNCHANGED <<inst, call, up, faults, history, shown>>

\* A projection is computed in a fresh instance from the actor's shared image.
Projected == state.sh

\* query and view: a fresh read-only instance; the resident is not entered.
Project ==
    /\ up /\ call = None /\ state.step > 0
    /\ shown' = Projected
    /\ UNCHANGED <<durable, state, inst, call, up, faults, history>>

Next ==
    \/ Recover \/ Crash \/ Project \/ Delivered
    \/ \E ev \in Events, attached \in BOOLEAN : Enter(ev, attached)
    \/ Broadcast \/ SendDirect \/ SetTimer \/ Observe
    \/ \E effect \in Lifecycle : Lifecycles(effect)
    \/ \E payload \in Payloads : Sign(payload)
    \/ Trap \/ Reject \/ StoreLocal \/ Returns
    \/ \E sh, lo \in 0..Capacity : Accept(sh, lo)
    \/ Applies \/ ApplyRejects \/ ApplyFails \/ Persist \/ PersistFails \/ Certify

Spec == Init /\ [][Next]_vars

---------------------------------------------------------------------------
(* Properties *)

TypeOK ==
    /\ \A s \in {durable, state} :
         /\ s \in Rows
         /\ s.sh <= Capacity /\ s.lo <= Capacity
         /\ s.pos <= MaxEvents /\ s.step <= MaxEvents
         /\ s.out <= MaxOutgoing /\ s.direct <= MaxDirect
    /\ inst \in Instances \cup {None} /\ (inst # None => inst.scope.calls <= MaxCalls)
    /\ call \in Calls \cup {None} /\ (call # None => inst # None)
    /\ up \in BOOLEAN /\ faults \in 0..MaxFaults
    /\ agreed \subseteq 0..Capacity

\* Between dispatches the resident holds what the actor's state says: its
\* memories and its rollback checkpoint are the committed images and no effect
\* of an earlier call is left, after an accepted, a rejected, a trapped and a
\* staged dispatch and after a certificate (the invariant the actor's
\* `instance` field documents).
ResidentMatchesState ==
    (up /\ call = None /\ inst # None /\ state.status = "active") =>
        /\ inst.ckpt = Images(state)
        /\ inst.sh = Frame(state.sh) /\ inst.lo = Frame(state.lo)
        /\ inst.scope.queue = <<>>

\* Every handler starts from the same place whatever ran before it: committed
\* images, baseline work memory and globals, no effect queued, its own
\* capabilities and nothing of an earlier call's.  A restarted Host and one that
\* kept its resident therefore run the same handler on the same input.
CleanEntry ==
    (At("handler") /\ Scoped.calls = 0) =>
        /\ inst.work = "baseline"
        /\ inst.sh = Frame(state.sh) /\ inst.lo = Frame(state.lo)
        /\ Scoped.queue = <<>> /\ Scoped.ordinal = 0
        /\ Scoped.signer <=> call.ev \in Local
        /\ Scoped.attachment => call.ev = "direct"

\* What a dispatch persists is what its own handler did: exactly the effects it
\* emitted, in order, and the two images it computed.
PersistsItsOwnCall ==
    At("persisting") =>
        /\ call.effects = call.emitted
        /\ call.cand = IF call.next.pend = None THEN Images(call.next)
                       ELSE [sh |-> call.next.pend.sh, lo |-> call.next.pend.lo]

\* The shared image a Host holds, stores or shows is always one that every
\* participant certified, never a local handler's or a staged candidate's.
OnlyAgreedImages ==
    /\ state.sh \in agreed /\ durable.sh \in agreed
    /\ shown # None => shown \in agreed

\* No two committed dispatches release different payloads signed under the same
\* event position and call ordinal, although a handler that signed may be
\* rejected, trap or crash and another event may take its position.
SignaturesUnique ==
    \A s, t \in released : (s.pos = t.pos /\ s.at = t.at) => s.payload = t.payload

\* The queue bounds a local handler is told by its host calls are the ones the
\* durable boundary applies: an accepted local dispatch never overflows a queue.
LocalNeverOverflows ==
    (At("result") /\ call.ev \in Local) =>
        /\ ~Overflows
        /\ state.direct + Count(call.effects, {"send_direct"}) <= MaxDirect

\* Frames that the glue stored through the Host always pass the Host's own
\* validation: a shorter payload leaves nothing of a longer one behind it.
FramesCanonical ==
    inst # None => Canonical(inst.sh, Capacity) /\ Canonical(inst.lo, Capacity)

===========================================================================
