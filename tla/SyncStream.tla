----------------------------- MODULE SyncStream -----------------------------
(***************************************************************************)
(* One Host's summary rows, the store's in-memory change log, and one      *)
(* client that follows the rows over GET /sync.                            *)
(*                                                                         *)
(* The store publishes the keys of every COMMIT in a ring of the last      *)
(* CHANGE_RING changes (arena0-store changes.rs).  The daemon's per-Host   *)
(* task (sync.rs) compares the client's cursor with the ring, reads the    *)
(* rows one at a time while writers keep committing, and sends them over a *)
(* bounded channel.  The connection may end between any two frames and the *)
(* daemon may restart, which empties the log and names a new lifetime.     *)
(*                                                                         *)
(* A row's value is the number of the commit that wrote it, 0 while the    *)
(* row does not exist (only a program leaves the catalog again).           *)
(***************************************************************************)
EXTENDS Integers, Sequences, FiniteSets, SequencesExt

CONSTANTS
    Keys,             \* the summary rows (ChangeKey)
    Programs,         \* the keys among them that can be removed again
    ChangeRing,       \* CHANGE_RING
    FrameBuffer,      \* SYNC_FRAME_BUFFER
    MaxCommits,       \* bound: commits of the store
    MaxBoots,         \* bound: lifetimes of the store
    MaxDisconnects,   \* bound: connections that end early
    None              \* model value: no cursor

SyncAssumption ==
    /\ IsFiniteSet(Keys) /\ Programs \subseteq Keys
    /\ ChangeRing \in Nat \ {0} /\ FrameBuffer \in Nat \ {0}
    /\ MaxCommits \in Nat /\ MaxBoots \in Nat \ {0} /\ MaxDisconnects \in Nat

VARIABLES
    rows,        \* the committed rows
    log,         \* <<key, value>> of every change of this lifetime, by seq
    base,        \* the rows when this lifetime began
    ring,        \* the last ChangeRing changes, as <<seq, key>>
    head,        \* the watched head
    boot,        \* boot_id
    task,        \* the per-Host task of the connection
    frames,      \* the connection's frame channel
    client,      \* what the client has applied
    commits, disconnects

vars == <<rows, log, base, ring, head, boot, task, frames, client, commits, disconnects>>
store == <<rows, log, base, ring, head, boot, commits>>

HostFrame(b)         == [kind |-> "host", boot |-> b]
ResetFrame           == [kind |-> "reset"]
RowsFrame(seq, ops)  == [kind |-> "rows", seq |-> seq, ops |-> ops]
SyncedFrame(seq)     == [kind |-> "synced", seq |-> seq]

\* from: the seq to catch up from, None without a usable cursor.
Off == [pc |-> "off", from |-> None, last |-> 0, seen |-> 0, synced |-> FALSE,
        head |-> 0, full |-> FALSE, todo |-> <<>>, ops |-> <<>>]

Init ==
    /\ \E live \in SUBSET Keys : rows = [k \in Keys |-> IF k \in live THEN 1 ELSE 0]
    /\ base = rows /\ log = <<>>
    /\ ring = <<>> /\ head = 0
    /\ boot = 1 /\ commits = 1
    /\ task = Off /\ frames = <<>>
    /\ client = [rows |-> [k \in Keys |-> 0], cursor |-> None, boot |-> 0, wiped |-> FALSE]
    /\ disconnects = 0

-----------------------------------------------------------------------------
(* The store: a COMMIT, then ChangeLog::publish, under the writer mutex.   *)

LastOf(s, n) == IF Len(s) > n THEN SubSeq(s, Len(s) - n + 1, Len(s)) ELSE s

\* ChangeLog::publish
Publish(batch) ==
    /\ ring' = LastOf(ring \o [i \in 1..Len(batch) |-> <<head + i, batch[i]>>], ChangeRing)
    /\ head' = head + Len(batch)

\* Keys of one transaction: record_change keeps the first mention of each.
Batches == {<<k>> : k \in Keys} \cup {<<p[1], p[2]>> : p \in {q \in Keys \X Keys : q[1] # q[2]}}

Committed(batch, value) ==
    /\ commits < MaxCommits
    /\ commits' = commits + 1
    /\ rows' = [k \in Keys |-> IF k \in Range(batch) THEN value ELSE rows[k]]
    /\ log' = log \o [i \in 1..Len(batch) |-> <<batch[i], value>>]
    /\ Publish(batch)
    /\ UNCHANGED <<base, boot, task, frames, client, disconnects>>

Write(batch) == Committed(batch, commits + 1)

RemoveProgram(k) ==
    /\ k \in Programs /\ rows[k] # 0
    /\ Committed(<<k>>, 0)

\* The log as it would answer without looking whether the ring reaches back far
\* enough.
SinceAnything(seq) ==
    LET later == SelectSeq(ring, LAMBDA e : e[1] > seq)
        first == SelectSeq([i \in 1..Len(later) |-> <<i, later[i][2]>>],
                           LAMBDA e : \A j \in 1..(e[1] - 1) : later[j][2] # e[2])
    IN  [full |-> seq > head, head |-> head, keys |-> first]

\* ChangeLog::since: the distinct keys changed after seq, in first-seen order, or
\* a full snapshot.
Since(seq) ==
    LET full  == seq # head /\ (seq > head \/ ring = <<>> \/ ring[1][1] > seq + 1)
        later == SelectSeq(ring, LAMBDA e : e[1] > seq)
        first == SelectSeq([i \in 1..Len(later) |-> <<i, later[i][2]>>],
                           LAMBDA e : \A j \in 1..(e[1] - 1) : later[j][2] # e[2])
    IN  [full |-> full, head |-> head, keys |-> IF full THEN <<>> ELSE first]

-----------------------------------------------------------------------------
(* The per-Host task of sync_frames.                                       *)

Room == Len(frames) < FrameBuffer

\* The client connects with its applied cursor; the Host frame goes out first.
Connect ==
    /\ task.pc = "off"
    /\ task' = [Off EXCEPT !.pc = "resolve", !.seen = head,
                           !.from = IF client.cursor # None /\ client.cursor.boot = boot
                                    THEN client.cursor.seq ELSE None]
    /\ frames' = <<HostFrame(boot)>>
    /\ UNCHANGED <<store, client, disconnects>>

\* The cursor's place in the log, or a snapshot as of the head read first.
Resolve ==
    /\ task.pc = "resolve"
    /\ LET c == IF task.from = None THEN [full |-> TRUE, head |-> head, keys |-> <<>>]
                                    ELSE Since(task.from)
           next == CASE c.full         -> "reset"
                     [] c.keys = <<>>  -> IF task.synced THEN "loop" ELSE "announce"
                     [] OTHER          -> "read"
       IN  task' = [task EXCEPT !.pc = next, !.full = c.full, !.head = c.head, !.ops = <<>>,
                                !.last = IF next \in {"loop", "announce"} THEN c.head ELSE @,
                                !.todo = [i \in 1..Len(c.keys) |-> c.keys[i][2]]]
    /\ UNCHANGED <<store, frames, client, disconnects>>

SendReset ==
    /\ task.pc = "reset" /\ Room
    /\ frames' = Append(frames, ResetFrame)
    /\ task' = [task EXCEPT !.pc = "read", !.todo = SetToSeq(Keys)]
    /\ UNCHANGED <<store, client, disconnects>>

\* One row of sync_rows or sync_snapshot: the row as it is now.  A snapshot
\* leaves out what is not there; a removed program's key reads as its removal.
ReadRow ==
    /\ task.pc = "read" /\ task.todo # <<>>
    /\ LET k == Head(task.todo)
       IN  task' = [task EXCEPT !.todo = Tail(@),
                                !.ops = IF task.full /\ rows[k] = 0 THEN @
                                        ELSE Append(@, <<k, rows[k]>>)]
    /\ UNCHANGED <<store, frames, client, disconnects>>

SendRows ==
    /\ task.pc = "read" /\ task.todo = <<>> /\ Room
    /\ frames' = Append(frames, RowsFrame(task.head, task.ops))
    /\ task' = [task EXCEPT !.pc = IF task.synced THEN "loop" ELSE "announce",
                            !.last = task.head, !.ops = <<>>]
    /\ UNCHANGED <<store, client, disconnects>>

SendSynced ==
    /\ task.pc = "announce" /\ Room
    /\ frames' = Append(frames, SyncedFrame(task.last))
    /\ task' = [task EXCEPT !.pc = "loop", !.synced = TRUE]
    /\ UNCHANGED <<store, client, disconnects>>

\* The top of the loop: watch.borrow_and_update() against the last seq sent.
Check ==
    /\ task.pc = "loop"
    /\ task' = [task EXCEPT !.seen = head, !.from = task.last,
                            !.pc = IF head > task.last THEN "resolve" ELSE "wait"]
    /\ UNCHANGED <<store, frames, client, disconnects>>

\* watch.changed()
Wake ==
    /\ task.pc = "wait" /\ head # task.seen
    /\ task' = [task EXCEPT !.pc = "loop", !.seen = head]
    /\ UNCHANGED <<store, frames, client, disconnects>>

\* events.recv(): an observation is forwarded and the loop starts over.
Observe ==
    /\ task.pc = "wait"
    /\ task' = [task EXCEPT !.pc = "loop"]
    /\ UNCHANGED <<store, frames, client, disconnects>>

\* The client goes away, or a projection fails and the stream ends.
Disconnect ==
    /\ task.pc # "off" /\ disconnects < MaxDisconnects
    /\ task' = Off /\ frames' = <<>>
    /\ disconnects' = disconnects + 1
    /\ UNCHANGED <<store, client>>

\* The daemon restarts: the log starts empty under a new boot_id.
Restart ==
    /\ boot < MaxBoots
    /\ boot' = boot + 1
    /\ ring' = <<>> /\ head' = 0 /\ log' = <<>> /\ base' = rows
    /\ task' = Off /\ frames' = <<>>
    /\ UNCHANGED <<rows, client, commits, disconnects>>

-----------------------------------------------------------------------------
(* The client: SyncFrame says what each frame does to it.                  *)

Upserted(old, ops) ==
    FoldLeft(LAMBDA r, op : [r EXCEPT ![op[1]] = op[2]], old, ops)

Applied(f) ==
    CASE f.kind = "host"   -> [client EXCEPT !.boot = f.boot]
      [] f.kind = "reset"  -> [client EXCEPT !.rows = [k \in Keys |-> 0], !.wiped = TRUE]
      [] f.kind = "rows"   -> [client EXCEPT !.rows = Upserted(@, f.ops), !.wiped = FALSE,
                                             !.cursor = [boot |-> client.boot, seq |-> f.seq]]
      [] f.kind = "synced" -> [client EXCEPT !.cursor = [boot |-> client.boot, seq |-> f.seq]]

Apply ==
    /\ frames # <<>>
    /\ client' = Applied(Head(frames))
    /\ frames' = Tail(frames)
    /\ UNCHANGED <<store, task, disconnects>>

-----------------------------------------------------------------------------
Writes == (\E b \in Batches : Write(b)) \/ (\E k \in Programs : RemoveProgram(k))

Serve == Resolve \/ SendReset \/ ReadRow \/ SendRows \/ SendSynced \/ Check \/ Wake

Next == Writes \/ Connect \/ Serve \/ Observe \/ Apply \/ Disconnect \/ Restart

Spec == Init /\ [][Next]_vars

\* The task and the client keep running; a client that was cut off reconnects.
Fairness == WF_vars(Serve) /\ WF_vars(Apply) /\ WF_vars(Connect)

FairSpec == Spec /\ Fairness

-----------------------------------------------------------------------------
\* The rows are row values, the ring holds consecutive seqs up to the head,
\* the channel keeps its bound.
TypeOK ==
    /\ rows \in [Keys -> 0..MaxCommits] /\ base \in [Keys -> 0..MaxCommits]
    /\ log \in Seq(Keys \X (0..MaxCommits)) /\ Len(log) = head
    /\ Len(ring) <= ChangeRing
    /\ \A i \in 1..Len(ring) : ring[i] = <<head - Len(ring) + i, log[head - Len(ring) + i][1]>>
    /\ boot \in 1..MaxBoots
    /\ task.pc \in {"off", "resolve", "reset", "read", "announce", "loop", "wait"}
    /\ Len(frames) <= FrameBuffer
    /\ client.rows \in [Keys -> 0..MaxCommits]

\* The value row k had after change s of this lifetime, or took later.
ValuesSince(k, s) ==
    LET changes == {i \in 1..head : log[i][1] = k}
        before  == {i \in changes : i <= s}
        asOf    == IF before = {} THEN base[k]
                   ELSE log[CHOOSE i \in before : \A j \in before : j <= i][2]
    IN  {asOf} \cup {log[i][2] : i \in {j \in changes : j > s}}

\* sync.rs: "Reading a head before the rows it covers is what makes a cursor
\* safe".  A client whose cursor is (boot_id, seq) of the current lifetime has
\* every row as it was at seq or later: nothing up to seq is missing, whatever
\* was committed, evicted, cut off or restarted while its frames were read and
\* sent.  In particular a client that applied a Reset and lost the connection
\* before the snapshot is not resumed from the cursor it still holds.
ClientIsCurrent ==
    (client.cursor # None /\ client.cursor.boot = boot /\ ~client.wiped) =>
        \A k \in Keys : client.rows[k] \in ValuesSince(k, client.cursor.seq)

\* A cursor only moves forward within one lifetime, so what a client has
\* applied is never claimed again as missing.
CursorAdvances ==
    [][ (client.cursor # None /\ client'.cursor # None /\ client'.cursor.boot = client.cursor.boot)
        => client'.cursor.seq >= client.cursor.seq ]_vars

\* Once nobody writes any more the client ends up with exactly the Host's
\* rows, although no later write wakes the task: commits made during a
\* projection or a blocked send are picked up by the check before the wait.
ClientCatchesUp == <>[](client.rows = rows)
=============================================================================
