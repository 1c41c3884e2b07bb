----------------------------- MODULE BlobStore ------------------------------
(***************************************************************************)
(* The blobs of one Host's store: three tables in SQLite and the files     *)
(* they name (arena0-store blobs.rs and the blob calls of lib.rs, with the *)
(* sandbox's append and commit that stage what a dispatch receives).       *)
(*                                                                         *)
(* Files change outside the database transaction that describes them, so   *)
(* the order of write, sync, COMMIT and sweep is what keeps the two        *)
(* together over failed writes, rollbacks and crashes.  A blob's hash is   *)
(* its content: two contents have one hash only when they are equal.       *)
(***************************************************************************)
EXTENDS Integers, Sequences

CONSTANTS
    Execs,         \* executions of this Host
    Blobs,         \* blob contents, sequences of bytes
    Bytes,         \* the bytes an attachment is made of
    Users,         \* the user's own files, outside the store
    MaxWrites,     \* bound: attachments received
    MaxEdits,      \* bound: changes of the user's files
    MaxCrashes,    \* bound: crashes
    None           \* model value: no row, no file

ASSUME BlobAssumption ==
    /\ Blobs \subseteq Seq(Bytes) /\ <<>> \notin Blobs
    /\ MaxWrites \in Nat /\ MaxEdits \in Nat /\ MaxCrashes \in Nat
    /\ None \notin Seq(Bytes)

VARIABLES
    db,          \* the committed tables: blobs, grants, partials
    tx,          \* the tables of the open transaction, None between transactions
    files,       \* path -> content, None when there is no file
    synced,      \* the paths whose file survives a crash
    copying,     \* user file being copied (copy_blob's blocking task)
    linking,     \* user file -> the content link_blob has hashed
    open,        \* the store is open
    writes, edits, crashes

vars == <<db, tx, files, synced, copying, linking, open, writes, edits, crashes>>
bounds == <<writes, edits, crashes>>

OwnFile(h) == <<"own", h>>
Recv(e, h) == <<"recv", <<e, h>>>>
Copy(u)    == <<"copy", u>>
User(u)    == <<"user", u>>
Paths == {OwnFile(h) : h \in Blobs} \cup {Recv(e, h) : e \in Execs, h \in Blobs}
           \cup {Copy(u) : u \in Users} \cup {User(u) : u \in Users}

BlobRow(path, linked) == [path |-> path, linked |-> linked]
Partial(length, written, committed) ==
    [length |-> length, written |-> written, committed |-> committed]

Lengths == {Len(h) : h \in Blobs}

BlobRows == [path : Paths, linked : BOOLEAN]
PartialRows == [length : Lengths, written : Nat, committed : BOOLEAN]

ASSUME NoneAssumption == None \notin BlobRows /\ None \notin PartialRows

Init ==
    /\ db = [blobs    |-> [h \in Blobs |-> None],
             grants   |-> {},
             admitted |-> {},
             partials |-> [p \in Execs \X Blobs |-> None]]
    /\ tx = None
    /\ \E c \in [Users -> Blobs] :
         files = [p \in Paths |-> IF p[1] = "user" THEN c[p[2]] ELSE None]
    /\ synced = {User(u) : u \in Users}
    /\ copying = {} /\ linking = [u \in Users |-> None]
    /\ open = TRUE
    /\ writes = 0 /\ edits = 0 /\ crashes = 0

\* A caller holds the connection mutex and no transaction is open.
Writer == open /\ tx = None

-----------------------------------------------------------------------------
(* COMMIT and ROLLBACK.                                                     *)

CommitTx ==
    /\ open /\ tx # None
    /\ db' = tx /\ tx' = None
    /\ UNCHANGED <<files, synced, copying, linking, open, bounds>>

RollbackTx ==
    /\ open /\ tx # None
    /\ tx' = None
    /\ UNCHANGED <<db, files, synced, copying, linking, open, bounds>>

-----------------------------------------------------------------------------
(* Admission: the grants of exec.new name blobs the Host holds.             *)

Admit(e, wanted) ==
    /\ Writer
    /\ e \notin db.admitted
    /\ \A h \in wanted : db.blobs[h] # None
    /\ tx' = [db EXCEPT !.admitted = @ \cup {e}, !.grants = @ \cup {<<e, h>> : h \in wanted}]
    /\ UNCHANGED <<db, files, synced, copying, linking, open, bounds>>

-----------------------------------------------------------------------------
(* A dispatch that received an attachment: blob_append and blob_commit stage *)
(* the changes, apply_blob_changes carries them out in persist's transaction.*)

PartialOf(e, h) == db.partials[<<e, h>>]
Written(e, h) == IF PartialOf(e, h) = None THEN 0 ELSE PartialOf(e, h).written

\* The refusals of blob_append, which apply_blob_changes repeats.
AppendFits(e, h, length, bytes) ==
    /\ PartialOf(e, h) # None => /\ ~PartialOf(e, h).committed
                                 /\ PartialOf(e, h).length = length
    /\ Written(e, h) + Len(bytes) <= length

\* A write that always starts the file anew.
Truncated(e, h, bytes) == bytes

\* write_all_at over what a rolled back attempt may have left, or a new file.
Overwritten(e, h, bytes) ==
    IF PartialOf(e, h) = None THEN bytes
    ELSE LET old == files[Recv(e, h)]
             end == Written(e, h) + Len(bytes)
         IN  SubSeq(old, 1, Written(e, h)) \o bytes \o SubSeq(old, end + 1, Len(old))

\* The digest blob_commit compares: the durable prefix and the staged tail.
Digest(e, h, bytes) ==
    (IF PartialOf(e, h) = None THEN <<>> ELSE SubSeq(files[Recv(e, h)], 1, Written(e, h))) \o bytes

\* What blob_commit answers with success after this append.
MayCommit(e, h, length, bytes) ==
    Written(e, h) + Len(bytes) = length /\ Digest(e, h, bytes) = h

\* The row a commit leaves: only a linked row gives way to the received file.
CommittedRow(e, h) ==
    IF db.blobs[h] = None \/ db.blobs[h].linked THEN BlobRow(Recv(e, h), FALSE)
    ELSE db.blobs[h]

Appended(e, h, length, bytes, commit) ==
    LET p == Partial(length, Written(e, h) + Len(bytes), commit)
        staged == [db EXCEPT !.partials = [@ EXCEPT ![<<e, h>>] = p]]
    IN  IF ~commit THEN staged
        ELSE [staged EXCEPT !.blobs = [@ EXCEPT ![h] = CommittedRow(e, h)],
                            !.grants = @ \cup {<<e, h>>}]

\* The file is written and synced, the metadata is staged; COMMIT is still to come.
Receive(e, h, length, bytes, commit) ==
    /\ Writer /\ e \in db.admitted /\ writes < MaxWrites
    /\ AppendFits(e, h, length, bytes)
    /\ commit => MayCommit(e, h, length, bytes)
    /\ files' = [files EXCEPT ![Recv(e, h)] = Overwritten(e, h, bytes)]
    /\ synced' = synced \cup {Recv(e, h)}
    /\ tx' = Appended(e, h, length, bytes, commit)
    /\ writes' = writes + 1
    /\ UNCHANGED <<db, copying, linking, open, edits, crashes>>

\* The write or its sync fails part way; the transaction rolls back.
ReceiveFails(e, h, length, bytes, some) ==
    /\ Writer /\ e \in db.admitted /\ writes < MaxWrites
    /\ AppendFits(e, h, length, bytes)
    /\ some <= Len(bytes)
    /\ files' = [files EXCEPT ![Recv(e, h)] = Overwritten(e, h, SubSeq(bytes, 1, some))]
    /\ synced' = IF PartialOf(e, h) = None THEN synced \ {Recv(e, h)} ELSE synced
    /\ writes' = writes + 1
    /\ UNCHANGED <<db, tx, copying, linking, open, edits, crashes>>

\* blob_commit in a later dispatch than the last append.
CommitReceived(e, h) ==
    /\ Writer
    /\ PartialOf(e, h) # None /\ ~PartialOf(e, h).committed
    /\ MayCommit(e, h, PartialOf(e, h).length, <<>>)
    /\ tx' = Appended(e, h, PartialOf(e, h).length, <<>>, TRUE)
    /\ UNCHANGED <<db, files, synced, copying, linking, open, bounds>>

-----------------------------------------------------------------------------
(* Import by copy (copy_blob) and by link (link_blob).                      *)

\* Hashing while copying, without the connection mutex.
CopyFile(u) ==
    /\ open /\ u \notin copying /\ files[User(u)] \in Blobs
    /\ copying' = copying \cup {u}
    /\ files' = [files EXCEPT ![Copy(u)] = files[User(u)]]
    /\ synced' = synced \cup {Copy(u)}
    /\ UNCHANGED <<db, tx, linking, open, bounds>>

\* rename, then sync_all of the directory.
Renamed(u, h) ==
    /\ files' = [files EXCEPT ![OwnFile(h)] = h, ![Copy(u)] = None]
    /\ synced' = (synced \ {Copy(u)}) \cup {OwnFile(h)}

\* Under the mutex: content already held keeps its record.
FinishCopy(u) ==
    /\ Writer /\ u \in copying
    /\ copying' = copying \ {u}
    /\ LET h == files[Copy(u)]
       IN  IF db.blobs[h] # None
           THEN /\ files' = [files EXCEPT ![Copy(u)] = None]
                /\ synced' = synced \ {Copy(u)}
                /\ tx' = None
           ELSE /\ Renamed(u, h)
                /\ tx' = [db EXCEPT !.blobs = [@ EXCEPT ![h] = BlobRow(OwnFile(h), FALSE)]]
    /\ UNCHANGED <<db, linking, open, bounds>>

HashLink(u) ==
    /\ open /\ linking[u] = None /\ files[User(u)] \in Blobs
    /\ linking' = [linking EXCEPT ![u] = files[User(u)]]
    /\ UNCHANGED <<db, tx, files, synced, copying, open, bounds>>

\* insert_linked_blob without its WHERE blobs.linked = 1.
LinkedOver(u, h) == BlobRow(User(u), TRUE)

LinkedRow(u, h) ==
    IF db.blobs[h] = None \/ db.blobs[h].linked THEN BlobRow(User(u), TRUE) ELSE db.blobs[h]

InsertLink(u) ==
    /\ Writer /\ linking[u] # None
    /\ tx' = [db EXCEPT !.blobs =
                           [@ EXCEPT ![linking[u]] = LinkedRow(u, linking[u])]]
    /\ linking' = [linking EXCEPT ![u] = None]
    /\ UNCHANGED <<db, files, synced, copying, open, bounds>>

\* The user changes or deletes a file the store does not own.
Edit(u, content) ==
    /\ edits < MaxEdits /\ edits' = edits + 1
    /\ files' = [files EXCEPT ![User(u)] = content]
    /\ UNCHANGED <<db, tx, synced, copying, linking, open, writes, crashes>>

-----------------------------------------------------------------------------
(* The process dies: what was not synced may be gone.  Opening sweeps.      *)

Crash(lost) ==
    /\ open /\ crashes < MaxCrashes
    /\ lost \subseteq {p \in Paths : files[p] # None} \ synced
    /\ files' = [p \in Paths |-> IF p \in lost THEN None ELSE files[p]]
    /\ open' = FALSE /\ tx' = None
    /\ copying' = {} /\ linking' = [u \in Users |-> None]
    /\ crashes' = crashes + 1
    /\ UNCHANGED <<db, synced, writes, edits>>

\* The paths sweep_blob_files keeps: every blob's, and of receives still going on.
Retained ==
    {db.blobs[h].path : h \in {g \in Blobs : db.blobs[g] # None}}
      \cup {Recv(q[1], q[2]) : q \in {r \in Execs \X Blobs :
                                        /\ db.partials[r] # None
                                        /\ ~db.partials[r].committed}}

Sweeps(p) == p[1] = "copy" \/ (p[1] \in {"recv", "own"} /\ p \notin Retained)

Open ==
    /\ ~open
    /\ files' = [p \in Paths |-> IF Sweeps(p) THEN None ELSE files[p]]
    /\ synced' = {p \in synced : ~Sweeps(p)}
    /\ open' = TRUE
    /\ UNCHANGED <<db, tx, copying, linking, bounds>>

-----------------------------------------------------------------------------
Chunks == UNION {[1..n -> Bytes] : n \in 1..2}

Receives ==
    \E e \in Execs, h \in Blobs, length \in Lengths, c \in Chunks :
        \/ \E commit \in BOOLEAN : Receive(e, h, length, c, commit)
        \/ \E some \in 0..Len(c) : ReceiveFails(e, h, length, c, some)

Imports == \E u \in Users : CopyFile(u) \/ FinishCopy(u) \/ HashLink(u) \/ InsertLink(u)

Next ==
    \/ CommitTx \/ RollbackTx
    \/ \E e \in Execs, wanted \in SUBSET Blobs : Admit(e, wanted)
    \/ Receives
    \/ \E e \in Execs, h \in Blobs : CommitReceived(e, h)
    \/ Imports
    \/ \E u \in Users, c \in Blobs \cup {None} : Edit(u, c)
    \/ \E lost \in SUBSET Paths : Crash(lost)
    \/ Open

Spec == Init /\ [][Next]_vars

-----------------------------------------------------------------------------
\* Rows, files and the open transaction have their types; a grant names a row.
TypeOK ==
    /\ \A h \in Blobs : db.blobs[h] # None => db.blobs[h].path \in Paths
    /\ \A q \in Execs \X Blobs : db.partials[q] # None =>
          /\ db.partials[q].length \in Lengths
          /\ db.partials[q].written \in 1..db.partials[q].length
    /\ \A g \in db.grants : db.blobs[g[2]] # None
    /\ \A p \in Paths : files[p] # None => files[p] \in Seq(Bytes)
    /\ copying \subseteq Users

\* A blob the Host owns can be read in full whenever its row is committed:
\* copy_blob and apply_blob_changes put the whole file and its directory entry
\* on disk before the row, and no rollback, crash, sweep, later receive or link
\* takes it away.
OwnedBlobsAreWhole ==
    \A h \in Blobs :
        (db.blobs[h] # None /\ ~db.blobs[h].linked) => files[db.blobs[h].path] = h

\* blob_partials: "bytes [0, written) of recv-<exec>-<hash> are durable".  An
\* unfinished receive finds as many bytes as its row says, over failed writes
\* and reopening, so it continues where it stopped and hash_blob_partial never
\* meets a short file.
PartialsAreDurable ==
    \A q \in Execs \X Blobs :
        (db.partials[q] # None /\ ~db.partials[q].committed) =>
            /\ files[Recv(q[1], q[2])] # None
            /\ Len(files[Recv(q[1], q[2])]) >= db.partials[q].written
            /\ Recv(q[1], q[2]) \in synced

\* The bytes an unfinished receive has recorded never change: an append that is
\* rolled back or torn touches only what lies past `written`.
RecordedBytesStay ==
    [][ \A q \in Execs \X Blobs :
          LET p == Recv(q[1], q[2])
              n == db.partials[q].written
          IN  (db.partials[q] # None /\ ~db.partials[q].committed /\ files[p] # None)
                => files'[p] # None /\ \A i \in 1..n : i \in DOMAIN files'[p] /\ files'[p][i] = files[p][i] ]_vars

\* What an execution received and committed is granted to it and stays readable
\* from a file of the Host, although the user linked the same content from a
\* file of his own before or after and edits it.
CommittedStaysReadable ==
    \A q \in Execs \X Blobs :
        (db.partials[q] # None /\ db.partials[q].committed) =>
            /\ q \in db.grants
            /\ db.blobs[q[2]] # None
            /\ ~db.blobs[q[2]].linked
            /\ files[db.blobs[q[2]].path] = q[2]

\* Crashes, power loss and failing writes never cost a blob: one that a row
\* owns can be read in full, an unfinished receive finds the bytes its row
\* records, and what was committed stays granted and readable.
BlobsSurvive ==
    /\ TypeOK
    /\ OwnedBlobsAreWhole
    /\ PartialsAreDurable
    /\ CommittedStaysReadable

\* "An execution receives a given hash at most once, so a published file is
\* never written again."
PublishedNeverWritten ==
    [][ \A h \in Blobs :
          (db.blobs[h] # None /\ ~db.blobs[h].linked) =>
              /\ files'[db.blobs[h].path] = files[db.blobs[h].path]
              /\ db'.blobs[h] = db.blobs[h] ]_vars

\* Reopening leaves no file in the blob directory that no row accounts for: the
\* leavings of crashed copies, rolled back receives and duplicates are gone.
OpenLeavesNoOrphans ==
    [][ (~open /\ open') =>
          \A p \in Paths : (p[1] # "user" /\ files'[p] # None) =>
              \/ \E h \in Blobs : db.blobs[h] # None /\ db.blobs[h].path = p
              \/ \E q \in Execs \X Blobs : /\ p = Recv(q[1], q[2])
                                           /\ db.partials[q] # None
                                           /\ ~db.partials[q].committed ]_vars
=============================================================================
