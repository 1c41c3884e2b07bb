-------------------------- MODULE BlobStoreProofs ---------------------------
(***************************************************************************)
(* What BlobStore promises, for any executions, contents and files and any *)
(* number of receives, edits and crashes. A write changes a file outside   *)
(* the transaction that describes it, so the invariant says that the       *)
(* committed tables and those of the open transaction are both true of the *)
(* files, and of those among them that are on disk for good.               *)
(***************************************************************************)
EXTENDS BlobStore, TLAPS, SequenceTheorems

Tables ==
    [blobs    : [Blobs -> BlobRows \cup {None}],
     grants   : SUBSET (Execs \X Blobs),
     admitted : SUBSET Execs,
     partials : [Execs \X Blobs -> PartialRows \cup {None}]]

Received(d, q) == d.partials[q] # None /\ d.partials[q].committed
Receiving(d, q) == d.partials[q] # None /\ ~d.partials[q].committed

\* The file of an owned blob is its own or one that a receive has finished,
\* and is on disk in full.
RowHolds(d, f, y, h) ==
    (d.blobs[h] # None /\ ~d.blobs[h].linked) =>
        /\ \/ d.blobs[h].path = OwnFile(h)
           \/ \E e \in Execs : /\ d.blobs[h].path = Recv(e, h)
                               /\ Received(d, <<e, h>>)
        /\ f[d.blobs[h].path] = h
        /\ d.blobs[h].path \in y

\* An unfinished receive finds its bytes on disk, and nothing past the length
\* it has announced; a finished one has its grant and its owned row.
PartialHolds(d, f, y, e, h) ==
    /\ d.partials[<<e, h>>] # None =>
          d.partials[<<e, h>>].written \in 1..d.partials[<<e, h>>].length
    /\ Received(d, <<e, h>>) =>
          <<e, h>> \in d.grants /\ d.blobs[h] # None /\ ~d.blobs[h].linked
    /\ Receiving(d, <<e, h>>) =>
          /\ f[Recv(e, h)] \in Seq(Bytes)
          /\ Len(f[Recv(e, h)]) >= d.partials[<<e, h>>].written
          /\ Len(f[Recv(e, h)]) <= d.partials[<<e, h>>].length
          /\ Recv(e, h) \in y

\* Tables that the files f, of which those of y survive a crash, bear out.
Sound(d, f, y) ==
    /\ d \in Tables
    /\ \A g \in d.grants : d.blobs[g[2]] # None
    /\ \A h \in Blobs : RowHolds(d, f, y, h)
    /\ \A e \in Execs, h \in Blobs : PartialHolds(d, f, y, e, h)

\* A transaction replaces no row of an owned blob.
Keeps(d, t) ==
    \A h \in Blobs :
        (d.blobs[h] # None /\ ~d.blobs[h].linked) => t.blobs[h] = d.blobs[h]

\* The committed tables and those of the open transaction are both borne out,
\* so that either may be what a crash, COMMIT or ROLLBACK leaves.
Inv ==
    /\ files \in [Paths -> Seq(Bytes) \cup {None}]
    /\ copying \subseteq Users /\ (copying # {} => open)
    /\ \A u \in copying : files[Copy(u)] \in Blobs
    /\ linking \in [Users -> Blobs \cup {None}]
    /\ Sound(db, files, synced)
    /\ tx # None => open /\ Sound(tx, files, synced) /\ Keeps(db, tx)

-----------------------------------------------------------------------------
(* Paths and tables.                                                        *)

LEMMA PathFacts ==
    ASSUME NEW e \in Execs, NEW h \in Blobs
    PROVE  /\ Recv(e, h) \in Paths /\ OwnFile(h) \in Paths
           /\ \A g \in Blobs : OwnFile(g) = OwnFile(h) => g = h
           /\ \A a \in Execs, g \in Blobs :
                /\ Recv(a, g) = Recv(e, h) => a = e /\ g = h
                /\ Recv(a, g) # OwnFile(h) /\ OwnFile(g) # Recv(e, h)
           /\ \A u \in Users : /\ Copy(u) # Recv(e, h) /\ Copy(u) # OwnFile(h)
                               /\ User(u) # Recv(e, h) /\ User(u) # OwnFile(h)
BY DEF Recv, OwnFile, Copy, User, Paths

LEMMA UserPathFacts ==
    ASSUME NEW u \in Users
    PROVE  /\ Copy(u) \in Paths /\ User(u) \in Paths
           /\ \A v \in Users : Copy(u) # User(v) /\ (Copy(v) = Copy(u) => v = u)
BY DEF Copy, User, Paths

LEMMA OwnFileFacts ==
    ASSUME NEW h \in Blobs
    PROVE  /\ OwnFile(h) \in Paths
           /\ \A g \in Blobs : OwnFile(g) = OwnFile(h) => g = h
           /\ \A a \in Execs, g \in Blobs : Recv(a, g) # OwnFile(h)
           /\ \A u \in Users : Copy(u) # OwnFile(h) /\ User(u) # OwnFile(h)
BY DEF Recv, OwnFile, Copy, User, Paths

LEMMA TablesFields ==
    ASSUME NEW d \in Tables
    PROVE  /\ d.blobs \in [Blobs -> BlobRows \cup {None}]
           /\ d.grants \in SUBSET (Execs \X Blobs) /\ d.admitted \in SUBSET Execs
           /\ d.partials \in [Execs \X Blobs -> PartialRows \cup {None}]
BY DEF Tables

LEMMA RowFields ==
    ASSUME NEW path \in Paths, NEW linked \in BOOLEAN
    PROVE  /\ BlobRow(path, linked) \in BlobRows /\ BlobRow(path, linked) # None
           /\ BlobRow(path, linked).path = path
           /\ BlobRow(path, linked).linked = linked
BY NoneAssumption DEF BlobRow, BlobRows

LEMMA PartialFields ==
    ASSUME NEW length \in Lengths, NEW written \in Nat, NEW committed \in BOOLEAN
    PROVE  LET p == Partial(length, written, committed) IN
           /\ p \in PartialRows /\ p # None /\ p.length = length
           /\ p.written = written /\ p.committed = committed
BY NoneAssumption DEF Partial, PartialRows

\* Contents are sequences of at least one byte.
LEMMA BlobFacts ==
    ASSUME NEW h \in Blobs
    PROVE  h \in Seq(Bytes) /\ h # None
BY BlobAssumption

LEMMA LengthsType == Lengths \subseteq Nat
BY BlobAssumption DEF Lengths

\* Files that nothing in the tables depends on may change.
LEMMA SoundKept ==
    ASSUME NEW d, NEW f, NEW y, NEW g, NEW z, Sound(d, f, y),
           \A h \in Blobs : (d.blobs[h] # None /\ ~d.blobs[h].linked) =>
               /\ g[d.blobs[h].path] = f[d.blobs[h].path]
               /\ d.blobs[h].path \in y => d.blobs[h].path \in z,
           \A e \in Execs, h \in Blobs : Receiving(d, <<e, h>>) =>
               /\ g[Recv(e, h)] = f[Recv(e, h)]
               /\ Recv(e, h) \in y => Recv(e, h) \in z
    PROVE  Sound(d, g, z)
<1>1. \A h \in Blobs : RowHolds(d, g, z, h)
  BY DEF Sound, RowHolds
<1>2. \A e \in Execs, h \in Blobs : PartialHolds(d, g, z, e, h)
  BY DEF Sound, PartialHolds
<1> QED  BY <1>1, <1>2 DEF Sound

\* In particular the user's files and the copies under way.
LEMMA SoundBesides ==
    ASSUME NEW d, NEW f, NEW y, NEW g, NEW z, Sound(d, f, y),
           \A h \in Blobs : /\ g[OwnFile(h)] = f[OwnFile(h)]
                            /\ OwnFile(h) \in y => OwnFile(h) \in z,
           \A e \in Execs, h \in Blobs : /\ g[Recv(e, h)] = f[Recv(e, h)]
                                         /\ Recv(e, h) \in y => Recv(e, h) \in z
    PROVE  Sound(d, g, z)
<1>1. \A h \in Blobs : (d.blobs[h] # None /\ ~d.blobs[h].linked) =>
        \/ d.blobs[h].path = OwnFile(h)
        \/ \E e \in Execs : d.blobs[h].path = Recv(e, h)
  BY DEF Sound, RowHolds
<1>2. \A h \in Blobs : (d.blobs[h] # None /\ ~d.blobs[h].linked) =>
        /\ g[d.blobs[h].path] = f[d.blobs[h].path]
        /\ d.blobs[h].path \in y => d.blobs[h].path \in z
  BY <1>1
<1> QED  BY <1>2, SoundKept

-----------------------------------------------------------------------------
(* Receiving.                                                               *)

LEMMA InvFacts ==
    ASSUME Inv
    PROVE  /\ files \in [Paths -> Seq(Bytes) \cup {None}]
           /\ Sound(db, files, synced) /\ db \in Tables
           /\ \A q \in Execs \X Blobs : db.partials[q] \in PartialRows \cup {None}
           /\ \A h \in Blobs : db.blobs[h] \in BlobRows \cup {None}
BY TablesFields DEF Inv, Sound

\* What an unfinished receive has, and the bytes an append may add to it.
LEMMA ReceiveFacts ==
    ASSUME Inv, NEW e \in Execs, NEW h \in Blobs, PartialOf(e, h) # None,
           ~PartialOf(e, h).committed
    PROVE  LET old == files[Recv(e, h)] IN
           /\ old \in Seq(Bytes) /\ Len(old) \in Nat
           /\ Written(e, h) \in Nat /\ Written(e, h) = PartialOf(e, h).written
           /\ Written(e, h) >= 1
           /\ PartialOf(e, h).length \in Lengths /\ PartialOf(e, h).length \in Nat
           /\ Written(e, h) <= Len(old) /\ Len(old) <= PartialOf(e, h).length
           /\ Recv(e, h) \in synced
<1>1. PartialHolds(db, files, synced, e, h) /\ Receiving(db, <<e, h>>)
  BY InvFacts DEF Sound, Receiving, PartialOf
<1>2. PartialOf(e, h) \in PartialRows
  BY InvFacts DEF PartialOf
<1>3. /\ PartialOf(e, h).length \in Lengths /\ PartialOf(e, h).length \in Nat
      /\ PartialOf(e, h).written \in Nat
  BY <1>2, LengthsType DEF PartialRows
<1>4. Written(e, h) = PartialOf(e, h).written
  BY DEF Written
<1>5. /\ PartialOf(e, h).written >= 1
      /\ files[Recv(e, h)] \in Seq(Bytes)
      /\ Len(files[Recv(e, h)]) >= PartialOf(e, h).written
      /\ Len(files[Recv(e, h)]) <= PartialOf(e, h).length
      /\ Recv(e, h) \in synced
  BY <1>1, <1>3 DEF PartialHolds, PartialOf
<1> QED  BY <1>3, <1>4, <1>5, LenProperties

LEMMA ConcatFacts ==
    ASSUME NEW s \in Seq(Bytes), NEW t \in Seq(Bytes)
    PROVE  /\ s \o t \in Seq(Bytes) /\ Len(s \o t) = Len(s) + Len(t)
           /\ \A i \in 1..Len(s) : (s \o t)[i] = s[i]
<1>1. /\ s \o t \in Seq(Bytes) /\ Len(s \o t) = Len(s) + Len(t)
      /\ \A i \in 1..Len(s) + Len(t) : (s \o t)[i] =
           IF i <= Len(s) THEN s[i] ELSE t[i - Len(s)]
  BY ConcatProperties, Zenon
<1>2. Len(s) \in Nat /\ Len(t) \in Nat
  BY LenProperties
<1>3. \A i \in 1..Len(s) : i \in 1..Len(s) + Len(t) /\ i <= Len(s)
  BY <1>2
<1>4. ASSUME NEW i \in 1..Len(s) PROVE (s \o t)[i] = s[i]
  BY <1>1, <1>3, Zenon
<1> QED  BY <1>1, <1>4

\* The bytes of old up to n, then the new ones, then what was past them.
Spliced(old, n, bytes) == SubSeq(old, 1, n) \o bytes
Splice(old, n, bytes) ==
    Spliced(old, n, bytes) \o SubSeq(old, n + Len(bytes) + 1, Len(old))

LEMMA SpliceFacts ==
    ASSUME NEW old \in Seq(Bytes), NEW bytes \in Seq(Bytes), NEW n \in Nat,
           n <= Len(old)
    PROVE  LET new == Splice(old, n, bytes) IN
           /\ new \in Seq(Bytes)
           /\ Len(new) = n + Len(bytes) \/ Len(new) = Len(old)
           /\ n + Len(bytes) <= Len(new)
           /\ \A i \in 1..n : new[i] = old[i]
           /\ n + Len(bytes) >= Len(old) => new = Spliced(old, n, bytes)
<1> DEFINE end  == n + Len(bytes)
           pre  == SubSeq(old, 1, n)
           rest == SubSeq(old, end + 1, Len(old))
           head == pre \o bytes
           new  == Splice(old, n, bytes)
<1>0. new = head \o rest
  BY DEF Splice, Spliced
<1> HIDE DEF new
<1>1. Len(old) \in Nat /\ Len(bytes) \in Nat /\ end \in Nat
  BY LenProperties
<1>2. pre \in Seq(Bytes) /\ Len(pre) = n /\ \A i \in 1..n : pre[i] = old[i]
  BY <1>1
<1>3. /\ rest \in Seq(Bytes)
      /\ Len(rest) = IF end >= Len(old) THEN 0 ELSE Len(old) - end
  BY <1>1
<1> HIDE DEF pre, rest
<1>4. /\ head \in Seq(Bytes) /\ Len(head) = end
      /\ \A i \in 1..n : head[i] = pre[i]
  <2>1. /\ pre \o bytes \in Seq(Bytes) /\ Len(pre \o bytes) = n + Len(bytes)
        /\ \A i \in 1..n : (pre \o bytes)[i] = pre[i]
    BY <1>2, ConcatFacts
  <2> QED  BY <2>1
<1> HIDE DEF head
<1>5. /\ new \in Seq(Bytes) /\ Len(new) = Len(head) + Len(rest)
      /\ \A i \in 1..Len(head) : new[i] = head[i]
  <2>1. /\ head \o rest \in Seq(Bytes)
        /\ Len(head \o rest) = Len(head) + Len(rest)
        /\ \A i \in 1..Len(head) : (head \o rest)[i] = head[i]
    BY <1>3, <1>4, ConcatFacts, Zenon
  <2> QED  BY <1>0, <2>1, Zenon
<1>6. end >= Len(old) => new = head
  <2>1. end >= Len(old) => rest = <<>>
    BY <1>3, EmptySeq
  <2> QED  BY <1>0, <1>4, <2>1, ConcatEmptySeq
<1>7. (Len(new) = end \/ Len(new) = Len(old)) /\ end <= Len(new)
  <2>1. ASSUME NEW a \in Nat, NEW b \in Nat, NEW r \in Nat,
               r = IF a >= b THEN 0 ELSE b - a
        PROVE  (a + r = a \/ a + r = b) /\ a <= a + r
    BY <2>1
  <2>2. Len(rest) \in Nat /\ Len(new) = end + Len(rest)
    BY <1>3, <1>4, <1>5, LenProperties
  <2>3. (end + Len(rest) = end \/ end + Len(rest) = Len(old)) /\ end <= end + Len(rest)
    BY <1>1, <1>3, <2>1, <2>2, Zenon
  <2> QED  BY <2>2, <2>3, Zenon
<1>8. \A i \in 1..n : new[i] = old[i]
  <2>1. \A i \in 1..n : i \in 1..Len(head)
    BY <1>1, <1>4
  <2> HIDE DEF end
  <2> QED  BY <1>2, <1>4, <1>5, <2>1
<1>9. head = Spliced(old, n, bytes)
  BY DEF head, pre, Spliced
<1> QED  BY <1>5, <1>6, <1>7, <1>8, <1>9 DEF new

\* What write_all_at leaves in the file: the recorded bytes, then the new ones,
\* and never more than the announced length; all of the blob when it commits.
LEMMA OverwrittenFacts ==
    ASSUME Inv, NEW e \in Execs, NEW h \in Blobs, NEW length \in Lengths,
           NEW bytes \in Seq(Bytes), AppendFits(e, h, length, bytes)
    PROVE  LET new == Overwritten(e, h, bytes) IN
           /\ new \in Seq(Bytes) /\ Written(e, h) \in Nat /\ length \in Nat
           /\ Written(e, h) + Len(bytes) <= Len(new) /\ Len(new) <= length
           /\ PartialOf(e, h) # None =>
                /\ ~PartialOf(e, h).committed /\ PartialOf(e, h).length = length
                /\ \A i \in 1..Written(e, h) : new[i] = files[Recv(e, h)][i]
           /\ MayCommit(e, h, length, bytes) => new = h
<1> DEFINE new == Overwritten(e, h, bytes)
           old == files[Recv(e, h)]
           n   == Written(e, h)
<1>1. length \in Nat /\ Len(bytes) \in Nat /\ n + Len(bytes) <= length
  BY LengthsType, LenProperties DEF AppendFits
<1>2. CASE PartialOf(e, h) = None
  <2>1. n = 0 /\ new = bytes /\ Digest(e, h, bytes) = <<>> \o bytes
    BY <1>2 DEF Written, Overwritten, Digest
  <2>2. <<>> \o bytes = bytes
    BY ConcatEmptySeq
  <2> HIDE DEF new
  <2>3. n \in Nat /\ n + Len(bytes) <= Len(new) /\ Len(new) <= length
    BY <1>1, <2>1
  <2>4. MayCommit(e, h, length, bytes) => new = h
    BY <2>1, <2>2 DEF MayCommit
  <2> HIDE DEF n
  <2> QED  BY <1>1, <1>2, <2>1, <2>3, <2>4 DEF new, n
<1>3. CASE PartialOf(e, h) # None
  <2>1. ~PartialOf(e, h).committed /\ PartialOf(e, h).length = length
    BY <1>3 DEF AppendFits
  <2>2. old \in Seq(Bytes) /\ n \in Nat /\ n <= Len(old) /\ Len(old) <= length
    BY <1>3, <2>1, ReceiveFacts
  <2>3. new = Splice(old, n, bytes)
    BY <1>3 DEF Overwritten, Splice, Spliced
  <2>4. Digest(e, h, bytes) = Spliced(old, n, bytes)
    BY <1>3 DEF Digest, Spliced
  <2> HIDE DEF new, old, n
  <2>5. /\ new \in Seq(Bytes)
        /\ Len(new) = n + Len(bytes) \/ Len(new) = Len(old)
        /\ n + Len(bytes) <= Len(new)
        /\ \A i \in 1..n : new[i] = old[i]
        /\ n + Len(bytes) >= Len(old) => new = Spliced(old, n, bytes)
    BY <2>2, <2>3, SpliceFacts
  <2>6. Len(old) \in Nat
    BY <2>2, LenProperties
  <2>7. n + Len(bytes) <= Len(new) /\ Len(new) <= length
    BY <1>1, <2>2, <2>5, <2>6
  <2>8. MayCommit(e, h, length, bytes) => new = h
    <3>1. SUFFICES ASSUME MayCommit(e, h, length, bytes) PROVE new = h
      OBVIOUS
    <3>2. n + Len(bytes) = length /\ Digest(e, h, bytes) = h
      BY <3>1 DEF MayCommit, n
    <3>3. n + Len(bytes) >= Len(old)
      BY <1>1, <2>2, <2>6, <3>2
    <3> QED  BY <2>4, <2>5, <3>2, <3>3
  <2> QED  BY <1>1, <2>1, <2>2, <2>5, <2>7, <2>8 DEF new, old, n
<1> QED  BY <1>2, <1>3

\* Rewriting the file of a receive that is not committed.
LEMMA RewriteSound ==
    ASSUME Inv, NEW e \in Execs, NEW h \in Blobs, NEW length \in Lengths,
           NEW bytes \in Seq(Bytes), AppendFits(e, h, length, bytes), NEW z,
           \A p \in synced : p # Recv(e, h) => p \in z,
           PartialOf(e, h) # None => Recv(e, h) \in z
    PROVE  Sound(db, [files EXCEPT ![Recv(e, h)] = Overwritten(e, h, bytes)], z)
<1> DEFINE new == Overwritten(e, h, bytes)
           g   == [files EXCEPT ![Recv(e, h)] = new]
<1>1. /\ new \in Seq(Bytes) /\ Written(e, h) \in Nat /\ length \in Nat
      /\ Written(e, h) + Len(bytes) <= Len(new) /\ Len(new) <= length
      /\ PartialOf(e, h) # None =>
           ~PartialOf(e, h).committed /\ PartialOf(e, h).length = length
  BY OverwrittenFacts
<1> HIDE DEF new
<1>2. /\ g[Recv(e, h)] = new
      /\ \A p \in Paths : p # Recv(e, h) => g[p] = files[p]
  BY InvFacts, PathFacts
<1> HIDE DEF g
<1>3. ~Received(db, <<e, h>>)
  BY <1>1 DEF Received, PartialOf
<1>4. ASSUME NEW k \in Blobs PROVE RowHolds(db, g, z, k)
  <2>1. RowHolds(db, files, synced, k)
    BY InvFacts DEF Sound
  <2>2. SUFFICES ASSUME db.blobs[k] # None, ~db.blobs[k].linked
                 PROVE  RowHolds(db, g, z, k)
    BY DEF RowHolds
  <2>3. db.blobs[k].path # Recv(e, h) /\ db.blobs[k].path \in Paths
    <3>1. CASE db.blobs[k].path = OwnFile(k)
      BY <3>1, PathFacts, OwnFileFacts
    <3>2. ASSUME NEW a \in Execs, db.blobs[k].path = Recv(a, k),
                 Received(db, <<a, k>>)
          PROVE  db.blobs[k].path # Recv(e, h) /\ db.blobs[k].path \in Paths
      <4>1. <<a, k>> # <<e, h>>
        BY <1>3, <3>2
      <4> QED  BY <3>2, <4>1, PathFacts
    <3> QED  BY <2>1, <2>2, <3>1, <3>2 DEF RowHolds
  <2> QED  BY <1>2, <2>1, <2>2, <2>3 DEF RowHolds
<1>5. ASSUME NEW a \in Execs, NEW k \in Blobs
      PROVE  PartialHolds(db, g, z, a, k)
  <2>1. PartialHolds(db, files, synced, a, k)
    BY InvFacts DEF Sound
  <2>2. CASE Recv(a, k) # Recv(e, h)
    BY <1>2, <2>1, <2>2, PathFacts DEF PartialHolds
  <2>3. CASE a = e /\ k = h /\ PartialOf(e, h) # None
    <3>1. /\ db.partials[<<e, h>>] = PartialOf(e, h)
          /\ Written(e, h) = PartialOf(e, h).written
      BY <2>3 DEF PartialOf, Written
    <3>2. Len(bytes) \in Nat /\ Len(new) \in Nat
      BY <1>1, LenProperties
    <3>3. Written(e, h) <= Len(new)
      BY <1>1, <3>2
    <3> QED  BY <1>1, <1>2, <2>1, <2>3, <3>1, <3>2, <3>3 DEF PartialHolds
  <2>4. CASE a = e /\ k = h /\ PartialOf(e, h) = None
    BY <2>4 DEF PartialHolds, Receiving, Received, PartialOf
  <2> QED  BY <2>2, <2>3, <2>4, PathFacts
<1>6. Sound(db, g, z)
  BY <1>4, <1>5, InvFacts DEF Sound
<1> QED  BY <1>6 DEF g, new

-----------------------------------------------------------------------------
(* What the transactions stage.                                             *)

\* A longer unfinished receive.
LEMMA StagedSound ==
    ASSUME NEW d, NEW g, NEW z, Sound(d, g, z), NEW e \in Execs, NEW h \in Blobs,
           ~Received(d, <<e, h>>), NEW length \in Lengths, NEW n \in Nat, n >= 1,
           g[Recv(e, h)] \in Seq(Bytes), n <= Len(g[Recv(e, h)]),
           Len(g[Recv(e, h)]) <= length, Recv(e, h) \in z
    PROVE  LET t == [d EXCEPT !.partials =
                       [@ EXCEPT ![<<e, h>>] = Partial(length, n, FALSE)]]
           IN  Sound(t, g, z) /\ Keeps(d, t)
<1> DEFINE p == Partial(length, n, FALSE)
           partials == [d.partials EXCEPT ![<<e, h>>] = p]
           t == [d EXCEPT !.partials = partials]
<1>1. /\ d \in Tables /\ d.partials \in [Execs \X Blobs -> PartialRows \cup {None}]
      /\ d.grants \in SUBSET (Execs \X Blobs)
  BY TablesFields DEF Sound
<1>2. /\ p \in PartialRows /\ p # None /\ p.length = length
      /\ p.written = n /\ p.committed = FALSE
  BY PartialFields
<1> HIDE DEF p
<1>3. /\ partials \in [Execs \X Blobs -> PartialRows \cup {None}]
      /\ partials[<<e, h>>] = p
      /\ \A q \in Execs \X Blobs : q # <<e, h>> => partials[q] = d.partials[q]
  BY <1>1, <1>2
<1> HIDE DEF partials
<1>4. /\ t \in Tables /\ t.blobs = d.blobs /\ t.grants = d.grants
      /\ t.partials = partials
  BY <1>1, <1>3 DEF Tables
<1> HIDE DEF t
<1>5. \A q \in Execs \X Blobs : Received(t, q) <=> Received(d, q)
  BY <1>2, <1>3, <1>4 DEF Received
<1>6. \A k \in Blobs : RowHolds(t, g, z, k)
  BY <1>4, <1>5 DEF Sound, RowHolds
<1>7. ASSUME NEW a \in Execs, NEW k \in Blobs PROVE PartialHolds(t, g, z, a, k)
  <2>1. PartialHolds(d, g, z, a, k)
    BY DEF Sound
  <2>2. CASE <<a, k>> # <<e, h>>
    BY <1>3, <1>4, <2>1, <2>2 DEF PartialHolds, Received, Receiving
  <2>3. CASE a = e /\ k = h
    <3>1. length \in Nat /\ Len(g[Recv(e, h)]) \in Nat
      BY LengthsType, LenProperties
    <3>2. n \in 1..length
      BY <3>1
    <3> QED  BY <1>2, <1>3, <1>4, <2>3, <3>2 DEF PartialHolds, Received, Receiving
  <2> QED  BY <2>2, <2>3
<1>8. Sound(t, g, z) /\ Keeps(d, t)
  BY <1>4, <1>6, <1>7 DEF Sound, Keeps
<1> QED  BY <1>8 DEF t, partials, p

\* A committed receive: its row, its grant and its file.
LEMMA PublishedSound ==
    ASSUME NEW d, NEW g, NEW z, Sound(d, g, z), NEW e \in Execs, NEW h \in Blobs,
           ~Received(d, <<e, h>>), NEW length \in Lengths, NEW n \in Nat, n >= 1,
           n <= length, g[Recv(e, h)] = h, Recv(e, h) \in z, NEW row,
           row = IF d.blobs[h] = None \/ d.blobs[h].linked
                 THEN BlobRow(Recv(e, h), FALSE) ELSE d.blobs[h]
    PROVE  LET s == [d EXCEPT !.partials =
                       [@ EXCEPT ![<<e, h>>] = Partial(length, n, TRUE)]]
               t == [s EXCEPT !.blobs = [@ EXCEPT ![h] = row],
                              !.grants = @ \cup {<<e, h>>}]
           IN  Sound(t, g, z) /\ Keeps(d, t)
<1> DEFINE p == Partial(length, n, TRUE)
           partials == [d.partials EXCEPT ![<<e, h>>] = p]
           blobs == [d.blobs EXCEPT ![h] = row]
           grants == d.grants \cup {<<e, h>>}
           s == [d EXCEPT !.partials = partials]
           t == [s EXCEPT !.blobs = blobs, !.grants = grants]
<1>1. /\ d \in Tables /\ d.partials \in [Execs \X Blobs -> PartialRows \cup {None}]
      /\ d.blobs \in [Blobs -> BlobRows \cup {None}]
      /\ d.grants \in SUBSET (Execs \X Blobs)
  BY TablesFields DEF Sound
<1>2. /\ p \in PartialRows /\ p # None /\ p.length = length
      /\ p.written = n /\ p.committed = TRUE
  BY PartialFields
<1> HIDE DEF p
<1>3. /\ row \in BlobRows /\ row # None /\ ~row.linked
      /\ \/ row.path = Recv(e, h) /\ (d.blobs[h] = None \/ d.blobs[h].linked)
         \/ row = d.blobs[h]
  <2>1. BlobRow(Recv(e, h), FALSE) \in BlobRows
        /\ BlobRow(Recv(e, h), FALSE) # None
        /\ BlobRow(Recv(e, h), FALSE).path = Recv(e, h)
        /\ BlobRow(Recv(e, h), FALSE).linked = FALSE
    BY PathFacts, RowFields
  <2>2. d.blobs[h] \in BlobRows \cup {None}
    BY <1>1
  <2>3. CASE d.blobs[h] = None \/ d.blobs[h].linked
    BY <2>1, <2>3
  <2>4. CASE ~(d.blobs[h] = None \/ d.blobs[h].linked)
    BY <2>2, <2>4
  <2> QED  BY <2>3, <2>4
<1>4. /\ partials \in [Execs \X Blobs -> PartialRows \cup {None}]
      /\ partials[<<e, h>>] = p
      /\ \A q \in Execs \X Blobs : q # <<e, h>> => partials[q] = d.partials[q]
  BY <1>1, <1>2
<1>5. /\ blobs \in [Blobs -> BlobRows \cup {None}] /\ blobs[h] = row
      /\ \A k \in Blobs : k # h => blobs[k] = d.blobs[k]
      /\ grants \in SUBSET (Execs \X Blobs)
  BY <1>1, <1>3
<1>6. s.blobs = d.blobs /\ s.grants = d.grants
  BY <1>1 DEF Tables
<1> HIDE DEF partials, blobs, grants
<1>7. /\ t \in Tables /\ t.blobs = blobs /\ t.grants = grants
      /\ t.partials = partials
  BY <1>1, <1>4, <1>5 DEF Tables
<1> HIDE DEF t
<1>8. Keeps(d, t)
  BY <1>3, <1>5, <1>7 DEF Keeps
<1>9. \A k \in Blobs : d.blobs[k] # None => t.blobs[k] # None
  BY <1>3, <1>5, <1>7
<1>10. \A q \in Execs \X Blobs : Received(d, q) => Received(t, q)
  BY <1>2, <1>4, <1>7 DEF Received
<1>11. Received(t, <<e, h>>) /\ ~Receiving(t, <<e, h>>)
  BY <1>2, <1>4, <1>7 DEF Received, Receiving
<1>12. ASSUME NEW k \in Blobs PROVE RowHolds(t, g, z, k)
  <2>1. RowHolds(d, g, z, k)
    BY DEF Sound
  <2>2. CASE t.blobs[k] = d.blobs[k]
    BY <1>10, <2>1, <2>2 DEF RowHolds
  <2>3. CASE k = h /\ row.path = Recv(e, h)
    BY <1>3, <1>5, <1>7, <1>11, <2>3 DEF RowHolds
  <2> QED  BY <1>3, <1>5, <1>7, <2>2, <2>3
<1>13. ASSUME NEW a \in Execs, NEW k \in Blobs PROVE PartialHolds(t, g, z, a, k)
  <2>1. PartialHolds(d, g, z, a, k)
    BY DEF Sound
  <2>2. CASE <<a, k>> # <<e, h>>
    <3>1. /\ t.partials[<<a, k>>] = d.partials[<<a, k>>]
          /\ <<a, k>> \in d.grants => <<a, k>> \in t.grants
      BY <1>4, <1>7, <2>2 DEF grants
    <3>2. Received(d, <<a, k>>) => t.blobs[k] # None /\ ~t.blobs[k].linked
      BY <1>8, <2>1 DEF PartialHolds, Keeps
    <3> QED  BY <2>1, <3>1, <3>2 DEF PartialHolds, Received, Receiving
  <2>3. CASE a = e /\ k = h
    <3>1. length \in Nat
      BY LengthsType
    <3>2. n \in 1..length /\ <<e, h>> \in t.grants
      BY <1>7, <3>1 DEF grants
    <3>3. t.blobs[h] # None /\ ~t.blobs[h].linked
      BY <1>3, <1>5, <1>7
    <3> QED  BY <1>2, <1>4, <1>7, <1>11, <2>3, <3>2, <3>3 DEF PartialHolds
  <2> QED  BY <2>2, <2>3
<1>14. \A q \in t.grants : t.blobs[q[2]] # None
  <2>1. SUFFICES ASSUME NEW q \in t.grants PROVE t.blobs[q[2]] # None
    OBVIOUS
  <2>2. CASE q = <<e, h>>
    BY <1>3, <1>5, <1>7, <2>2
  <2>3. CASE q \in d.grants
    <3>1. q[2] \in Blobs
      BY <1>1, <2>3
    <3> QED  BY <1>9, <2>3, <3>1 DEF Sound
  <2> QED  BY <1>7, <2>1, <2>2, <2>3 DEF grants
<1>15. Sound(t, g, z)
  BY <1>7, <1>12, <1>13, <1>14 DEF Sound
<1> HIDE DEF s
<1>16. t = [s EXCEPT !.blobs = [@ EXCEPT ![h] = row],
                     !.grants = @ \cup {<<e, h>>}]
  BY <1>6 DEF t, blobs, grants
<1> QED  BY <1>8, <1>15, <1>16 DEF s, partials, p

\* Grants of an admission, and a row for a blob that has none of its own.
LEMMA GrantedSound ==
    ASSUME NEW d, NEW g, NEW z, Sound(d, g, z), NEW e \in Execs,
           NEW wanted \in SUBSET Blobs, \A h \in wanted : d.blobs[h] # None
    PROVE  LET t == [d EXCEPT !.admitted = @ \cup {e},
                              !.grants = @ \cup {<<e, h>> : h \in wanted}]
           IN  Sound(t, g, z) /\ Keeps(d, t)
<1> DEFINE admitted == d.admitted \cup {e}
           grants == d.grants \cup {<<e, h>> : h \in wanted}
           t == [d EXCEPT !.admitted = admitted, !.grants = grants]
<1>1. /\ d \in Tables /\ d.grants \in SUBSET (Execs \X Blobs)
      /\ d.admitted \in SUBSET Execs
  BY TablesFields DEF Sound
<1>2. /\ admitted \in SUBSET Execs /\ grants \in SUBSET (Execs \X Blobs)
      /\ d.grants \subseteq grants /\ \A q \in grants : d.blobs[q[2]] # None
  BY <1>1 DEF Sound
<1> HIDE DEF admitted, grants
<1>3. /\ t \in Tables /\ t.blobs = d.blobs /\ t.grants = grants
      /\ t.partials = d.partials
  BY <1>1, <1>2 DEF Tables
<1> HIDE DEF t
<1>4. \A h \in Blobs : RowHolds(t, g, z, h)
  BY <1>3 DEF Sound, RowHolds, Received
<1>5. \A a \in Execs, h \in Blobs : PartialHolds(t, g, z, a, h)
  BY <1>2, <1>3 DEF Sound, PartialHolds, Received, Receiving
<1>6. Sound(t, g, z) /\ Keeps(d, t)
  BY <1>2, <1>3, <1>4, <1>5 DEF Sound, Keeps
<1> QED  BY <1>6 DEF t, admitted, grants

LEMMA RowSound ==
    ASSUME NEW d, NEW g, NEW z, Sound(d, g, z), NEW h \in Blobs,
           NEW row \in BlobRows, row # None,
           \/ row = d.blobs[h]
           \/ /\ d.blobs[h] = None \/ d.blobs[h].linked
              /\ row.linked \/ /\ row.path = OwnFile(h) /\ g[OwnFile(h)] = h
                               /\ OwnFile(h) \in z
    PROVE  LET t == [d EXCEPT !.blobs = [@ EXCEPT ![h] = row]]
           IN  Sound(t, g, z) /\ Keeps(d, t)
<1> DEFINE blobs == [d.blobs EXCEPT ![h] = row]
           t == [d EXCEPT !.blobs = blobs]
<1>1. /\ d \in Tables /\ d.blobs \in [Blobs -> BlobRows \cup {None}]
      /\ d.grants \in SUBSET (Execs \X Blobs)
  BY TablesFields DEF Sound
<1>2. /\ blobs \in [Blobs -> BlobRows \cup {None}] /\ blobs[h] = row
      /\ \A k \in Blobs : k # h => blobs[k] = d.blobs[k]
  BY <1>1
<1> HIDE DEF blobs
<1>3. /\ t \in Tables /\ t.blobs = blobs /\ t.grants = d.grants
      /\ t.partials = d.partials
  BY <1>1, <1>2 DEF Tables
<1> HIDE DEF t
<1>4. Keeps(d, t)
  BY <1>2, <1>3 DEF Keeps
<1>5. ASSUME NEW k \in Blobs PROVE RowHolds(t, g, z, k)
  <2>1. RowHolds(d, g, z, k)
    BY DEF Sound
  <2>2. CASE t.blobs[k] = d.blobs[k]
    BY <1>3, <2>1, <2>2 DEF RowHolds, Received
  <2>3. CASE k = h /\ row # d.blobs[h]
    BY <1>2, <1>3, <2>3 DEF RowHolds
  <2> QED  BY <1>2, <1>3, <2>2, <2>3
<1>6. ASSUME NEW a \in Execs, NEW k \in Blobs PROVE PartialHolds(t, g, z, a, k)
  <2>1. PartialHolds(d, g, z, a, k)
    BY DEF Sound
  <2>2. Received(d, <<a, k>>) => t.blobs[k] # None /\ ~t.blobs[k].linked
    BY <1>4, <2>1 DEF PartialHolds, Keeps
  <2> QED  BY <1>3, <2>1, <2>2 DEF PartialHolds, Received, Receiving
<1>7. \A q \in t.grants : t.blobs[q[2]] # None
  <2>1. \A k \in Blobs : d.blobs[k] # None => t.blobs[k] # None
    BY <1>2, <1>3
  <2>2. \A q \in t.grants : q[2] \in Blobs /\ d.blobs[q[2]] # None
    BY <1>1, <1>3 DEF Sound
  <2> QED  BY <2>1, <2>2
<1>8. Sound(t, g, z)
  BY <1>3, <1>5, <1>6, <1>7 DEF Sound
<1> QED  BY <1>4, <1>8 DEF t, blobs

-----------------------------------------------------------------------------
(* Every action keeps the invariant, the rows and files of owned blobs and  *)
(* the recorded bytes of receives.                                          *)

RowsKept ==
    \A h \in Blobs : (db.blobs[h] # None /\ ~db.blobs[h].linked) =>
        /\ files'[db.blobs[h].path] = files[db.blobs[h].path]
        /\ db'.blobs[h] = db.blobs[h]

BytesKept ==
    \A e \in Execs, h \in Blobs : Receiving(db, <<e, h>>) =>
        /\ files'[Recv(e, h)] \in Seq(Bytes)
        /\ \A i \in 1..db.partials[<<e, h>>].written :
              /\ i \in DOMAIN files'[Recv(e, h)]
              /\ files'[Recv(e, h)][i] = files[Recv(e, h)][i]

Safe == Inv' /\ RowsKept /\ BytesKept

\* Where the file of an owned blob is.
LEMMA OwnedPath ==
    ASSUME Inv, NEW h \in Blobs, db.blobs[h] # None, ~db.blobs[h].linked
    PROVE  /\ \/ db.blobs[h].path = OwnFile(h)
              \/ \E e \in Execs : /\ db.blobs[h].path = Recv(e, h)
                                  /\ Received(db, <<e, h>>)
           /\ db.blobs[h].path \in Paths /\ db.blobs[h].path \in synced
           /\ files[db.blobs[h].path] = h
<1>1. RowHolds(db, files, synced, h) /\ db.blobs[h] \in BlobRows
  BY InvFacts DEF Sound
<1>2. db.blobs[h].path \in Paths
  BY <1>1 DEF BlobRows
<1> QED  BY <1>1, <1>2 DEF RowHolds

\* The bytes that a receive has recorded are there.
LEMMA BytesThere ==
    ASSUME Inv, NEW e \in Execs, NEW h \in Blobs, Receiving(db, <<e, h>>)
    PROVE  /\ files[Recv(e, h)] \in Seq(Bytes)
           /\ \A i \in 1..db.partials[<<e, h>>].written :
                i \in DOMAIN files[Recv(e, h)]
<1>1. PartialOf(e, h) # None /\ ~PartialOf(e, h).committed
  BY DEF Receiving, PartialOf
<1>2. /\ files[Recv(e, h)] \in Seq(Bytes) /\ Len(files[Recv(e, h)]) \in Nat
      /\ db.partials[<<e, h>>].written \in Nat
      /\ db.partials[<<e, h>>].written <= Len(files[Recv(e, h)])
  BY <1>1, ReceiveFacts DEF PartialOf
<1> QED  BY <1>2

LEMMA BytesKeptWhen ==
    ASSUME Inv, \A e \in Execs, h \in Blobs : Receiving(db, <<e, h>>) =>
                    files'[Recv(e, h)] = files[Recv(e, h)]
    PROVE  BytesKept
<1>1. SUFFICES ASSUME NEW e \in Execs, NEW h \in Blobs, Receiving(db, <<e, h>>)
               PROVE  /\ files'[Recv(e, h)] \in Seq(Bytes)
                      /\ \A i \in 1..db.partials[<<e, h>>].written :
                            /\ i \in DOMAIN files'[Recv(e, h)]
                            /\ files'[Recv(e, h)][i] = files[Recv(e, h)][i]
  BY DEF BytesKept
<1>2. files'[Recv(e, h)] = files[Recv(e, h)]
  BY <1>1
<1> QED  BY <1>1, <1>2, BytesThere

\* Actions that leave all files as they are.
LEMMA SameFilesSafe ==
    ASSUME Inv, UNCHANGED files, Keeps(db, db'), Inv'
    PROVE  Safe
<1>1. BytesKept
  BY BytesKeptWhen
<1>2. RowsKept
  BY DEF RowsKept, Keeps
<1> QED  BY <1>1, <1>2 DEF Safe

\* Actions that change only copies under way and the user's files.
LEMMA OutsideSafe ==
    ASSUME Inv, NEW u \in Users, NEW p \in {Copy(u), User(u)}, NEW c,
           files' = [files EXCEPT ![p] = c], c \in Seq(Bytes) \cup {None},
           synced \subseteq synced', UNCHANGED <<db, tx, open, linking>>,
           copying' \subseteq Users, copying' # {} => open,
           \A v \in copying' : files'[Copy(v)] \in Blobs
    PROVE  Safe
<1>1. /\ files' \in [Paths -> Seq(Bytes) \cup {None}]
      /\ \A h \in Blobs : files'[OwnFile(h)] = files[OwnFile(h)]
      /\ \A e \in Execs, h \in Blobs : files'[Recv(e, h)] = files[Recv(e, h)]
  BY InvFacts, PathFacts, OwnFileFacts, UserPathFacts
<1>2. \A d : Sound(d, files, synced) => Sound(d, files', synced')
  <2>1. SUFFICES ASSUME NEW d, Sound(d, files, synced)
                 PROVE  Sound(d, files', synced')
    OBVIOUS
  <2>2. /\ \A h \in Blobs : OwnFile(h) \in synced => OwnFile(h) \in synced'
        /\ \A e \in Execs, h \in Blobs : Recv(e, h) \in synced => Recv(e, h) \in synced'
    OBVIOUS
  <2>3. ASSUME NEW g, NEW z,
               \A h \in Blobs : /\ g[OwnFile(h)] = files[OwnFile(h)]
                                /\ OwnFile(h) \in synced => OwnFile(h) \in z,
               \A e \in Execs, h \in Blobs :
                   /\ g[Recv(e, h)] = files[Recv(e, h)]
                   /\ Recv(e, h) \in synced => Recv(e, h) \in z
        PROVE  Sound(d, g, z)
    BY <2>1, <2>3, SoundBesides
  <2> QED  BY <1>1, <2>2, <2>3, Zenon
<1>3. Inv'
  BY <1>1, <1>2 DEF Inv, Keeps
<1>4. BytesKept
  BY <1>1, BytesKeptWhen
<1>5. RowsKept
  <2>1. ASSUME NEW h \in Blobs, db.blobs[h] # None, ~db.blobs[h].linked
        PROVE  files'[db.blobs[h].path] = files[db.blobs[h].path]
    <3>1. CASE db.blobs[h].path = OwnFile(h)
      BY <1>1, <3>1
    <3>2. ASSUME NEW e \in Execs, db.blobs[h].path = Recv(e, h)
          PROVE  files'[db.blobs[h].path] = files[db.blobs[h].path]
      BY <1>1, <3>2
    <3> QED  BY <2>1, <3>1, <3>2, OwnedPath
  <2> QED  BY <2>1 DEF RowsKept
<1> QED  BY <1>3, <1>4, <1>5 DEF Safe

\* Actions that only open a transaction.
LEMMA StagedSafe ==
    ASSUME Inv, Writer, NEW t, tx' = t, Sound(t, files, synced), Keeps(db, t),
           UNCHANGED <<db, files, synced, copying, open>>,
           linking' \in [Users -> Blobs \cup {None}]
    PROVE  Safe
<1>1. Inv'
  BY DEF Inv, Writer
<1>2. Keeps(db, db')
  BY DEF Keeps
<1> QED  BY <1>1, <1>2, SameFilesSafe

LEMMA EndTxSafe ==
    ASSUME Inv, CommitTx \/ RollbackTx
    PROVE  Safe
<1>1. Keeps(db, db)
  BY DEF Keeps
<1>2. CASE CommitTx
  <2>1. Inv' /\ Keeps(db, db') /\ UNCHANGED files
    BY <1>2 DEF CommitTx, Inv
  <2> QED  BY <2>1, SameFilesSafe
<1>3. CASE RollbackTx
  <2>1. Inv' /\ Keeps(db, db') /\ UNCHANGED files
    BY <1>1, <1>3 DEF RollbackTx, Inv
  <2> QED  BY <2>1, SameFilesSafe
<1> QED  BY <1>2, <1>3

LEMMA AdmitSafe ==
    ASSUME Inv, NEW e \in Execs, NEW wanted \in SUBSET Blobs, Admit(e, wanted)
    PROVE  Safe
<1> DEFINE t == [db EXCEPT !.admitted = @ \cup {e},
                           !.grants = @ \cup {<<e, h>> : h \in wanted}]
<1>1. Sound(t, files, synced) /\ Keeps(db, t)
  BY InvFacts, GrantedSound DEF Admit
<1>2. tx' = t /\ Writer /\ UNCHANGED <<db, files, synced, copying, linking, open>>
  BY DEF Admit
<1> HIDE DEF t
<1>3. linking' \in [Users -> Blobs \cup {None}]
  BY <1>2 DEF Inv
<1> QED  BY <1>1, <1>2, <1>3, StagedSafe

LEMMA ChunkFacts ==
    ASSUME NEW c \in Chunks
    PROVE  c \in Seq(Bytes) /\ Len(c) \in Nat /\ Len(c) >= 1
<1>1. PICK n \in 1..2 : c \in [1..n -> Bytes]
  BY DEF Chunks
<1>2. n \in Nat /\ n >= 1
  OBVIOUS
<1>3. c \in Seq(Bytes) /\ Len(c) = n
  BY <1>1, <1>2
<1> QED  BY <1>2, <1>3

\* A receive that writes its file, with or without a transaction to show for it.
LEMMA WriteSafe ==
    ASSUME Inv, Writer, NEW e \in Execs, NEW h \in Blobs, NEW length \in Lengths,
           NEW bytes \in Seq(Bytes), AppendFits(e, h, length, bytes),
           files' = [files EXCEPT ![Recv(e, h)] = Overwritten(e, h, bytes)],
           \A p \in synced : p # Recv(e, h) => p \in synced',
           PartialOf(e, h) # None => Recv(e, h) \in synced',
           tx' # None => Sound(tx', files', synced') /\ Keeps(db, tx'),
           UNCHANGED <<db, copying, linking, open>>
    PROVE  Safe
<1> DEFINE new == Overwritten(e, h, bytes)
<1>1. /\ new \in Seq(Bytes) /\ Written(e, h) \in Nat /\ length \in Nat
      /\ Written(e, h) + Len(bytes) <= Len(new)
      /\ PartialOf(e, h) # None =>
           /\ ~PartialOf(e, h).committed
           /\ \A i \in 1..Written(e, h) : new[i] = files[Recv(e, h)][i]
  BY OverwrittenFacts
<1>2. Sound(db, files', synced')
  BY RewriteSound
<1> HIDE DEF new
<1>3. /\ files' \in [Paths -> Seq(Bytes) \cup {None}] /\ files'[Recv(e, h)] = new
      /\ \A p \in Paths : p # Recv(e, h) => files'[p] = files[p]
  BY <1>1, InvFacts, PathFacts DEF new
<1>4. \A u \in copying : files'[Copy(u)] \in Blobs
  BY <1>3, UserPathFacts, PathFacts DEF Inv
<1>5. Inv'
  BY <1>2, <1>3, <1>4 DEF Inv, Writer
<1>6. ASSUME NEW k \in Blobs, db.blobs[k] # None, ~db.blobs[k].linked
      PROVE  files'[db.blobs[k].path] = files[db.blobs[k].path]
  <2>1. ~Received(db, <<e, h>>)
    BY <1>1 DEF Received, PartialOf
  <2>2. db.blobs[k].path # Recv(e, h) /\ db.blobs[k].path \in Paths
    <3>1. CASE db.blobs[k].path = OwnFile(k)
      BY <3>1, PathFacts, OwnFileFacts
    <3>2. ASSUME NEW a \in Execs, db.blobs[k].path = Recv(a, k),
                 Received(db, <<a, k>>)
          PROVE  db.blobs[k].path # Recv(e, h) /\ db.blobs[k].path \in Paths
      <4>1. <<a, k>> # <<e, h>>
        BY <2>1, <3>2
      <4> QED  BY <3>2, <4>1, PathFacts
    <3> QED  BY <1>6, <3>1, <3>2, OwnedPath
  <2> QED  BY <1>3, <2>2
<1>7. ASSUME NEW a \in Execs, NEW k \in Blobs, Receiving(db, <<a, k>>)
      PROVE  /\ files'[Recv(a, k)] \in Seq(Bytes)
             /\ \A i \in 1..db.partials[<<a, k>>].written :
                   /\ i \in DOMAIN files'[Recv(a, k)]
                   /\ files'[Recv(a, k)][i] = files[Recv(a, k)][i]
  <2>1. CASE Recv(a, k) # Recv(e, h)
    <3>1. files'[Recv(a, k)] = files[Recv(a, k)]
      BY <1>3, <2>1, PathFacts
    <3> QED  BY <1>7, <3>1, BytesThere
  <2>2. CASE a = e /\ k = h
    <3>1. PartialOf(e, h) # None /\ db.partials[<<e, h>>].written = Written(e, h)
      BY <1>7, <2>2 DEF Receiving, PartialOf, Written
    <3>2. Len(bytes) \in Nat /\ Len(new) \in Nat /\ DOMAIN new = 1..Len(new)
      BY <1>1, LenProperties
    <3>3. \A i \in 1..Written(e, h) : i \in DOMAIN new
      BY <1>1, <3>2
    <3> QED  BY <1>1, <1>3, <2>2, <3>1, <3>3
  <2> QED  BY <2>1, <2>2, PathFacts, SMTT(30)
<1>8. RowsKept /\ BytesKept
  BY <1>6, <1>7 DEF RowsKept, BytesKept
<1> QED  BY <1>5, <1>8 DEF Safe

LEMMA ReceiveSafe ==
    ASSUME Inv, NEW e \in Execs, NEW h \in Blobs, NEW length \in Lengths,
           NEW c \in Chunks,
           Receive(e, h, length, c, TRUE) \/ Receive(e, h, length, c, FALSE)
    PROVE  Safe
<1> DEFINE new == Overwritten(e, h, c)
           n   == Written(e, h) + Len(c)
<1>1. c \in Seq(Bytes) /\ Len(c) \in Nat /\ Len(c) >= 1
  BY ChunkFacts
<1>2. /\ Writer /\ AppendFits(e, h, length, c)
      /\ files' = [files EXCEPT ![Recv(e, h)] = new]
      /\ synced' = synced \cup {Recv(e, h)}
      /\ UNCHANGED <<db, copying, linking, open>>
  BY DEF Receive
<1>3. /\ new \in Seq(Bytes) /\ Written(e, h) \in Nat /\ length \in Nat
      /\ n <= Len(new) /\ Len(new) <= length
      /\ PartialOf(e, h) # None => ~PartialOf(e, h).committed
      /\ MayCommit(e, h, length, c) => new = h
  BY <1>1, <1>2, OverwrittenFacts
<1>4. n \in Nat /\ n >= 1 /\ Len(new) \in Nat /\ n <= length
  BY <1>1, <1>3, LenProperties
<1>5. /\ \A p \in synced : p # Recv(e, h) => p \in synced'
      /\ Recv(e, h) \in synced'
  BY <1>2
<1>6. Sound(db, files', synced')
  BY <1>1, <1>2, <1>5, RewriteSound
<1>7. files'[Recv(e, h)] = new
  BY <1>2, InvFacts, PathFacts
<1>8. ~Received(db, <<e, h>>)
  BY <1>3 DEF Received, PartialOf
<1> HIDE DEF new, n
<1>9. Sound(tx', files', synced') /\ Keeps(db, tx')
  <2>1. CASE Receive(e, h, length, c, FALSE)
    <3>1. tx' = [db EXCEPT !.partials =
                   [@ EXCEPT ![<<e, h>>] = Partial(length, n, FALSE)]]
      BY <2>1 DEF Receive, Appended, n
    <3> QED  BY <1>3, <1>4, <1>5, <1>6, <1>7, <1>8, <3>1, StagedSound
  <2>2. CASE Receive(e, h, length, c, TRUE)
    <3> DEFINE s == [db EXCEPT !.partials =
                       [@ EXCEPT ![<<e, h>>] = Partial(length, n, TRUE)]]
    <3>1. tx' = [s EXCEPT !.blobs = [@ EXCEPT ![h] = CommittedRow(e, h)],
                          !.grants = @ \cup {<<e, h>>}]
      BY <2>2 DEF Receive, Appended, n
    <3>2. new = h
      BY <1>3, <2>2 DEF Receive
    <3>3. CommittedRow(e, h) = IF db.blobs[h] = None \/ db.blobs[h].linked
            THEN BlobRow(Recv(e, h), FALSE) ELSE db.blobs[h]
      BY DEF CommittedRow
    <3> QED  BY <1>4, <1>5, <1>6, <1>7, <1>8, <3>1, <3>2, <3>3, PublishedSound
  <2> QED  BY <2>1, <2>2
<1> QED  BY <1>1, <1>2, <1>5, <1>9, WriteSafe DEF new

LEMMA ReceiveFailsSafe ==
    ASSUME Inv, NEW e \in Execs, NEW h \in Blobs, NEW length \in Lengths,
           NEW c \in Chunks, NEW some \in 0..Len(c),
           ReceiveFails(e, h, length, c, some)
    PROVE  Safe
<1> DEFINE bytes == SubSeq(c, 1, some)
<1>1. c \in Seq(Bytes) /\ Len(c) \in Nat
  BY ChunkFacts
<1>2. bytes \in Seq(Bytes) /\ Len(bytes) = some /\ some \in Nat /\ some <= Len(c)
  BY <1>1
<1>3. /\ Writer /\ AppendFits(e, h, length, c)
      /\ files' = [files EXCEPT ![Recv(e, h)] = Overwritten(e, h, bytes)]
      /\ synced' = IF PartialOf(e, h) = None THEN synced \ {Recv(e, h)} ELSE synced
      /\ UNCHANGED <<db, tx, copying, linking, open>>
  BY DEF ReceiveFails
<1>4. Written(e, h) \in Nat /\ length \in Nat
  BY <1>1, <1>3, OverwrittenFacts
<1> HIDE DEF bytes
<1>5. AppendFits(e, h, length, bytes)
  BY <1>1, <1>2, <1>3, <1>4 DEF AppendFits
<1>6. /\ \A p \in synced : p # Recv(e, h) => p \in synced'
      /\ PartialOf(e, h) # None => Recv(e, h) \in synced'
  <2>1. PartialOf(e, h) # None => Recv(e, h) \in synced
    BY <1>3, ReceiveFacts DEF AppendFits
  <2> QED  BY <1>3, <2>1
<1>7. tx' = None
  BY <1>3 DEF Writer
<1> QED  BY <1>2, <1>3, <1>5, <1>6, <1>7, WriteSafe

LEMMA CommitReceivedSafe ==
    ASSUME Inv, NEW e \in Execs, NEW h \in Blobs, CommitReceived(e, h)
    PROVE  Safe
<1> DEFINE length == PartialOf(e, h).length
           n      == Written(e, h)
           old    == files[Recv(e, h)]
<1>1. /\ Writer /\ PartialOf(e, h) # None /\ ~PartialOf(e, h).committed
      /\ MayCommit(e, h, length, <<>>) /\ tx' = Appended(e, h, length, <<>>, TRUE)
      /\ UNCHANGED <<db, files, synced, copying, linking, open>>
  BY DEF CommitReceived
<1>2. /\ old \in Seq(Bytes) /\ Len(old) \in Nat /\ n \in Nat /\ n >= 1
      /\ length \in Lengths /\ length \in Nat
      /\ n <= Len(old) /\ Len(old) <= length /\ Recv(e, h) \in synced
  BY <1>1, ReceiveFacts
<1>3. <<>> \in Seq(Bytes) /\ Len(<<>>) = 0
  OBVIOUS
<1>4. n = length
  BY <1>1, <1>2, <1>3 DEF MayCommit
<1>5. AppendFits(e, h, length, <<>>)
  BY <1>1, <1>2, <1>3, <1>4 DEF AppendFits
<1>6. old = h
  <2>1. Overwritten(e, h, <<>>) = h
    BY <1>1, <1>2, <1>3, <1>5, OverwrittenFacts
  <2>2. Overwritten(e, h, <<>>) = Splice(old, n, <<>>)
    BY <1>1 DEF Overwritten, Splice, Spliced
  <2>3. Len(old) = n
    BY <1>2, <1>4
  <2> HIDE DEF old, n
  <2>4. Splice(old, n, <<>>) = old
    <3> DEFINE new == Splice(old, n, <<>>)
    <3>1. /\ new \in Seq(Bytes)
          /\ Len(new) = n + Len(<<>>) \/ Len(new) = Len(old)
          /\ \A i \in 1..n : new[i] = old[i]
      BY <1>2, <1>3, SpliceFacts
    <3> HIDE DEF new
    <3>2. Len(new) = Len(old)
      BY <1>2, <1>3, <2>3, <3>1
    <3>3. new = old
      <4>1. /\ old \in Seq(Bytes) /\ new \in Seq(Bytes)
            /\ \A i \in 1..Len(new) : new[i] = old[i]
        BY <1>2, <2>3, <3>1, <3>2 DEF old
      <4> QED  BY <3>2, <4>1, SeqEqual, Zenon
    <3> QED  BY <3>3 DEF new
  <2> QED  BY <2>1, <2>2, <2>4
<1>7. ~Received(db, <<e, h>>)
  BY <1>1 DEF Received, PartialOf
<1> DEFINE s == [db EXCEPT !.partials =
                   [@ EXCEPT ![<<e, h>>] = Partial(length, n, TRUE)]]
<1>8. tx' = [s EXCEPT !.blobs = [@ EXCEPT ![h] = CommittedRow(e, h)],
                      !.grants = @ \cup {<<e, h>>}]
  <2>1. Written(e, h) + Len(<<>>) = n
    BY <1>2, <1>3
  <2> QED  BY <1>1, <2>1 DEF Appended
<1>9. CommittedRow(e, h) = IF db.blobs[h] = None \/ db.blobs[h].linked
        THEN BlobRow(Recv(e, h), FALSE) ELSE db.blobs[h]
  BY DEF CommittedRow
<1> HIDE DEF length, n
<1>10. Sound(tx', files, synced) /\ Keeps(db, tx')
  <2>1. /\ Sound(db, files, synced) /\ files[Recv(e, h)] = h
        /\ n \in Nat /\ n >= 1 /\ n <= length /\ length \in Lengths
        /\ Recv(e, h) \in synced
    BY <1>2, <1>4, <1>6, InvFacts
  <2> QED  BY <1>7, <1>8, <1>9, <2>1, PublishedSound
<1>11. linking' \in [Users -> Blobs \cup {None}]
  BY <1>1 DEF Inv
<1> QED  BY <1>1, <1>10, <1>11, StagedSafe


-----------------------------------------------------------------------------
(* Imports, edits, crashes and reopening.                                   *)

LEMMA CopyFileSafe ==
    ASSUME Inv, NEW u \in Users, CopyFile(u)
    PROVE  Safe
<1> DEFINE c == files[User(u)]
<1>1. /\ open /\ c \in Blobs /\ copying' = copying \cup {u}
      /\ files' = [files EXCEPT ![Copy(u)] = c]
      /\ synced \subseteq synced' /\ UNCHANGED <<db, tx, open, linking>>
  BY DEF CopyFile
<1>2. c \in Seq(Bytes) \cup {None}
  BY <1>1, BlobFacts
<1> HIDE DEF c
<1>3. copying \subseteq Users /\ \A v \in copying : files[Copy(v)] \in Blobs
  BY DEF Inv
<1>4. \A v \in Users : files'[Copy(v)] = IF v = u THEN c ELSE files[Copy(v)]
  BY <1>1, InvFacts, UserPathFacts
<1>5. /\ copying' \subseteq Users /\ (copying' # {} => open)
      /\ \A v \in copying' : files'[Copy(v)] \in Blobs
  BY <1>1, <1>3, <1>4
<1> QED  BY <1>1, <1>2, <1>5, OutsideSafe

LEMMA EditSafe ==
    ASSUME Inv, NEW u \in Users, NEW c \in Blobs \cup {None}, Edit(u, c)
    PROVE  Safe
<1>1. /\ files' = [files EXCEPT ![User(u)] = c]
      /\ synced \subseteq synced' /\ UNCHANGED <<db, tx, open, linking, copying>>
  BY DEF Edit
<1>2. c \in Seq(Bytes) \cup {None}
  BY BlobFacts
<1>3. /\ copying \subseteq Users /\ (copying # {} => open)
      /\ \A v \in copying : files[Copy(v)] \in Blobs
  BY DEF Inv
<1>4. \A v \in Users : files'[Copy(v)] = files[Copy(v)]
  BY <1>1, InvFacts, UserPathFacts
<1>5. /\ copying' \subseteq Users /\ (copying' # {} => open)
      /\ \A v \in copying' : files'[Copy(v)] \in Blobs
  BY <1>1, <1>3, <1>4
<1> QED  BY <1>1, <1>2, <1>5, OutsideSafe

LEMMA HashLinkSafe ==
    ASSUME Inv, NEW u \in Users, HashLink(u)
    PROVE  Safe
<1>1. Inv'
  BY DEF HashLink, Inv, Keeps
<1>2. UNCHANGED files /\ Keeps(db, db')
  BY DEF HashLink, Keeps
<1> QED  BY <1>1, <1>2, SameFilesSafe

LEMMA InsertLinkSafe ==
    ASSUME Inv, NEW u \in Users, InsertLink(u)
    PROVE  Safe
<1> DEFINE h == linking[u]
           row == LinkedRow(u, h)
           t == [db EXCEPT !.blobs = [@ EXCEPT ![h] = row]]
<1>1. /\ Writer /\ h # None /\ tx' = t
      /\ linking' = [linking EXCEPT ![u] = None]
      /\ UNCHANGED <<db, files, synced, copying, open>>
  BY DEF InsertLink
<1>2. h \in Blobs /\ linking' \in [Users -> Blobs \cup {None}]
  BY <1>1 DEF Inv
<1> HIDE DEF h
<1>3. /\ row \in BlobRows /\ row # None
      /\ \/ row = db.blobs[h]
         \/ (db.blobs[h] = None \/ db.blobs[h].linked) /\ row.linked
  <2>1. /\ BlobRow(User(u), TRUE) \in BlobRows /\ BlobRow(User(u), TRUE) # None
        /\ BlobRow(User(u), TRUE).linked
    BY UserPathFacts, RowFields
  <2>2. db.blobs[h] \in BlobRows \cup {None}
    BY <1>2, InvFacts
  <2>3. CASE db.blobs[h] = None \/ db.blobs[h].linked
    BY <2>1, <2>3 DEF LinkedRow
  <2>4. CASE ~(db.blobs[h] = None \/ db.blobs[h].linked)
    BY <2>2, <2>4 DEF LinkedRow
  <2> QED  BY <2>3, <2>4
<1> HIDE DEF row
<1>4. Sound(t, files, synced) /\ Keeps(db, t)
  BY <1>2, <1>3, InvFacts, RowSound
<1> HIDE DEF t
<1> QED  BY <1>1, <1>2, <1>4, StagedSafe

\* A copy's own file may go, and that of a blob that no row names may come.
Elsewhere(u, h, p) == p # Copy(u) /\ (p = OwnFile(h) => db.blobs[h] # None)

LEMMA OwnedElsewhere ==
    ASSUME Inv, NEW u \in Users, NEW h \in Blobs, NEW k \in Blobs,
           db.blobs[k] # None, ~db.blobs[k].linked
    PROVE  db.blobs[k].path \in Paths /\ Elsewhere(u, h, db.blobs[k].path)
<1>1. CASE db.blobs[k].path = OwnFile(k)
  BY <1>1, OwnFileFacts DEF Elsewhere
<1>2. ASSUME NEW e \in Execs, db.blobs[k].path = Recv(e, k)
      PROVE  db.blobs[k].path \in Paths /\ Elsewhere(u, h, db.blobs[k].path)
  BY <1>2, PathFacts DEF Elsewhere
<1> QED  BY <1>1, <1>2, OwnedPath

LEMMA ImportSound ==
    ASSUME Inv, NEW u \in Users, NEW h \in Blobs, NEW g, NEW z,
           \A p \in Paths : Elsewhere(u, h, p) =>
               g[p] = files[p] /\ (p \in synced => p \in z)
    PROVE  Sound(db, g, z)
<1>1. \A k \in Blobs : (db.blobs[k] # None /\ ~db.blobs[k].linked) =>
        /\ g[db.blobs[k].path] = files[db.blobs[k].path]
        /\ db.blobs[k].path \in synced => db.blobs[k].path \in z
  BY OwnedElsewhere
<1>2. ASSUME NEW e \in Execs, NEW k \in Blobs
      PROVE  /\ g[Recv(e, k)] = files[Recv(e, k)]
             /\ Recv(e, k) \in synced => Recv(e, k) \in z
  <2>1. Recv(e, k) \in Paths /\ Elsewhere(u, h, Recv(e, k))
    BY PathFacts DEF Elsewhere
  <2> QED  BY <2>1
<1> QED  BY <1>1, <1>2, InvFacts, SoundKept

LEMMA ImportSafe ==
    ASSUME Inv, Writer, NEW u \in Users, NEW h \in Blobs,
           \A p \in Paths : Elsewhere(u, h, p) =>
               files'[p] = files[p] /\ (p \in synced => p \in synced'),
           files' \in [Paths -> Seq(Bytes) \cup {None}], copying' = copying \ {u},
           tx' # None => Sound(tx', files', synced') /\ Keeps(db, tx'),
           UNCHANGED <<db, linking, open>>
    PROVE  Safe
<1>1. Sound(db, files', synced')
  <2>1. ASSUME NEW g, NEW z,
               \A p \in Paths : Elsewhere(u, h, p) =>
                   g[p] = files[p] /\ (p \in synced => p \in z)
        PROVE  Sound(db, g, z)
    BY <2>1, ImportSound
  <2> QED  BY <2>1, Zenon
<1>2. ASSUME NEW v \in copying' PROVE files'[Copy(v)] \in Blobs
  <2>1. v \in Users /\ v # u /\ files[Copy(v)] \in Blobs
    BY DEF Inv
  <2>2. Copy(v) \in Paths /\ Elsewhere(u, h, Copy(v))
    BY <2>1, UserPathFacts, OwnFileFacts DEF Elsewhere
  <2> QED  BY <2>1, <2>2
<1>3. Inv'
  BY <1>1, <1>2 DEF Inv, Writer
<1>4. RowsKept
  BY OwnedElsewhere DEF RowsKept
<1>5. ASSUME NEW e \in Execs, NEW k \in Blobs
      PROVE  files'[Recv(e, k)] = files[Recv(e, k)]
  <2>1. Recv(e, k) \in Paths /\ Elsewhere(u, h, Recv(e, k))
    BY PathFacts DEF Elsewhere
  <2> QED  BY <2>1
<1>6. BytesKept
  BY <1>5, BytesKeptWhen
<1> QED  BY <1>3, <1>4, <1>6 DEF Safe

LEMMA FinishCopySafe ==
    ASSUME Inv, NEW u \in Users, FinishCopy(u)
    PROVE  Safe
<1> DEFINE h == files[Copy(u)]
<1>1. /\ Writer /\ u \in copying /\ copying' = copying \ {u}
      /\ UNCHANGED <<db, linking, open>>
  BY DEF FinishCopy
<1>2. h \in Blobs
  BY <1>1 DEF Inv
<1>3. CASE db.blobs[h] # None
  <2>1. /\ files' = [files EXCEPT ![Copy(u)] = None] /\ tx' = None
        /\ synced' = synced \ {Copy(u)}
    BY <1>3 DEF FinishCopy
  <2>2. \A p \in Paths : Elsewhere(u, h, p) =>
          files'[p] = files[p] /\ (p \in synced => p \in synced')
    BY <2>1, InvFacts DEF Elsewhere
  <2>3. files' \in [Paths -> Seq(Bytes) \cup {None}]
    BY <2>1, InvFacts
  <2> HIDE DEF h
  <2> QED  BY <1>1, <1>2, <2>1, <2>2, <2>3, ImportSafe
<1>4. CASE db.blobs[h] = None
  <2> DEFINE row == BlobRow(OwnFile(h), FALSE)
             t == [db EXCEPT !.blobs = [@ EXCEPT ![h] = row]]
  <2>1. Renamed(u, h) /\ tx' = t
    BY <1>4 DEF FinishCopy
  <2> HIDE DEF h
  <2>2. /\ files' = [files EXCEPT ![OwnFile(h)] = h, ![Copy(u)] = None]
        /\ synced' = (synced \ {Copy(u)}) \cup {OwnFile(h)}
    BY <2>1 DEF Renamed
  <2>3. OwnFile(h) \in Paths /\ Copy(u) \in Paths /\ Copy(u) # OwnFile(h)
    BY <1>2, OwnFileFacts, UserPathFacts
  <2>4. /\ \A p \in Paths : Elsewhere(u, h, p) =>
             files'[p] = files[p] /\ (p \in synced => p \in synced')
        /\ files'[OwnFile(h)] = h /\ OwnFile(h) \in synced'
    BY <1>4, <2>2, <2>3, InvFacts DEF Elsewhere
  <2>5. files' \in [Paths -> Seq(Bytes) \cup {None}]
    BY <1>2, <2>2, <2>3, InvFacts, BlobFacts
  <2>6. row \in BlobRows /\ row # None /\ row.path = OwnFile(h)
    BY <2>3, RowFields
  <2> HIDE DEF row
  <2>7. ASSUME NEW g, NEW z, g[OwnFile(h)] = h, OwnFile(h) \in z,
               \A p \in Paths : Elsewhere(u, h, p) =>
                   g[p] = files[p] /\ (p \in synced => p \in z)
        PROVE  Sound(t, g, z) /\ Keeps(db, t)
    <3>1. Sound(db, g, z)
      BY <1>2, <2>7, ImportSound
    <3> QED  BY <1>2, <1>4, <2>6, <2>7, <3>1, RowSound
  <2> HIDE DEF t
  <2>8. Sound(t, files', synced') /\ Keeps(db, t)
    BY <2>4, <2>7, Zenon
  <2> QED  BY <1>1, <1>2, <2>1, <2>4, <2>5, <2>8, ImportSafe
<1> QED  BY <1>3, <1>4

\* A crash takes only what was not on disk for good, the sweep only what no row
\* and no unfinished receive names.
LEMMA ReopenSafe ==
    ASSUME Inv, files' \in [Paths -> Seq(Bytes) \cup {None}],
           \A p \in Paths : files'[p] = files[p] \/ files'[p] = None,
           \A h \in Blobs : (db.blobs[h] # None /\ ~db.blobs[h].linked) =>
               /\ files'[db.blobs[h].path] = files[db.blobs[h].path]
               /\ db.blobs[h].path \in synced',
           \A e \in Execs, h \in Blobs : Receiving(db, <<e, h>>) =>
               /\ files'[Recv(e, h)] = files[Recv(e, h)]
               /\ Recv(e, h) \in synced',
           tx' = None, copying' = {}, linking' \in [Users -> Blobs \cup {None}],
           UNCHANGED db
    PROVE  Safe
<1>1. ASSUME NEW g, NEW z,
             \A h \in Blobs : (db.blobs[h] # None /\ ~db.blobs[h].linked) =>
                 /\ g[db.blobs[h].path] = files[db.blobs[h].path]
                 /\ db.blobs[h].path \in z,
             \A e \in Execs, h \in Blobs : Receiving(db, <<e, h>>) =>
                 g[Recv(e, h)] = files[Recv(e, h)] /\ Recv(e, h) \in z
      PROVE  Sound(db, g, z)
  BY <1>1, InvFacts, SoundKept
<1>2. Sound(db, files', synced')
  BY <1>1, Zenon
<1>3. Inv'
  BY <1>2 DEF Inv
<1>4. BytesKept
  BY BytesKeptWhen
<1> QED  BY <1>3, <1>4 DEF Safe, RowsKept

LEMMA ReceivingFile ==
    ASSUME Inv, NEW e \in Execs, NEW h \in Blobs, Receiving(db, <<e, h>>)
    PROVE  Recv(e, h) \in Paths /\ Recv(e, h) \in synced
<1>1. PartialOf(e, h) # None /\ ~PartialOf(e, h).committed
  BY DEF Receiving, PartialOf
<1> QED  BY <1>1, ReceiveFacts, PathFacts

LEMMA CrashSafe ==
    ASSUME Inv, NEW lost, Crash(lost)
    PROVE  Safe
<1>1. /\ \A p \in Paths : files'[p] = IF p \in lost THEN None ELSE files[p]
      /\ files' \in [Paths -> Seq(Bytes) \cup {None}]
      /\ \A p \in lost : p \notin synced
      /\ tx' = None /\ copying' = {}
      /\ linking' \in [Users -> Blobs \cup {None}] /\ UNCHANGED <<db, synced>>
  BY InvFacts DEF Crash
<1>2. \A h \in Blobs : (db.blobs[h] # None /\ ~db.blobs[h].linked) =>
        /\ files'[db.blobs[h].path] = files[db.blobs[h].path]
        /\ db.blobs[h].path \in synced'
  BY <1>1, OwnedPath
<1>3. \A e \in Execs, h \in Blobs : Receiving(db, <<e, h>>) =>
        files'[Recv(e, h)] = files[Recv(e, h)] /\ Recv(e, h) \in synced'
  BY <1>1, ReceivingFile
<1> QED  BY <1>1, <1>2, <1>3, ReopenSafe

LEMMA Unswept ==
    ASSUME NEW p \in Retained, p[1] # "copy"
    PROVE  ~Sweeps(p)
BY DEF Sweeps

LEMMA OpenSafe ==
    ASSUME Inv, Open
    PROVE  Safe
<1>1. /\ \A p \in Paths : files'[p] = IF Sweeps(p) THEN None ELSE files[p]
      /\ files' \in [Paths -> Seq(Bytes) \cup {None}]
      /\ synced' = {p \in synced : ~Sweeps(p)}
      /\ tx' = tx /\ copying' = {} /\ ~open
      /\ linking' \in [Users -> Blobs \cup {None}] /\ UNCHANGED db
  BY InvFacts DEF Open, Inv
<1>2. tx' = None
  BY <1>1 DEF Inv
<1>3. ASSUME NEW h \in Blobs, db.blobs[h] # None, ~db.blobs[h].linked
      PROVE  /\ files'[db.blobs[h].path] = files[db.blobs[h].path]
             /\ db.blobs[h].path \in synced'
  <2>1. db.blobs[h].path \in Retained
    BY <1>3 DEF Retained
  <2>2. db.blobs[h].path[1] # "copy"
    <3>1. CASE db.blobs[h].path = OwnFile(h)
      BY <3>1 DEF OwnFile
    <3>2. ASSUME NEW e \in Execs, db.blobs[h].path = Recv(e, h)
          PROVE  db.blobs[h].path[1] # "copy"
      BY <3>2 DEF Recv
    <3> QED  BY <1>3, <3>1, <3>2, OwnedPath
  <2>3. ~Sweeps(db.blobs[h].path)
    BY <2>1, <2>2, Unswept
  <2> QED  BY <1>1, <1>3, <2>3, OwnedPath
<1>4. ASSUME NEW e \in Execs, NEW h \in Blobs, Receiving(db, <<e, h>>)
      PROVE  files'[Recv(e, h)] = files[Recv(e, h)] /\ Recv(e, h) \in synced'
  <2>1. Recv(e, h) \in Retained
    <3>1. <<e, h>> \in {r \in Execs \X Blobs :
                          db.partials[r] # None /\ ~db.partials[r].committed}
      BY <1>4 DEF Receiving
    <3>2. Recv(e, h) = Recv(<<e, h>>[1], <<e, h>>[2])
      OBVIOUS
    <3> QED  BY <3>1, <3>2 DEF Retained
  <2>2. Recv(e, h)[1] # "copy"
    BY DEF Recv
  <2>3. ~Sweeps(Recv(e, h))
    BY <2>1, <2>2, Unswept
  <2> QED  BY <1>1, <1>4, <2>3, ReceivingFile
<1> QED  BY <1>1, <1>2, <1>3, <1>4, ReopenSafe

-----------------------------------------------------------------------------
LEMMA InitHolds ==
    ASSUME Init
    PROVE  Inv
<1>1. PICK c \in [Users -> Blobs] :
        files = [p \in Paths |-> IF p[1] = "user" THEN c[p[2]] ELSE None]
  BY DEF Init
<1>2. ASSUME NEW p \in Paths, p[1] = "user" PROVE c[p[2]] \in Blobs
  BY <1>2 DEF Paths, OwnFile, Recv, Copy, User
<1>3. files \in [Paths -> Seq(Bytes) \cup {None}]
  BY <1>1, <1>2, BlobFacts
<1>4. /\ db \in Tables /\ db.grants = {}
      /\ \A h \in Blobs : db.blobs[h] = None
      /\ \A q \in Execs \X Blobs : db.partials[q] = None
  BY DEF Init, Tables
<1>5. Sound(db, files, synced)
  BY <1>4 DEF Sound, RowHolds, PartialHolds, Received, Receiving
<1> QED  BY <1>3, <1>5 DEF Init, Inv

LEMMA StutterSafe ==
    ASSUME Inv, UNCHANGED vars
    PROVE  Safe
<1>1. Inv' /\ UNCHANGED files /\ Keeps(db, db')
  BY DEF Inv, vars, Keeps
<1> QED  BY <1>1, SameFilesSafe

\* One step per action.
LEMMA StepSafe ==
    ASSUME Inv, [Next]_vars
    PROVE  Safe
<1>1. CASE CommitTx \/ RollbackTx
  BY <1>1, EndTxSafe
<1>2. CASE \E e \in Execs, wanted \in SUBSET Blobs : Admit(e, wanted)
  BY <1>2, AdmitSafe
<1>3. CASE Receives
  <2>1. PICK e \in Execs, h \in Blobs, length \in Lengths, c \in Chunks :
          \/ \E commit \in BOOLEAN : Receive(e, h, length, c, commit)
          \/ \E some \in 0..Len(c) : ReceiveFails(e, h, length, c, some)
    BY <1>3 DEF Receives
  <2>2. CASE \E commit \in BOOLEAN : Receive(e, h, length, c, commit)
    <3>1. PICK commit \in BOOLEAN : Receive(e, h, length, c, commit)
      BY <2>2
    <3>2. CASE commit = TRUE
      BY <3>1, <3>2, ReceiveSafe, Zenon
    <3>3. CASE commit = FALSE
      BY <3>1, <3>3, ReceiveSafe, Zenon
    <3> QED  BY <3>2, <3>3
  <2>3. CASE \E some \in 0..Len(c) : ReceiveFails(e, h, length, c, some)
    BY <2>3, ReceiveFailsSafe
  <2> QED  BY <2>1, <2>2, <2>3
<1>4. CASE \E e \in Execs, h \in Blobs : CommitReceived(e, h)
  BY <1>4, CommitReceivedSafe
<1>5. CASE Imports
  <2>1. PICK u \in Users : CopyFile(u) \/ FinishCopy(u) \/ HashLink(u) \/ InsertLink(u)
    BY <1>5 DEF Imports
  <2> QED  BY <2>1, CopyFileSafe, FinishCopySafe, HashLinkSafe, InsertLinkSafe
<1>6. CASE \E u \in Users, c \in Blobs \cup {None} : Edit(u, c)
  BY <1>6, EditSafe
<1>7. CASE \E lost \in SUBSET Paths : Crash(lost)
  BY <1>7, CrashSafe
<1>8. CASE Open
  BY <1>8, OpenSafe
<1>9. CASE UNCHANGED vars
  BY <1>9, StutterSafe
<1> QED  BY <1>1, <1>2, <1>3, <1>4, <1>5, <1>6, <1>7, <1>8, <1>9 DEF Next

\* Committed tables and open transaction stay borne out by the files, whatever
\* the order of writes, syncs, COMMIT, crashes and sweeps.
THEOREM Invariance == Spec => []Inv
<1>1. Init => Inv
  BY InitHolds
<1>2. Inv /\ [Next]_vars => Inv'
  BY StepSafe DEF Safe
<1> QED  BY <1>1, <1>2, PTL DEF Spec

LEMMA InvSurvive ==
    ASSUME Inv
    PROVE  BlobsSurvive
<1>1. OwnedBlobsAreWhole
  BY OwnedPath DEF OwnedBlobsAreWhole
<1>2. ASSUME NEW e \in Execs, NEW h \in Blobs, Receiving(db, <<e, h>>)
      PROVE  /\ files[Recv(e, h)] # None
             /\ Len(files[Recv(e, h)]) >= db.partials[<<e, h>>].written
             /\ Recv(e, h) \in synced
  <2>1. PartialHolds(db, files, synced, e, h)
    BY InvFacts DEF Sound
  <2> QED  BY <1>2, <2>1, BlobAssumption DEF PartialHolds
<1>3. PartialsAreDurable
  <2>1. SUFFICES ASSUME NEW q \in Execs \X Blobs, db.partials[q] # None,
                        ~db.partials[q].committed
                 PROVE  /\ files[Recv(q[1], q[2])] # None
                        /\ Len(files[Recv(q[1], q[2])]) >= db.partials[q].written
                        /\ Recv(q[1], q[2]) \in synced
    BY DEF PartialsAreDurable
  <2>2. q[1] \in Execs /\ q[2] \in Blobs /\ q = <<q[1], q[2]>>
    OBVIOUS
  <2>3. Receiving(db, <<q[1], q[2]>>)
    BY <2>1, <2>2 DEF Receiving
  <2> QED  BY <1>2, <2>2, <2>3
<1>4. CommittedStaysReadable
  <2>1. SUFFICES ASSUME NEW q \in Execs \X Blobs, db.partials[q] # None,
                        db.partials[q].committed
                 PROVE  /\ q \in db.grants /\ db.blobs[q[2]] # None
                        /\ ~db.blobs[q[2]].linked
                        /\ files[db.blobs[q[2]].path] = q[2]
    BY DEF CommittedStaysReadable
  <2>2. q[1] \in Execs /\ q[2] \in Blobs /\ q = <<q[1], q[2]>>
    OBVIOUS
  <2>3. PartialHolds(db, files, synced, q[1], q[2])
    BY <2>2, InvFacts DEF Sound
  <2>4. q \in db.grants /\ db.blobs[q[2]] # None /\ ~db.blobs[q[2]].linked
    BY <2>1, <2>2, <2>3 DEF PartialHolds, Received
  <2> QED  BY <2>2, <2>4, OwnedPath
<1>5. TypeOK
  <2>1. \A h \in Blobs : db.blobs[h] # None => db.blobs[h].path \in Paths
    BY InvFacts DEF BlobRows
  <2>2. ASSUME NEW q \in Execs \X Blobs, db.partials[q] # None
        PROVE  /\ db.partials[q].length \in Lengths
               /\ db.partials[q].written \in 1..db.partials[q].length
    <3>1. q[1] \in Execs /\ q[2] \in Blobs /\ q = <<q[1], q[2]>>
      OBVIOUS
    <3>2. PartialHolds(db, files, synced, q[1], q[2])
      BY <3>1, InvFacts DEF Sound
    <3>3. db.partials[q] \in PartialRows
      BY <2>2, InvFacts
    <3> QED  BY <2>2, <3>1, <3>2, <3>3 DEF PartialHolds, PartialRows
  <2>3. \A g \in db.grants : db.blobs[g[2]] # None
    BY InvFacts DEF Sound
  <2>4. \A p \in Paths : files[p] # None => files[p] \in Seq(Bytes)
    BY InvFacts
  <2>5. copying \subseteq Users
    BY DEF Inv
  <2> QED  BY <2>1, <2>2, <2>3, <2>4, <2>5 DEF TypeOK
<1> QED  BY <1>1, <1>3, <1>4, <1>5 DEF BlobsSurvive

\* Whatever fails, is rolled back or crashes between a file and its row, an
\* owned blob can be read in full, an unfinished receive finds what its row
\* records, and a committed one stays granted and readable (copy_blob, link_blob,
\* apply_blob_changes and sweep_blob_files together).
THEOREM BlobsLast == Spec => []BlobsSurvive
<1>1. Inv => BlobsSurvive
  BY InvSurvive
<1> QED  BY <1>1, Invariance, PTL

\* write_all_at starts past what blob_partials records: no later append, torn
\* write, rollback, crash or sweep changes the recorded bytes of a receive.
THEOREM RecordedBytes == Spec => RecordedBytesStay
<1>1. ASSUME Inv, [Next]_vars, NEW q \in Execs \X Blobs,
             db.partials[q] # None, ~db.partials[q].committed
      PROVE  /\ files'[Recv(q[1], q[2])] # None
             /\ \A i \in 1..db.partials[q].written :
                   /\ i \in DOMAIN files'[Recv(q[1], q[2])]
                   /\ files'[Recv(q[1], q[2])][i] = files[Recv(q[1], q[2])][i]
  <2>1. BytesKept
    BY <1>1, StepSafe DEF Safe
  <2>2. q[1] \in Execs /\ q[2] \in Blobs /\ q = <<q[1], q[2]>>
    OBVIOUS
  <2>3. Receiving(db, <<q[1], q[2]>>)
    BY <1>1, <2>2 DEF Receiving
  <2> QED  BY <2>1, <2>2, <2>3, BlobAssumption DEF BytesKept
<1>2. Inv /\ [Next]_vars =>
        [\A q \in Execs \X Blobs :
          LET p == Recv(q[1], q[2])
              n == db.partials[q].written
          IN  (db.partials[q] # None /\ ~db.partials[q].committed /\ files[p] # None)
                => files'[p] # None /\ \A i \in 1..n : i \in DOMAIN files'[p] /\ files'[p][i] = files[p][i]]_vars
  BY <1>1
<1> QED  BY <1>2, Invariance, PTL DEF Spec, RecordedBytesStay

\* Once a row owns a blob, neither its file nor the row ever changes: a published
\* file is never written again (PublishedNeverWritten).
THEOREM Published == Spec => PublishedNeverWritten
<1>1. Inv /\ [Next]_vars => RowsKept
  BY StepSafe DEF Safe
<1>2. Inv /\ [Next]_vars =>
        [\A h \in Blobs :
          (db.blobs[h] # None /\ ~db.blobs[h].linked) =>
              /\ files'[db.blobs[h].path] = files[db.blobs[h].path]
              /\ db'.blobs[h] = db.blobs[h]]_vars
  BY <1>1 DEF RowsKept
<1> QED  BY <1>2, Invariance, PTL DEF Spec, PublishedNeverWritten

\* sweep_blob_files leaves no file in the blob directory that no row and no
\* unfinished receive accounts for.
THEOREM NoOrphans == Spec => OpenLeavesNoOrphans
<1>1. ASSUME Next, ~open, open', NEW p \in Paths, p[1] # "user", files'[p] # None
      PROVE  \/ \E h \in Blobs : db.blobs[h] # None /\ db.blobs[h].path = p
             \/ \E q \in Execs \X Blobs : /\ p = Recv(q[1], q[2])
                                          /\ db.partials[q] # None
                                          /\ ~db.partials[q].committed
  <2>1. Open
    <3>1. ~(CommitTx \/ RollbackTx)
      BY <1>1 DEF CommitTx, RollbackTx
    <3>2. ~\E e \in Execs, wanted \in SUBSET Blobs : Admit(e, wanted)
      BY <1>1 DEF Admit, Writer
    <3>3. ~Receives /\ ~\E e \in Execs, h \in Blobs : CommitReceived(e, h)
      <4>1. \A e, h, length, c, commit : ~Receive(e, h, length, c, commit)
        BY <1>1 DEF Receive, Writer
      <4>2. \A e, h, length, c, some : ~ReceiveFails(e, h, length, c, some)
        BY <1>1 DEF ReceiveFails, Writer
      <4>3. ~Receives
        BY <4>1, <4>2, Zenon DEF Receives
      <4> QED  BY <1>1, <4>3 DEF CommitReceived, Writer
    <3>4. ~Imports
      BY <1>1 DEF Imports, CopyFile, FinishCopy, HashLink, InsertLink, Writer
    <3>5. ~\E u \in Users, c \in Blobs \cup {None} : Edit(u, c)
      BY <1>1 DEF Edit
    <3>6. ~\E lost \in SUBSET Paths : Crash(lost)
      BY <1>1 DEF Crash
    <3> QED  BY <1>1, <3>1, <3>2, <3>3, <3>4, <3>5, <3>6 DEF Next
  <2>2. ~Sweeps(p)
    BY <1>1, <2>1 DEF Open
  <2>3. p[1] \in {"own", "recv", "copy"}
    BY <1>1 DEF Paths, OwnFile, Recv, Copy, User
  <2>4. p \in Retained
    BY <2>2, <2>3 DEF Sweeps
  <2> QED  BY <2>4 DEF Retained
<1>2. ASSUME UNCHANGED vars PROVE open' = open
  BY <1>2 DEF vars
<1>3. [Next]_vars =>
        [(~open /\ open') =>
          \A p \in Paths : (p[1] # "user" /\ files'[p] # None) =>
              \/ \E h \in Blobs : db.blobs[h] # None /\ db.blobs[h].path = p
              \/ \E q \in Execs \X Blobs : /\ p = Recv(q[1], q[2])
                                           /\ db.partials[q] # None
                                           /\ ~db.partials[q].committed]_vars
  BY <1>1, <1>2
<1> QED  BY <1>3, PTL DEF Spec, OpenLeavesNoOrphans
=============================================================================
