-------------------------- MODULE DirectLaneProofs --------------------------
(***************************************************************************)
(* Proofs about module DirectLane, for any participants, payloads, queue   *)
(* capacity and number of crashes and timeouts: the lanes are gapless, and *)
(* they implement the first-in, first-out channel of module DirectChannel. *)
(*                                                                         *)
(* LaneIsGapless is not inductive by itself. A lane is only as good as the *)
(* frames that were taken from it: one in flight, one whose send was given *)
(* up and one whose answer is under way were all read from the queue in an *)
(* earlier state. Inv says what they still mean: a frame carries the       *)
(* message its number names and lies at most one beyond its reader's       *)
(* cursor, and an acknowledgement of a live reader speaks of a number that *)
(* the reader has recorded.                                                *)
(***************************************************************************)
EXTENDS DirectLane, TLAPS, FiniteSetTheorems, SequenceTheorems

\* How many of a lane's messages have left its queue.
Dropped(lane) == lane.last_queued - Len(lane.queue)

\* The queue holds the last messages of s under their numbers.
Numbered(lane, s) ==
  /\ lane.last_queued = Len(s)
  /\ Len(lane.queue) <= lane.last_queued
  /\ \A i \in 1..Len(lane.queue) :
       /\ lane.queue[i].seq = Dropped(lane) + i
       /\ lane.queue[i].msg = s[lane.queue[i].seq]

\* The entry carries the message its number names.
Genuine(entry, s) == entry.seq \in 1..Len(s) /\ entry.msg = s[entry.seq]

Live(p) == mode[p] # "Ended"

\* What q has recorded of p's numbers.
Cursor(p, q) == direct[q][p].last_applied

\* A lane against what was sent on it, the cursor of its reader, how many of
\* its messages the reader was given, and the modes of sender and reader.
LaneHolds(lane, s, cursor, given, sender, reader) ==
  /\ Numbered(lane, s)
  /\ cursor <= Len(s)
  /\ cursor = given
  /\ sender # "Ended" /\ reader # "Ended" => Dropped(lane) <= cursor

\* A frame under way to a reader with that cursor and mode.
Fresh(entry, s, cursor, reader) ==
  /\ Genuine(entry, s)
  /\ reader # "Ended" => entry.seq <= cursor + 1

\* A frame in flight with its answer.
Sound(flight, s, cursor, reader) ==
  /\ Fresh(flight.entry, s, cursor, reader)
  /\ flight.answer # "Rejected"
  /\ reader # "Ended" /\ flight.answer = "Ack" => flight.entry.seq <= cursor

LanesHold ==
  \A p, q \in Participants :
    LaneHolds(direct[p][q], sent[p][q], Cursor(p, q), Len(handed[p][q]),
              mode[p], mode[q])

FlightsHold ==
  \A p, q \in Participants :
    send[p][q] # None => Sound(send[p][q], sent[p][q], Cursor(p, q), mode[q])

LateHolds ==
  \A f \in late :
    Fresh(f.entry, sent[f.from][f.to], Cursor(f.from, f.to), mode[f.to])

Inv == TypeOK /\ LanesHold /\ FlightsHold /\ LateHolds


-----------------------------------------------------------------------------
(* Lanes.                                                                  *)

LEMMA NumberedFacts ==
  ASSUME NEW lane \in Lane, NEW s \in Seq(Payloads), Numbered(lane, s)
  PROVE  /\ Len(s) \in Nat /\ Len(lane.queue) \in Nat
         /\ lane.last_queued = Len(s)
         /\ Dropped(lane) \in Nat
         /\ Dropped(lane) + Len(lane.queue) = Len(s)
         /\ \A i \in 1..Len(lane.queue) :
              /\ lane.queue[i].seq = Dropped(lane) + i
              /\ lane.queue[i].msg = s[lane.queue[i].seq]
<1>1. lane.queue \in Seq(DirectEntry) /\ lane.last_queued \in Nat
  BY DEF Lane
<1>2. Len(s) \in Nat /\ Len(lane.queue) \in Nat
  BY <1>1
<1>3. /\ lane.last_queued = Len(s)
      /\ Len(lane.queue) <= lane.last_queued
      /\ \A i \in 1..Len(lane.queue) :
           /\ lane.queue[i].seq = Dropped(lane) + i
           /\ lane.queue[i].msg = s[lane.queue[i].seq]
  BY DEF Numbered
<1>4. Dropped(lane) = Len(s) - Len(lane.queue)
  BY <1>3 DEF Dropped
<1>5. Len(lane.queue) <= Len(s)
  BY <1>3
<1>6. ASSUME NEW a \in Nat, NEW b \in Nat, b <= a, NEW d, d = a - b
      PROVE  d \in Nat /\ d + b = a
  BY <1>6
<1>7. Dropped(lane) \in Nat /\ Dropped(lane) + Len(lane.queue) = Len(s)
  BY <1>2, <1>4, <1>5, <1>6
<1> QED  BY <1>2, <1>3, <1>7

LEMMA AppendFacts ==
  ASSUME NEW S, NEW s \in Seq(S), NEW m \in S
  PROVE  /\ Append(s, m) \in Seq(S)
         /\ Len(s) \in Nat
         /\ Len(Append(s, m)) = Len(s) + 1
         /\ \A i \in 1..Len(s) : Append(s, m)[i] = s[i]
         /\ Append(s, m)[Len(s) + 1] = m
  OBVIOUS

\* enqueue numbers the message after the last one and keeps the rest.
LEMMA EnqueueKeepsLane ==
  ASSUME NEW lane \in Lane, NEW s \in Seq(Payloads), NEW msg \in Payloads,
         Numbered(lane, s)
  PROVE  /\ Enqueue(lane, msg) \in Lane
         /\ Numbered(Enqueue(lane, msg), Append(s, msg))
         /\ Dropped(Enqueue(lane, msg)) = Dropped(lane)
         /\ Enqueue(lane, msg).last_applied = lane.last_applied
<1> DEFINE entry == [seq |-> lane.last_queued + 1, msg |-> msg]
           new   == Enqueue(lane, msg)
<1>1. /\ lane.last_queued \in Nat /\ lane.last_applied \in Nat
      /\ lane.queue \in Seq(DirectEntry)
  BY DEF Lane
<1>2. entry \in DirectEntry
  BY <1>1 DEF DirectEntry
<1>3. /\ new.last_queued = lane.last_queued + 1
      /\ new.queue = Append(lane.queue, entry)
      /\ new.last_applied = lane.last_applied
      /\ new = [last_queued |-> lane.last_queued + 1,
                queue |-> Append(lane.queue, entry),
                last_applied |-> lane.last_applied]
  <2>1. lane = [last_queued |-> lane.last_queued, queue |-> lane.queue,
                last_applied |-> lane.last_applied]
    BY DEF Lane
  <2>2. new = [lane EXCEPT !.last_queued = lane.last_queued + 1,
                           !.queue = Append(lane.queue, entry)]
    BY Zenon DEF Enqueue
  <2> HIDE DEF entry, new
  <2>3. new = [last_queued |-> lane.last_queued + 1,
               queue |-> Append(lane.queue, entry),
               last_applied |-> lane.last_applied]
    BY <2>1, <2>2
  <2> QED  BY <2>3
<1> HIDE DEF entry, new
<1>4. /\ Append(lane.queue, entry) \in Seq(DirectEntry)
      /\ Len(lane.queue) \in Nat
      /\ Len(Append(lane.queue, entry)) = Len(lane.queue) + 1
      /\ \A i \in 1..Len(lane.queue) : Append(lane.queue, entry)[i] = lane.queue[i]
      /\ Append(lane.queue, entry)[Len(lane.queue) + 1] = entry
  BY <1>1, <1>2, AppendFacts
<1>5. new \in Lane
  BY <1>1, <1>3, <1>4 DEF Lane
<1>6. Dropped(new) = Dropped(lane)
  BY <1>1, <1>3, <1>4 DEF Dropped
<1>7. Numbered(new, Append(s, msg))
  <2>1. new.last_queued = Len(Append(s, msg)) /\ Len(new.queue) <= new.last_queued
    BY <1>1, <1>3, <1>4, AppendFacts DEF Numbered
  <2>2. ASSUME NEW i \in 1..Len(new.queue)
        PROVE  /\ new.queue[i].seq = Dropped(new) + i
               /\ new.queue[i].msg = Append(s, msg)[new.queue[i].seq]
    <3>1. CASE i \in 1..Len(lane.queue)
      <4>1. new.queue[i] = lane.queue[i]
        BY <1>3, <1>4, <3>1
      <4>2. /\ lane.queue[i].seq = Dropped(lane) + i
            /\ lane.queue[i].msg = s[lane.queue[i].seq]
        BY <3>1 DEF Numbered
      <4>3. Dropped(lane) + i \in 1..Len(s)
        BY <3>1, NumberedFacts
      <4> QED  BY <4>1, <4>2, <4>3, <1>6, AppendFacts
    <3>2. CASE i = Len(lane.queue) + 1
      <4>1. new.queue[i] = entry
        BY <1>3, <1>4, <3>2
      <4>2. entry.seq = Len(s) + 1 /\ entry.msg = msg
        BY <1>1 DEF entry, Numbered
      <4>3. Dropped(lane) + i = Len(s) + 1
        <5>1. Dropped(lane) \in Nat /\ Len(lane.queue) \in Nat
          BY NumberedFacts
        <5>2. Dropped(lane) + Len(lane.queue) = Len(s)
          BY NumberedFacts
        <5>3. ASSUME NEW a \in Nat, NEW b \in Nat, NEW c \in Nat, a + b = c
              PROVE  a + (b + 1) = c + 1
          BY <5>3
        <5>4. Len(s) \in Nat
          OBVIOUS
        <5>5. Dropped(lane) + (Len(lane.queue) + 1) = Len(s) + 1
          BY ONLY <5>1, <5>2, <5>3, <5>4
        <5> QED  BY ONLY <5>5, <3>2, Zenon
      <4> QED  BY <4>1, <4>2, <4>3, <1>6, AppendFacts
    <3>3. i \in 1..(Len(lane.queue) + 1) /\ Len(lane.queue) \in Nat
      BY <1>3, <1>4
    <3>4. i \in 1..Len(lane.queue) \/ i = Len(lane.queue) + 1
      BY ONLY <3>3
    <3> QED  BY <3>1, <3>2, <3>4
  <2> QED  BY <2>1, <2>2 DEF Numbered
<1> QED  BY <1>3, <1>5, <1>6, <1>7 DEF new

LEMMA GenuineKept ==
  ASSUME NEW s \in Seq(Payloads), NEW m \in Payloads, NEW entry \in DirectEntry,
         Genuine(entry, s)
  PROVE  Genuine(entry, Append(s, m))
  BY AppendFacts DEF Genuine, DirectEntry

\* The head of a queue is the first message that has not left it.
LEMMA HeadIsGenuine ==
  ASSUME NEW lane \in Lane, NEW s \in Seq(Payloads), Numbered(lane, s),
         lane.queue # <<>>
  PROVE  /\ Head(lane.queue) \in DirectEntry
         /\ Genuine(Head(lane.queue), s)
         /\ Head(lane.queue).seq = Dropped(lane) + 1
<1>1. lane.queue \in Seq(DirectEntry) /\ lane.last_queued \in Nat
  BY DEF Lane
<1>2. /\ Len(lane.queue) \in Nat /\ Len(lane.queue) >= 1
      /\ Head(lane.queue) = lane.queue[1]
      /\ lane.queue[1] \in DirectEntry
  BY <1>1
<1>3. /\ Dropped(lane) \in Nat /\ Dropped(lane) + 1 \in 1..Len(s)
      /\ lane.queue[1].seq = Dropped(lane) + 1
      /\ lane.queue[1].msg = s[lane.queue[1].seq]
  BY <1>2, NumberedFacts
<1> QED  BY <1>2, <1>3 DEF Genuine

\* Of a sequence whose kept indices are the ones beyond m, the kept entries
\* are its tail after m.
LEMMA RankInTail ==
  ASSUME NEW n \in Nat, NEW m \in 0..n, NEW j \in 1..(n - m)
  PROVE  LET kept == (m + 1)..n
         IN  (CHOOSE i \in kept : Cardinality({k \in kept : k <= i}) = j) = m + j
<1> DEFINE kept == (m + 1)..n
<1>2. ASSUME NEW i \in kept
      PROVE  Cardinality({k \in kept : k <= i}) = i - m
  <2>1. {k \in kept : k <= i} = (m + 1)..i
    OBVIOUS
  <2>2. Cardinality((m + 1)..i) = i - m
    BY FS_Interval
  <2> QED  BY <2>1, <2>2
<1>3. m + j \in kept
  OBVIOUS
<1>4. \A i \in kept : Cardinality({k \in kept : k <= i}) = j <=> i = m + j
  <2> SUFFICES ASSUME NEW i \in kept
               PROVE  Cardinality({k \in kept : k <= i}) = j <=> i = m + j
    OBVIOUS
  <2>1. Cardinality({k \in kept : k <= i}) = i - m
    BY <1>2
  <2>2. i \in Int /\ m \in Int /\ j \in Int
    OBVIOUS
  <2> QED  BY <2>1, <2>2
<1> HIDE DEF kept
<1>5. (CHOOSE i \in kept : Cardinality({k \in kept : k <= i}) = j) = m + j
  BY <1>3, <1>4
<1> QED  BY <1>5 DEF kept

\* retain keeps the entries beyond the acknowledged number: what has left the
\* queue grows to that number, unless it was past it already.
LEMMA AckKeepsLane ==
  ASSUME NEW lane \in Lane, NEW s \in Seq(Payloads), Numbered(lane, s),
         NEW seq \in Nat, seq <= Len(s)
  PROVE  /\ AckDirect(lane, seq) \in Lane
         /\ Numbered(AckDirect(lane, seq), s)
         /\ Dropped(AckDirect(lane, seq))
              = IF seq <= Dropped(lane) THEN Dropped(lane) ELSE seq
         /\ AckDirect(lane, seq).last_applied = lane.last_applied
<1> DEFINE old  == lane.queue
           n    == Len(lane.queue)
           m    == IF seq <= Dropped(lane) THEN 0 ELSE seq - Dropped(lane)
           kept == {i \in DOMAIN old : old[i].seq > seq}
           new  == AckDirect(lane, seq)
           rest == Retained(old, seq)
<1>1. /\ lane.last_queued \in Nat /\ lane.last_applied \in Nat
      /\ old \in Seq(DirectEntry) /\ n \in Nat
      /\ DOMAIN old = 1..n
      /\ \A i \in 1..n : old[i] \in DirectEntry
  BY DEF Lane
<1>2. /\ Dropped(lane) \in Nat /\ Dropped(lane) + n = Len(s)
      /\ \A i \in 1..n : old[i].seq = Dropped(lane) + i /\ old[i].msg = s[old[i].seq]
  BY NumberedFacts
<1>3. m \in 0..n
  BY <1>1, <1>2
<1>4. kept = (m + 1)..n
  <2>1. \A i \in 1..n : old[i].seq > seq <=> i > m
    BY <1>1, <1>2
  <2> HIDE DEF m
  <2> QED  BY <1>1, <1>3, <2>1
<1>5. new = [last_queued |-> lane.last_queued, queue |-> rest,
             last_applied |-> lane.last_applied]
  <2>1. lane = [last_queued |-> lane.last_queued, queue |-> old,
                last_applied |-> lane.last_applied]
    BY DEF Lane
  <2>2. new = [lane EXCEPT !.queue = rest]
    BY Zenon DEF AckDirect
  <2> HIDE DEF rest, new, old
  <2> QED  BY <2>1, <2>2
<1> HIDE DEF n, m, kept, new
<1>6. Cardinality(kept) = n - m
  <2>1. m + 1 \in Int /\ n \in Int
    BY <1>1, <1>3
  <2>2. Cardinality((m + 1)..n) = IF m + 1 > n THEN 0 ELSE n - (m + 1) + 1
    BY <2>1, FS_Interval
  <2> QED  BY <1>1, <1>3, <1>4, <2>2
<1>7. /\ rest \in [1..(n - m) -> DirectEntry]
      /\ \A j \in 1..(n - m) : rest[j] = old[m + j]
  <2>1. rest = [j \in 1..Cardinality(kept) |->
                  old[CHOOSE i \in kept : Cardinality({k \in kept : k <= i}) = j]]
    BY DEF Retained, kept
  <2>2. \A j \in 1..(n - m) :
          (CHOOSE i \in kept : Cardinality({k \in kept : k <= i}) = j) = m + j
    <3> SUFFICES ASSUME NEW j \in 1..(n - m)
                 PROVE  (CHOOSE i \in kept : Cardinality({k \in kept : k <= i}) = j) = m + j
      OBVIOUS
    <3>1. (CHOOSE i \in (m + 1)..n : Cardinality({k \in (m + 1)..n : k <= i}) = j) = m + j
      BY <1>1, <1>3, RankInTail
    <3> QED  BY ONLY <1>4, <3>1, Zenon
  <2>3. rest = [j \in 1..(n - m) |->
                  old[CHOOSE i \in kept : Cardinality({k \in kept : k <= i}) = j]]
    BY <1>6, <2>1, Zenon
  <2>4. \A j \in 1..(n - m) :
          old[CHOOSE i \in kept : Cardinality({k \in kept : k <= i}) = j] = old[m + j]
    BY ONLY <2>2, Zenon
  <2> HIDE DEF rest
  <2>5. \A j \in 1..(n - m) :
          rest[j] = old[CHOOSE i \in kept : Cardinality({k \in kept : k <= i}) = j]
    BY ONLY <2>3, Zenon
  <2>6. \A j \in 1..(n - m) :
          old[CHOOSE i \in kept : Cardinality({k \in kept : k <= i}) = j] \in DirectEntry
    <3>1. \A j \in 1..(n - m) : m + j \in 1..n
      BY <1>1, <1>3
    <3> QED  BY ONLY <1>1, <2>4, <3>1, Zenon
  <2>7. rest \in [1..(n - m) -> DirectEntry]
    BY ONLY <2>3, <2>6, Zenon
  <2> QED  BY ONLY <2>4, <2>5, <2>7, Zenon
<1> HIDE DEF rest
<1>8. rest \in Seq(DirectEntry) /\ Len(rest) = n - m
  <2>1. n - m \in Nat
    BY <1>1, <1>3
  <2> QED  BY <1>7, <2>1
<1>9. new \in Lane
  BY <1>1, <1>5, <1>8 DEF Lane
<1>10. Dropped(new) = Dropped(lane) + m
  <2>1. new.last_queued = lane.last_queued /\ new.queue = rest
    BY <1>5
  <2> QED  BY <1>1, <1>3, <1>8, <2>1 DEF Dropped, n
<1>11. Numbered(new, s)
  <2>1. new.last_queued = lane.last_queued /\ new.queue = rest
    BY <1>5
  <2>2. new.last_queued = Len(s) /\ Len(new.queue) <= new.last_queued
    BY <1>1, <1>3, <1>8, <2>1 DEF Numbered, n
  <2>3. ASSUME NEW j \in 1..Len(rest)
        PROVE  rest[j].seq = Dropped(new) + j /\ rest[j].msg = s[rest[j].seq]
    <3>1. j \in 1..(n - m) /\ m + j \in 1..n
      BY <1>1, <1>3, <1>8
    <3>2. rest[j] = old[m + j]
      BY <1>7, <3>1
    <3>3. old[m + j].seq = Dropped(lane) + (m + j) /\ old[m + j].msg = s[old[m + j].seq]
      BY <1>2, <3>1
    <3>4. Dropped(lane) + (m + j) = Dropped(new) + j
      BY <1>2, <1>3, <1>10, <3>1
    <3> QED  BY <3>2, <3>3, <3>4
  <2> QED  BY <2>1, <2>2, <2>3 DEF Numbered
<1>12. Dropped(lane) + m = IF seq <= Dropped(lane) THEN Dropped(lane) ELSE seq
  BY <1>2 DEF m
<1> QED  BY <1>5, <1>9, <1>10, <1>11, <1>12 DEF new

LEMMA RecordKeepsLane ==
  ASSUME NEW lane \in Lane, NEW seq \in Nat
  PROVE  /\ RecordDirect(lane, seq) \in Lane
         /\ RecordDirect(lane, seq).queue = lane.queue
         /\ RecordDirect(lane, seq).last_queued = lane.last_queued
         /\ RecordDirect(lane, seq).last_applied = seq
<1> DEFINE new == RecordDirect(lane, seq)
<1>1. /\ lane.last_queued \in Nat /\ lane.queue \in Seq(DirectEntry)
      /\ lane = [last_queued |-> lane.last_queued, queue |-> lane.queue,
                 last_applied |-> lane.last_applied]
  BY DEF Lane
<1>2. new = [lane EXCEPT !.last_applied = seq]
  BY Zenon DEF RecordDirect
<1> HIDE DEF new
<1>3. new = [last_queued |-> lane.last_queued, queue |-> lane.queue,
             last_applied |-> seq]
  BY <1>1, <1>2
<1>4. new \in Lane
  BY <1>1, <1>3 DEF Lane
<1> QED  BY <1>3, <1>4 DEF new

LEMMA ClearKeepsLane ==
  ASSUME NEW lane \in Lane, NEW s \in Seq(Payloads), Numbered(lane, s)
  PROVE  /\ [lane EXCEPT !.queue = <<>>] \in Lane
         /\ Numbered([lane EXCEPT !.queue = <<>>], s)
         /\ [lane EXCEPT !.queue = <<>>].last_applied = lane.last_applied
<1> DEFINE new == [lane EXCEPT !.queue = <<>>]
<1>1. /\ lane.last_queued \in Nat /\ lane.last_applied \in Nat
      /\ lane = [last_queued |-> lane.last_queued, queue |-> lane.queue,
                 last_applied |-> lane.last_applied]
  BY DEF Lane
<1>2. new = [last_queued |-> lane.last_queued, queue |-> <<>>,
             last_applied |-> lane.last_applied]
  BY <1>1
<1> HIDE DEF new
<1>3. new \in Lane
  BY <1>1, <1>2 DEF Lane
<1>4. new.queue = <<>> /\ new.last_queued = Len(s)
  BY <1>2 DEF Numbered
<1>5. Len(new.queue) = 0
  BY <1>4
<1>6. Numbered(new, s)
  BY <1>4, <1>5 DEF Numbered
<1> QED  BY <1>2, <1>3, <1>6 DEF new

\* Frames stay what they are while more is sent, the reader advances and
\* participants end.
LEMMA FramesAge ==
  ASSUME NEW s \in Seq(Payloads), NEW t \in Seq(Payloads),
         t = s \/ \E m \in Payloads : t = Append(s, m),
         NEW c \in Nat, NEW d \in Nat, c <= d,
         NEW before, NEW after, after # "Ended" => before # "Ended"
  PROVE  /\ \A entry \in DirectEntry :
              Fresh(entry, s, c, before) => Fresh(entry, t, d, after)
         /\ \A flight \in [entry : DirectEntry, answer : Answers] :
              Sound(flight, s, c, before) => Sound(flight, t, d, after)
<1>1. ASSUME NEW entry \in DirectEntry, Fresh(entry, s, c, before)
      PROVE  Fresh(entry, t, d, after)
  <2>1. Genuine(entry, t)
    BY <1>1, GenuineKept DEF Fresh
  <2>2. entry.seq \in Nat
    BY DEF DirectEntry
  <2>3. after # "Ended" => entry.seq <= d + 1
    BY <1>1, <2>2 DEF Fresh
  <2> QED  BY <2>1, <2>3 DEF Fresh
<1>2. ASSUME NEW flight \in [entry : DirectEntry, answer : Answers],
             Sound(flight, s, c, before)
      PROVE  Sound(flight, t, d, after)
  <2>1. flight.entry \in DirectEntry /\ flight.entry.seq \in Nat
    BY DEF DirectEntry
  <2>2. Fresh(flight.entry, t, d, after)
    BY <1>1, <1>2, <2>1 DEF Sound
  <2> QED  BY <1>2, <2>1, <2>2 DEF Sound
<1> QED  BY <1>1, <1>2

LEMMA Answered ==
  ASSUME NEW flight \in [entry : DirectEntry, answer : Answers], NEW answer \in Answers
  PROVE  /\ [flight EXCEPT !.answer = answer] = [entry |-> flight.entry, answer |-> answer]
         /\ [entry |-> flight.entry, answer |-> answer]
              \in [entry : DirectEntry, answer : Answers]
         /\ flight.entry \in DirectEntry
  OBVIOUS

Budgets == [steps : [Participants -> Nat],
            crashes : 0..MaxCrashes, timeouts : 0..MaxTimeouts]

LEMMA BudgetSpent ==
  ASSUME NEW left \in Budgets
  PROVE  /\ left.crashes > 0 => [left EXCEPT !.crashes = @ - 1] \in Budgets
         /\ left.timeouts > 0 => [left EXCEPT !.timeouts = @ - 1] \in Budgets
<1>1. /\ left.steps \in [Participants -> Nat]
      /\ left.crashes \in 0..MaxCrashes /\ left.timeouts \in 0..MaxTimeouts
      /\ left = [steps |-> left.steps, crashes |-> left.crashes,
                 timeouts |-> left.timeouts]
      /\ MaxCrashes \in Nat /\ MaxTimeouts \in Nat
  BY DirectAssumption DEF Budgets
<1>2. /\ [left EXCEPT !.crashes = @ - 1]
           = [steps |-> left.steps, crashes |-> left.crashes - 1,
              timeouts |-> left.timeouts]
      /\ [left EXCEPT !.timeouts = @ - 1]
           = [steps |-> left.steps, crashes |-> left.crashes,
              timeouts |-> left.timeouts - 1]
  BY <1>1
<1>3. /\ left.crashes > 0 => left.crashes - 1 \in 0..MaxCrashes
      /\ left.timeouts > 0 => left.timeouts - 1 \in 0..MaxTimeouts
  BY <1>1
<1> QED  BY <1>1, <1>2, <1>3 DEF Budgets

LEMMA Nested ==
  ASSUME NEW P, NEW S, NEW f \in [P -> [P -> S]],
         NEW p \in P, NEW q \in P, NEW v \in S
  PROVE  /\ [f EXCEPT ![p][q] = v] \in [P -> [P -> S]]
         /\ [f EXCEPT ![p][q] = v][p][q] = v
         /\ \A a, b \in P :
              a # p \/ b # q => [f EXCEPT ![p][q] = v][a][b] = f[a][b]
  OBVIOUS

-----------------------------------------------------------------------------
(* Frames under way.                                                       *)

\* What every step does to a pair: messages are only added, cursors only
\* advance, and who has ended stays ended.
Ages ==
  \A p, q \in Participants :
    /\ \/ sent'[p][q] = sent[p][q]
       \/ \E m \in Payloads : sent'[p][q] = Append(sent[p][q], m)
    /\ Cursor(p, q) <= Cursor(p, q)'
    /\ Live(q)' => Live(q)

LEMMA TypesOfPair ==
  ASSUME TypeOK, NEW p \in Participants, NEW q \in Participants
  PROVE  /\ direct[p][q] \in Lane
         /\ sent[p][q] \in Seq(Payloads)
         /\ handed[p][q] \in Seq(Payloads)
         /\ Len(handed[p][q]) \in Nat
         /\ Cursor(p, q) \in Nat
         /\ send[p][q] # None =>
              send[p][q] \in [entry : DirectEntry, answer : Answers]
<1>1. direct[p][q] \in Lane /\ direct[q][p] \in Lane
  BY DEF TypeOK
<1>2. /\ sent[p][q] \in Seq(Payloads) /\ handed[p][q] \in Seq(Payloads)
      /\ send[p][q] \in [entry : DirectEntry, answer : Answers] \cup {None}
  BY DEF TypeOK
<1>3. Cursor(p, q) \in Nat
  BY <1>1 DEF Cursor, Lane
<1>4. Len(handed[p][q]) \in Nat
  BY <1>2
<1> QED  BY <1>1, <1>2, <1>3, <1>4

LEMMA FramesKept ==
  ASSUME Inv, TypeOK', Ages
  PROVE  /\ \A p, q \in Participants : send[p][q] # None =>
              Sound(send[p][q], sent'[p][q], Cursor(p, q)', mode'[q])
         /\ \A f \in late :
              Fresh(f.entry, sent'[f.from][f.to], Cursor(f.from, f.to)', mode'[f.to])
<1>1. ASSUME NEW p \in Participants, NEW q \in Participants
      PROVE  /\ sent[p][q] \in Seq(Payloads) /\ sent'[p][q] \in Seq(Payloads)
             /\ Cursor(p, q) \in Nat /\ Cursor(p, q)' \in Nat
  <2>1. TypeOK
    BY DEF Inv
  <2>2. sent[p][q] \in Seq(Payloads) /\ Cursor(p, q) \in Nat
    BY <2>1, TypesOfPair
  <2>3. sent'[p][q] \in Seq(Payloads) /\ Cursor(p, q)' \in Nat
    BY DEF TypeOK, Cursor, Lane
  <2> QED  BY <2>2, <2>3
<1>2. ASSUME NEW p \in Participants, NEW q \in Participants, send[p][q] # None
      PROVE  Sound(send[p][q], sent'[p][q], Cursor(p, q)', mode'[q])
  <2>1. send[p][q] \in [entry : DirectEntry, answer : Answers]
    BY <1>2, TypesOfPair DEF Inv
  <2>2. Sound(send[p][q], sent[p][q], Cursor(p, q), mode[q])
    BY <1>2 DEF Inv, FlightsHold
  <2>3. /\ \/ sent'[p][q] = sent[p][q]
           \/ \E m \in Payloads : sent'[p][q] = Append(sent[p][q], m)
        /\ Cursor(p, q) <= Cursor(p, q)'
        /\ mode'[q] # "Ended" => mode[q] # "Ended"
    BY DEF Ages, Live
  <2> QED  BY <1>1, <2>1, <2>2, <2>3, FramesAge
<1>3. ASSUME NEW p \in Participants, NEW q \in Participants, NEW entry \in DirectEntry,
             Fresh(entry, sent[p][q], Cursor(p, q), mode[q])
      PROVE  Fresh(entry, sent'[p][q], Cursor(p, q)', mode'[q])
  <2>1. /\ \/ sent'[p][q] = sent[p][q]
           \/ \E m \in Payloads : sent'[p][q] = Append(sent[p][q], m)
        /\ Cursor(p, q) <= Cursor(p, q)'
        /\ mode'[q] # "Ended" => mode[q] # "Ended"
    BY DEF Ages, Live
  <2> QED  BY <1>1, <1>3, <2>1, FramesAge
<1>4. ASSUME NEW f \in late
      PROVE  Fresh(f.entry, sent'[f.from][f.to], Cursor(f.from, f.to)', mode'[f.to])
  <2>1. f.entry \in DirectEntry /\ f.from \in Participants /\ f.to \in Participants
    BY DEF Inv, TypeOK
  <2>2. Fresh(f.entry, sent[f.from][f.to], Cursor(f.from, f.to), mode[f.to])
    BY DEF Inv, LateHolds
  <2> QED  BY <1>3, <2>1, <2>2, Zenon
<1> QED  BY <1>2, <1>4

\* Steps that leave the durable lanes, the programs' histories and the modes
\* of the participants alone age nothing.
LEMMA StillAges ==
  ASSUME Inv, UNCHANGED <<direct, sent, handed>>,
         \A p \in Participants : Live(p)' => Live(p)
  PROVE  Ages
<1>1. \A p, q \in Participants : Cursor(p, q)' = Cursor(p, q) /\ Cursor(p, q) \in Nat
  BY TypesOfPair DEF Inv, Cursor
<1> QED  BY <1>1 DEF Ages

LEMMA LanesStay ==
  ASSUME Inv, UNCHANGED <<direct, sent, handed>>,
         \A p \in Participants : Live(p)' => Live(p)
  PROVE  LanesHold'
<1> SUFFICES ASSUME NEW p \in Participants, NEW q \in Participants
             PROVE  LaneHolds(direct'[p][q], sent'[p][q], Cursor(p, q)',
                              Len(handed'[p][q]), mode'[p], mode'[q])
  BY DEF LanesHold
<1>1. LaneHolds(direct[p][q], sent[p][q], Cursor(p, q), Len(handed[p][q]),
                mode[p], mode[q])
  BY DEF Inv, LanesHold
<1>2. Cursor(p, q)' = Cursor(p, q)
  BY DEF Cursor
<1>3. mode'[p] # "Ended" /\ mode'[q] # "Ended" =>
        mode[p] # "Ended" /\ mode[q] # "Ended"
  BY DEF Live
<1> QED  BY <1>1, <1>2, <1>3 DEF LaneHolds

\* A frame that a reader may take.
LEMMA DeliveryFacts ==
  ASSUME Inv, NEW q \in Participants, NEW d \in Deliveries(q)
  PROVE  /\ d.from \in Participants /\ d.entry \in DirectEntry
         /\ Fresh(d.entry, sent[d.from][q], Cursor(d.from, q), mode[q])
         /\ d.fresh => /\ send[d.from][q] # None
                       /\ send[d.from][q].entry = d.entry
<1>1. CASE \E p \in Participants :
             /\ send[p][q] # None
             /\ d = [from |-> p, entry |-> send[p][q].entry, fresh |-> TRUE]
  <2>1. PICK p \in Participants :
          /\ send[p][q] # None
          /\ d = [from |-> p, entry |-> send[p][q].entry, fresh |-> TRUE]
    BY <1>1
  <2>2. d.from = p /\ d.entry = send[p][q].entry
    BY <2>1
  <2>3. Sound(send[p][q], sent[p][q], Cursor(p, q), mode[q])
    BY <2>1 DEF Inv, FlightsHold
  <2>4. send[p][q].entry \in DirectEntry
    BY <2>1, TypesOfPair DEF Inv
  <2> QED  BY <2>1, <2>2, <2>3, <2>4 DEF Sound
<1>2. CASE \E f \in late :
             /\ f.to = q
             /\ d = [from |-> f.from, entry |-> f.entry, fresh |-> FALSE]
  <2>1. PICK f \in late :
          /\ f.to = q
          /\ d = [from |-> f.from, entry |-> f.entry, fresh |-> FALSE]
    BY <1>2
  <2>2. d.from = f.from /\ d.entry = f.entry /\ d.fresh = FALSE
    BY <2>1
  <2>3. Fresh(f.entry, sent[f.from][f.to], Cursor(f.from, f.to), mode[f.to])
    BY DEF Inv, LateHolds
  <2>4. f.entry \in DirectEntry /\ f.from \in Participants
    BY DEF Inv, TypeOK
  <2> QED  BY <2>1, <2>2, <2>3, <2>4
<1>3. (\E p \in Participants :
         /\ send[p][q] # None
         /\ d = [from |-> p, entry |-> send[p][q].entry, fresh |-> TRUE])
      \/ (\E f \in late :
            /\ f.to = q
            /\ d = [from |-> f.from, entry |-> f.entry, fresh |-> FALSE])
  BY Zenon DEF Deliveries
<1> QED  BY <1>1, <1>2, <1>3

FlightType == [Participants -> [Participants ->
                 [entry : DirectEntry, answer : Answers] \cup {None}]]

LateType == [from : Participants, to : Participants, entry : DirectEntry]

\* The answer changes a flight's answer only, or uses up a late frame.
LEMMA AnswerFacts ==
  ASSUME Inv, NEW q \in Participants, NEW d \in Deliveries(q),
         NEW answer \in Answers, Answer(q, d, answer)
  PROVE  /\ send' \in FlightType
         /\ late' \subseteq late
         /\ \A a, b \in Participants :
              \/ send'[a][b] = send[a][b]
              \/ /\ a = d.from /\ b = q
                 /\ send'[a][b] = [entry |-> d.entry, answer |-> answer]
<1>1. d.from \in Participants /\ send \in FlightType
  BY DeliveryFacts DEF Inv, TypeOK, FlightType
<1>2. CASE d.fresh
  <2>1. /\ send[d.from][q] # None /\ send[d.from][q].entry = d.entry
        /\ d.entry \in DirectEntry
    BY <1>2, DeliveryFacts
  <2>2. send[d.from][q] \in [entry : DirectEntry, answer : Answers]
    BY <1>1, <2>1, TypesOfPair DEF Inv
  <2>3. [send[d.from][q] EXCEPT !.answer = answer]
          = [entry |-> d.entry, answer |-> answer]
    BY <2>1, <2>2
  <2>4. /\ send' = [send EXCEPT ![d.from][q] = [@ EXCEPT !.answer = answer]]
        /\ late' = late
    BY <1>2 DEF Answer
  <2>5. send' = [send EXCEPT ![d.from][q] = [entry |-> d.entry, answer |-> answer]]
    BY <1>1, <2>3, <2>4 DEF FlightType
  <2>6. [entry |-> d.entry, answer |-> answer]
          \in [entry : DirectEntry, answer : Answers] \cup {None}
    BY <2>1
  <2>7. /\ send' \in FlightType
        /\ send'[d.from][q] = [entry |-> d.entry, answer |-> answer]
        /\ \A a, b \in Participants :
             a # d.from \/ b # q => send'[a][b] = send[a][b]
    BY <1>1, <2>5, <2>6, Nested DEF FlightType
  <2> QED  BY <2>4, <2>7
<1>3. CASE ~d.fresh
  <2>1. send' = send /\ late' \subseteq late
    BY <1>3 DEF Answer
  <2> QED  BY <1>1, <2>1
<1> QED  BY <1>2, <1>3

\* An answer keeps the frames under way what they are, if an acknowledgement
\* is given only by an ended reader or for a number the reader has recorded.
LEMMA AnswerKeepsFrames ==
  ASSUME Inv, TypeOK', Ages, NEW q \in Participants, NEW d \in Deliveries(q),
         NEW answer \in Answers, Answer(q, d, answer), answer # "Rejected",
         Live(q)' /\ answer = "Ack" => d.entry.seq <= Cursor(d.from, q)'
  PROVE  FlightsHold' /\ LateHolds'
<1>1. ASSUME NEW a \in Participants, NEW b \in Participants, send'[a][b] # None
      PROVE  Sound(send'[a][b], sent'[a][b], Cursor(a, b)', mode'[b])
  <2>1. CASE send'[a][b] = send[a][b]
    BY <1>1, <2>1, FramesKept
  <2>2. CASE /\ a = d.from /\ b = q
             /\ send'[a][b] = [entry |-> d.entry, answer |-> answer]
    <3>1. send'[a][b].entry = d.entry /\ send'[a][b].answer = answer
      BY <2>2
    <3>2. Fresh(d.entry, sent[a][b], Cursor(a, b), mode[b]) /\ d.entry \in DirectEntry
      BY <2>2, DeliveryFacts
    <3>3. Fresh(d.entry, sent'[a][b], Cursor(a, b)', mode'[b])
      <4>1. /\ sent[a][b] \in Seq(Payloads) /\ Cursor(a, b) \in Nat
        BY TypesOfPair DEF Inv
      <4>2. sent'[a][b] \in Seq(Payloads) /\ Cursor(a, b)' \in Nat
        BY DEF TypeOK, Cursor, Lane
      <4>4. /\ \/ sent'[a][b] = sent[a][b]
               \/ \E m \in Payloads : sent'[a][b] = Append(sent[a][b], m)
            /\ Cursor(a, b) <= Cursor(a, b)'
            /\ mode'[b] # "Ended" => mode[b] # "Ended"
        BY DEF Ages, Live
      <4> QED  BY <3>2, <4>1, <4>2, <4>4, FramesAge
    <3> QED  BY <2>2, <3>1, <3>3 DEF Sound, Live
  <2> QED  BY <2>1, <2>2, AnswerFacts
<1>2. ASSUME NEW f \in late'
      PROVE  Fresh(f.entry, sent'[f.from][f.to], Cursor(f.from, f.to)', mode'[f.to])
  BY <1>2, FramesKept, AnswerFacts
<1> QED  BY <1>1, <1>2 DEF FlightsHold, LateHolds

-----------------------------------------------------------------------------
(* Every step keeps Inv.                                                   *)

LEMMA InitHolds == Init => Inv
<1> SUFFICES ASSUME Init PROVE Inv
  OBVIOUS
<1>1. NewLane \in Lane
  BY DEF NewLane, Lane
<1>2. TypeOK
  BY <1>1, DirectAssumption DEF Init, TypeOK
<1>3. ASSUME NEW p \in Participants, NEW q \in Participants
      PROVE  /\ LaneHolds(direct[p][q], sent[p][q], Cursor(p, q), Len(handed[p][q]),
                          mode[p], mode[q])
             /\ send[p][q] = None
  <2>1. /\ direct[p][q] = NewLane /\ direct[q][p] = NewLane
        /\ sent[p][q] = <<>> /\ handed[p][q] = <<>> /\ send[p][q] = None
    BY DEF Init
  <2>2. /\ NewLane.queue = <<>> /\ NewLane.last_queued = 0 /\ NewLane.last_applied = 0
    BY DEF NewLane
  <2>3. Numbered(NewLane, <<>>) /\ Dropped(NewLane) = 0
    <3>1. ASSUME NEW lane, NEW s, lane.queue = <<>>, lane.last_queued = 0, s = <<>>
          PROVE  Numbered(lane, s) /\ Dropped(lane) = 0
      <4>1. Len(lane.queue) = 0 /\ Len(s) = 0
        BY <3>1
      <4>2. Dropped(lane) = 0
        <5>1. Dropped(lane) = 0 - 0
          BY <3>1, <4>1, Zenon DEF Dropped
        <5> QED  BY ONLY <5>1
      <4> QED  BY <3>1, <4>1, <4>2 DEF Numbered
    <3> QED  BY <2>2, <3>1, Zenon
  <2> QED  BY <2>1, <2>2, <2>3 DEF LaneHolds, Cursor
<1>4. late = {}
  BY DEF Init
<1> QED  BY <1>2, <1>3, <1>4 DEF Inv, LanesHold, FlightsHold, LateHolds

\* Of the steps that leave the durable lanes and the histories alone, those
\* that change no frame either.
LEMMA QuietKeepsInv ==
  ASSUME Inv, TypeOK', UNCHANGED <<direct, sent, handed, send, late>>,
         \A p \in Participants : Live(p)' => Live(p)
  PROVE  Inv'
<1>1. Ages /\ LanesHold'
  BY StillAges, LanesStay
<1>2. FlightsHold' /\ LateHolds'
  BY <1>1, FramesKept DEF FlightsHold, LateHolds
<1> QED  BY <1>1, <1>2 DEF Inv

LEMMA StageKeepsInv ==
  ASSUME Inv, NEW p \in Participants, Stage(p)
  PROVE  Inv'
<1>1. TypeOK'
  <2>1. /\ mode' \in [Participants -> {"Active", "Staged", "Ended"}]
        /\ owed' \in [Participants -> SUBSET Participants]
    BY DEF Inv, TypeOK, Stage, OthersOf
  <2>2. budget' \in [steps : [Participants -> Nat],
                     crashes : 0..MaxCrashes, timeouts : 0..MaxTimeouts]
    <3> DEFINE left == [budget.steps EXCEPT ![p] = @ - 1]
    <3>1. /\ budget.steps \in [Participants -> Nat] /\ budget.steps[p] > 0
          /\ budget.crashes \in 0..MaxCrashes /\ budget.timeouts \in 0..MaxTimeouts
          /\ budget = [steps |-> budget.steps, crashes |-> budget.crashes,
                       timeouts |-> budget.timeouts]
      BY DEF Inv, TypeOK, Stage
    <3>2. left \in [Participants -> Nat]
      BY <3>1
    <3>3. budget' = [budget EXCEPT !.steps = left]
      BY <3>1 DEF Stage
    <3> HIDE DEF left
    <3>4. budget' = [steps |-> left, crashes |-> budget.crashes,
                     timeouts |-> budget.timeouts]
      BY <3>1, <3>3
    <3> QED  BY <3>1, <3>2, <3>4
  <2> QED  BY <2>1, <2>2 DEF Inv, TypeOK, Stage
<1>2. \A a \in Participants : Live(a)' => Live(a)
  BY DEF Inv, TypeOK, Stage, Live
<1> QED  BY <1>1, <1>2, QuietKeepsInv DEF Stage

LEMMA CertifyKeepsInv ==
  ASSUME Inv, NEW p \in Participants, Certify(p)
  PROVE  Inv'
<1>1. TypeOK'
  BY DEF Inv, TypeOK, Certify, OthersOf
<1>2. \A a \in Participants : Live(a)' => Live(a)
  BY DEF Inv, TypeOK, Certify, Live
<1> QED  BY <1>1, <1>2, QuietKeepsInv DEF Certify

LEMMA ProtocolSentKeepsInv ==
  ASSUME Inv, NEW p \in Participants, NEW q \in Participants, ProtocolSent(p, q)
  PROVE  Inv'
<1>1. TypeOK'
  BY DEF Inv, TypeOK, ProtocolSent
<1>2. \A a \in Participants : Live(a)' => Live(a)
  BY DEF ProtocolSent, Live
<1> QED  BY <1>1, <1>2, QuietKeepsInv DEF ProtocolSent

LEMMA RetryDueKeepsInv ==
  ASSUME Inv, NEW p \in Participants, NEW q \in Participants, RetryDue(p, q)
  PROVE  Inv'
<1>1. TypeOK'
  BY DEF Inv, TypeOK, RetryDue
<1>2. \A a \in Participants : Live(a)' => Live(a)
  BY DEF RetryDue, Live
<1> QED  BY <1>1, <1>2, QuietKeepsInv DEF RetryDue

\* The head of a live sender's queue is at most one beyond the cursor of a
\* live reader.
LEMMA DeliverKeepsInv ==
  ASSUME Inv, NEW p \in Participants, NEW q \in Participants, DeliverDirect(p, q)
  PROVE  Inv'
<1> DEFINE entry  == Head(DirectQueue(p, q))
           flight == [entry |-> entry, answer |-> "Pending"]
<1>1. /\ LaneHolds(direct[p][q], sent[p][q], Cursor(p, q), Len(handed[p][q]),
                   mode[p], mode[q])
      /\ direct[p][q] \in Lane /\ sent[p][q] \in Seq(Payloads) /\ Cursor(p, q) \in Nat
  BY TypesOfPair DEF Inv, LanesHold
<1>2. direct[p][q].queue # <<>> /\ mode[p] # "Ended"
  BY DEF DeliverDirect, DirectQueue
<1>3. /\ entry \in DirectEntry /\ Genuine(entry, sent[p][q])
      /\ entry.seq = Dropped(direct[p][q]) + 1
      /\ Dropped(direct[p][q]) \in Nat
  BY <1>1, <1>2, HeadIsGenuine, NumberedFacts DEF LaneHolds, DirectQueue
<1> HIDE DEF entry
<1>4. Sound(flight, sent[p][q], Cursor(p, q), mode[q])
  <2>1. mode[q] # "Ended" => entry.seq <= Cursor(p, q) + 1
    BY <1>1, <1>2, <1>3 DEF LaneHolds
  <2> QED  BY <1>3, <2>1 DEF Sound, Fresh
<1>5. send' = [send EXCEPT ![p][q] = flight]
  BY DEF DeliverDirect, entry
<1>6. send \in FlightType
      /\ flight \in [entry : DirectEntry, answer : Answers] \cup {None}
  BY <1>3 DEF Inv, TypeOK, FlightType, Answers
<1> HIDE DEF flight
<1>7. /\ send' \in FlightType /\ send'[p][q] = flight
      /\ \A a, b \in Participants : a # p \/ b # q => send'[a][b] = send[a][b]
  BY <1>5, <1>6, Nested DEF FlightType
<1>8. TypeOK'
  BY <1>7 DEF Inv, TypeOK, DeliverDirect, FlightType
<1>9. /\ UNCHANGED <<direct, sent, handed, mode, late>>
      /\ \A a \in Participants : Live(a)' => Live(a)
  BY DEF DeliverDirect, Live
<1>10. Ages /\ LanesHold'
  BY <1>9, StillAges, LanesStay
<1>11. FlightsHold'
  <2> SUFFICES ASSUME NEW a \in Participants, NEW b \in Participants, send'[a][b] # None
               PROVE  Sound(send'[a][b], sent'[a][b], Cursor(a, b)', mode'[b])
    BY DEF FlightsHold
  <2>1. CASE a = p /\ b = q
    BY <1>4, <1>7, <1>9, <2>1 DEF Cursor
  <2>2. CASE a # p \/ b # q
    BY <1>7, <1>8, <1>10, <2>2, FramesKept
  <2> QED  BY <2>1, <2>2
<1>12. LateHolds'
  BY <1>8, <1>9, <1>10, FramesKept DEF LateHolds
<1> QED  BY <1>8, <1>10, <1>11, <1>12 DEF Inv

LEMMA AcceptKeepsInv ==
  ASSUME Inv, NEW q \in Participants, NEW d \in Deliveries(q), AcceptDirect(q, d)
  PROVE  Inv'
<1>1. /\ UNCHANGED <<direct, sent, handed, mode, owed, retry, budget>>
      /\ \A a \in Participants : Live(a)' => Live(a)
  BY DEF AcceptDirect, Live
<1>2. Ages /\ LanesHold'
  BY <1>1, StillAges, LanesStay
<1>3. /\ d.from \in Participants /\ d.entry \in DirectEntry /\ d.entry.seq \in Nat
      /\ Fresh(d.entry, sent[d.from][q], Cursor(d.from, q), mode[q])
      /\ Cursor(d.from, q) \in Nat
  <2>1. d.from \in Participants /\ d.entry \in DirectEntry
        /\ Fresh(d.entry, sent[d.from][q], Cursor(d.from, q), mode[q])
    BY DeliveryFacts
  <2> QED  BY <2>1, TypesOfPair DEF Inv, DirectEntry
<1>4. \E answer \in Answers :
        /\ Answer(q, d, answer) /\ answer # "Rejected"
        /\ mode[q] # "Ended" /\ answer = "Ack" => d.entry.seq <= Cursor(d.from, q)
  <2>1. CASE mode[q] = "Ended" /\ \E a \in {"Ack", "NotYet"} : Answer(q, d, a)
    BY <2>1 DEF Answers
  <2>2. CASE mode[q] # "Ended"
    <3>1. d.entry.seq <= Cursor(d.from, q) + 1
      BY <1>3, <2>2 DEF Fresh
    <3>2. Arrival(q, d) # "Gap"
      BY <1>3, <3>1 DEF Arrival, DirectArrival, Cursor
    <3>3. Arrival(q, d) = "Duplicate" => d.entry.seq <= Cursor(d.from, q)
      BY <1>3 DEF Arrival, DirectArrival, Cursor
    <3>4. \/ Arrival(q, d) = "Duplicate" /\ Answer(q, d, "Ack")
          \/ Answer(q, d, "NotYet")
      BY <2>2, <3>2 DEF AcceptDirect
    <3> QED  BY <3>3, <3>4 DEF Answers
  <2> QED  BY <2>1, <2>2 DEF AcceptDirect
<1>5. PICK answer \in Answers :
        /\ Answer(q, d, answer) /\ answer # "Rejected"
        /\ mode[q] # "Ended" /\ answer = "Ack" => d.entry.seq <= Cursor(d.from, q)
  BY <1>4
<1>6. TypeOK'
  <2>1. send' \in FlightType /\ late' \subseteq late
    BY <1>5, AnswerFacts
  <2> QED  BY <1>1, <2>1 DEF Inv, TypeOK, FlightType
<1>7. Live(q)' /\ answer = "Ack" => d.entry.seq <= Cursor(d.from, q)'
  BY <1>1, <1>5 DEF Live, Cursor
<1>8. FlightsHold' /\ LateHolds'
  BY <1>2, <1>5, <1>6, <1>7, AnswerKeepsFrames
<1> QED  BY <1>2, <1>6, <1>8 DEF Inv

LEMMA TimeoutKeepsInv ==
  ASSUME Inv, NEW p \in Participants, NEW q \in Participants, SendTimeout(p, q)
  PROVE  Inv'
<1> DEFINE flight == [entry |-> send[p][q].entry, answer |-> "Error"]
<1>1. /\ UNCHANGED <<direct, sent, handed, mode, owed, retry>>
      /\ \A a \in Participants : Live(a)' => Live(a)
      /\ send[p][q] # None
  BY DEF SendTimeout, Live
<1>2. Ages /\ LanesHold'
  BY <1>1, StillAges, LanesStay
<1>3. /\ send \in FlightType
      /\ send[p][q] \in [entry : DirectEntry, answer : Answers]
  BY <1>1, TypesOfPair DEF Inv, TypeOK, FlightType
<1>4. [send[p][q] EXCEPT !.answer = "Error"] = flight
      /\ flight \in [entry : DirectEntry, answer : Answers] \cup {None}
  BY <1>3 DEF Answers
<1>5. send' = [send EXCEPT ![p][q] = flight]
  BY <1>3, <1>4 DEF SendTimeout, FlightType
<1>6. flight.entry = send[p][q].entry /\ flight.answer = "Error"
  OBVIOUS
<1> HIDE DEF flight
<1>7. /\ send' \in FlightType /\ send'[p][q] = flight
      /\ \A a, b \in Participants : a # p \/ b # q => send'[a][b] = send[a][b]
  BY <1>3, <1>4, <1>5, Nested DEF FlightType
<1>8. late' = late \/ late' = late \cup {[from |-> p, to |-> q, entry |-> send[p][q].entry]}
  BY DEF SendTimeout
<1>9. TypeOK'
  <2>1. late' \subseteq LateType
    <3>1. [from |-> p, to |-> q, entry |-> send[p][q].entry] \in LateType
      BY <1>3 DEF LateType
    <3>2. late \subseteq LateType
      BY DEF Inv, TypeOK, LateType
    <3> QED  BY <1>8, <3>1, <3>2
  <2>2. budget' \in [steps : [Participants -> Nat],
                     crashes : 0..MaxCrashes, timeouts : 0..MaxTimeouts]
    <3>1. budget \in Budgets
      BY DEF Inv, TypeOK, Budgets
    <3> QED  BY <3>1, BudgetSpent DEF SendTimeout, Budgets
  <2> QED  BY <1>1, <1>7, <2>1, <2>2 DEF Inv, TypeOK, FlightType, LateType
<1>10. FlightsHold'
  <2> SUFFICES ASSUME NEW a \in Participants, NEW b \in Participants, send'[a][b] # None
               PROVE  Sound(send'[a][b], sent'[a][b], Cursor(a, b)', mode'[b])
    BY DEF FlightsHold
  <2>1. CASE a = p /\ b = q
    <3>1. Sound(send[p][q], sent'[p][q], Cursor(p, q)', mode'[q])
      BY <1>1, <1>2, <1>9, FramesKept
    <3> QED  BY <1>6, <1>7, <2>1, <3>1 DEF Sound
  <2>2. CASE a # p \/ b # q
    BY <1>2, <1>7, <1>9, <2>2, FramesKept
  <2> QED  BY <2>1, <2>2
<1>11. LateHolds'
  <2> SUFFICES ASSUME NEW f \in late'
               PROVE  Fresh(f.entry, sent'[f.from][f.to], Cursor(f.from, f.to)', mode'[f.to])
    BY DEF LateHolds
  <2>1. CASE f \in late
    BY <1>2, <1>9, <2>1, FramesKept
  <2>2. CASE f = [from |-> p, to |-> q, entry |-> send[p][q].entry]
    <3>1. Sound(send[p][q], sent'[p][q], Cursor(p, q)', mode'[q])
      BY <1>1, <1>2, <1>9, FramesKept
    <3>2. f.from = p /\ f.to = q /\ f.entry = send[p][q].entry
      BY <2>2
    <3> QED  BY <3>1, <3>2 DEF Sound
  <2> QED  BY <1>8, <2>1, <2>2
<1> QED  BY <1>2, <1>9, <1>10, <1>11 DEF Inv

LEMMA CrashKeepsInv ==
  ASSUME Inv, NEW p \in Participants, Crash(p)
  PROVE  Inv'
<1>1. /\ UNCHANGED <<direct, sent, handed, mode>>
      /\ \A a \in Participants : Live(a)' => Live(a)
  BY DEF Crash, Live
<1>2. Ages /\ LanesHold'
  BY <1>1, StillAges, LanesStay
<1>3. PICK arriving \in SUBSET {q \in OthersOf(p) :
                          send[p][q] # None /\ send[p][q].answer = "Pending"} :
        late' = late \cup {[from |-> p, to |-> q, entry |-> send[p][q].entry] :
                             q \in arriving}
  BY DEF Crash
<1>4. ASSUME NEW a \in Participants, NEW b \in Participants
      PROVE  \/ send'[a][b] = None
             \/ send'[a][b] = send[a][b]
             \/ /\ send[a][b] # None
                /\ send'[a][b] = [entry |-> send[a][b].entry, answer |-> "Error"]
  <2>1. send'[a][b] = IF a = p THEN None
                      ELSE IF b = p /\ send[a][b] # None
                           THEN [send[a][b] EXCEPT !.answer = "Error"]
                           ELSE send[a][b]
    BY DEF Crash
  <2>2. send[a][b] # None =>
          [send[a][b] EXCEPT !.answer = "Error"]
            = [entry |-> send[a][b].entry, answer |-> "Error"]
    <3>1. send[a][b] # None => send[a][b] \in [entry : DirectEntry, answer : Answers]
      BY TypesOfPair DEF Inv
    <3>2. "Error" \in Answers
      BY DEF Answers
    <3> QED  BY <3>1, <3>2, Answered
  <2> QED  BY <2>1, <2>2
<1>5. send' \in FlightType
  <2>1. ASSUME NEW a \in Participants, NEW b \in Participants
        PROVE  send'[a][b] \in [entry : DirectEntry, answer : Answers] \cup {None}
    <3>1. send[a][b] # None => send[a][b] \in [entry : DirectEntry, answer : Answers]
      BY TypesOfPair DEF Inv
    <3>2. "Error" \in Answers
      BY DEF Answers
    <3>3. send[a][b] # None => [entry |-> send[a][b].entry, answer |-> "Error"]
                                 \in [entry : DirectEntry, answer : Answers]
      BY <3>1, <3>2, Answered
    <3> QED  BY <1>4, <3>1, <3>3
  <2>2. send' = [a \in Participants |-> [b \in Participants |-> send'[a][b]]]
    BY DEF Crash
  <2> QED  BY <2>1, <2>2 DEF FlightType
<1>6. ASSUME NEW q \in arriving
      PROVE  /\ q \in Participants /\ send[p][q] # None
             /\ send[p][q].entry \in DirectEntry
  BY TypesOfPair DEF Inv, OthersOf
<1>7. TypeOK'
  <2>1. late' \subseteq LateType
    <3>1. late \subseteq LateType
      BY DEF Inv, TypeOK, LateType
    <3> QED  BY <1>3, <1>6, <3>1 DEF LateType
  <2>2. budget' \in [steps : [Participants -> Nat],
                     crashes : 0..MaxCrashes, timeouts : 0..MaxTimeouts]
    <3>1. budget \in Budgets
      BY DEF Inv, TypeOK, Budgets
    <3> QED  BY <3>1, BudgetSpent DEF Crash, Budgets
  <2>3. /\ retry' \in [Participants -> SUBSET Participants]
        /\ owed' \in [Participants -> SUBSET Participants]
    BY DEF Inv, TypeOK, Crash, OthersOf
  <2> QED  BY <1>1, <1>5, <2>1, <2>2, <2>3 DEF Inv, TypeOK, FlightType, LateType
<1>8. FlightsHold'
  <2> SUFFICES ASSUME NEW a \in Participants, NEW b \in Participants, send'[a][b] # None
               PROVE  Sound(send'[a][b], sent'[a][b], Cursor(a, b)', mode'[b])
    BY DEF FlightsHold
  <2>1. CASE send'[a][b] = send[a][b]
    BY <1>2, <1>7, <2>1, FramesKept
  <2>2. CASE /\ send[a][b] # None
             /\ send'[a][b] = [entry |-> send[a][b].entry, answer |-> "Error"]
    <3>1. Sound(send[a][b], sent'[a][b], Cursor(a, b)', mode'[b])
      BY <1>2, <1>7, <2>2, FramesKept
    <3>2. send'[a][b].entry = send[a][b].entry /\ send'[a][b].answer = "Error"
      BY <2>2
    <3> QED  BY <3>1, <3>2 DEF Sound
  <2> QED  BY <1>4, <2>1, <2>2
<1>9. LateHolds'
  <2> SUFFICES ASSUME NEW f \in late'
               PROVE  Fresh(f.entry, sent'[f.from][f.to], Cursor(f.from, f.to)', mode'[f.to])
    BY DEF LateHolds
  <2>1. CASE f \in late
    BY <1>2, <1>7, <2>1, FramesKept
  <2>2. CASE \E q \in arriving : f = [from |-> p, to |-> q, entry |-> send[p][q].entry]
    <3>1. PICK q \in arriving : f = [from |-> p, to |-> q, entry |-> send[p][q].entry]
      BY <2>2
    <3>2. Sound(send[p][q], sent'[p][q], Cursor(p, q)', mode'[q])
      BY <1>2, <1>6, <1>7, FramesKept
    <3>3. f.from = p /\ f.to = q /\ f.entry = send[p][q].entry
      BY <3>1
    <3> QED  BY <3>2, <3>3 DEF Sound
  <2> QED  BY <1>3, <2>1, <2>2
<1> QED  BY <1>2, <1>7, <1>8, <1>9 DEF Inv

\* A pair whose lane, cursor and histories are as before holds as before.
LEMMA PairStays ==
  ASSUME Inv, NEW a \in Participants, NEW b \in Participants,
         direct'[a][b] = direct[a][b], sent'[a][b] = sent[a][b],
         Cursor(a, b)' = Cursor(a, b), handed'[a][b] = handed[a][b],
         Live(a)' => Live(a), Live(b)' => Live(b)
  PROVE  LaneHolds(direct'[a][b], sent'[a][b], Cursor(a, b)', Len(handed'[a][b]),
                   mode'[a], mode'[b])
<1>1. LaneHolds(direct[a][b], sent[a][b], Cursor(a, b), Len(handed[a][b]),
                mode[a], mode[b])
  BY DEF Inv, LanesHold
<1>2. mode'[a] # "Ended" /\ mode'[b] # "Ended" => mode[a] # "Ended" /\ mode[b] # "Ended"
  BY DEF Live
<1> QED  BY <1>1, <1>2 DEF LaneHolds

LEMMA LocalEventKeepsInv ==
  ASSUME Inv, NEW p \in Participants, NEW q \in Participants, NEW msg \in Payloads,
         LocalEvent(p, q, msg)
  PROVE  Inv'
<1> DEFINE lane == Enqueue(direct[p][q], msg)
           log  == Append(sent[p][q], msg)
<1>1. /\ UNCHANGED <<mode, owed, send, retry, late, handed, budget>>
      /\ direct' = [direct EXCEPT ![p][q] = lane]
      /\ sent' = [sent EXCEPT ![p][q] = log]
      /\ direct \in [Participants -> [Participants -> Lane]]
      /\ sent \in [Participants -> [Participants -> Seq(Payloads)]]
  BY DEF LocalEvent, Inv, TypeOK
<1>2. /\ LaneHolds(direct[p][q], sent[p][q], Cursor(p, q), Len(handed[p][q]),
                   mode[p], mode[q])
      /\ direct[p][q] \in Lane /\ sent[p][q] \in Seq(Payloads) /\ Cursor(p, q) \in Nat
  BY TypesOfPair DEF Inv, LanesHold
<1>3. /\ lane \in Lane /\ Numbered(lane, log)
      /\ Dropped(lane) = Dropped(direct[p][q])
      /\ lane.last_applied = direct[p][q].last_applied
  BY <1>2, EnqueueKeepsLane DEF LaneHolds
<1>4. log \in Seq(Payloads) /\ Len(log) = Len(sent[p][q]) + 1 /\ Len(sent[p][q]) \in Nat
  BY <1>2, AppendFacts
<1> HIDE DEF lane
<1>5. /\ direct' \in [Participants -> [Participants -> Lane]]
      /\ direct'[p][q] = lane
      /\ \A a, b \in Participants : a # p \/ b # q => direct'[a][b] = direct[a][b]
  BY <1>1, <1>3, Nested
<1>6. /\ sent' \in [Participants -> [Participants -> Seq(Payloads)]]
      /\ sent'[p][q] = log
      /\ \A a, b \in Participants : a # p \/ b # q => sent'[a][b] = sent[a][b]
  BY <1>1, <1>4, Nested
<1>7. \A a, b \in Participants : Cursor(a, b)' = Cursor(a, b) /\ Cursor(a, b) \in Nat
  BY <1>3, <1>5, TypesOfPair DEF Cursor, Inv
<1>8. \A a \in Participants : Live(a)' => Live(a)
  BY <1>1 DEF Live
<1>9. TypeOK'
  BY <1>1, <1>5, <1>6 DEF Inv, TypeOK
<1>10. Ages
  <2> SUFFICES ASSUME NEW a \in Participants, NEW b \in Participants
               PROVE  \/ sent'[a][b] = sent[a][b]
                      \/ \E m \in Payloads : sent'[a][b] = Append(sent[a][b], m)
    BY <1>7, <1>8, SMTT(30) DEF Ages
  <2> QED  BY <1>6
<1>11. LanesHold'
  <2> SUFFICES ASSUME NEW a \in Participants, NEW b \in Participants
               PROVE  LaneHolds(direct'[a][b], sent'[a][b], Cursor(a, b)',
                                Len(handed'[a][b]), mode'[a], mode'[b])
    BY DEF LanesHold
  <2>1. CASE a = p /\ b = q
    <3>1. Cursor(p, q) <= Len(log)
      BY <1>2, <1>4 DEF LaneHolds
    <3> HIDE DEF log
    <3>2. LaneHolds(lane, log, Cursor(p, q), Len(handed[p][q]), mode[p], mode[q])
      BY <1>2, <1>3, <3>1 DEF LaneHolds
    <3> QED  BY <1>1, <1>5, <1>6, <1>7, <2>1, <3>2
  <2>2. CASE a # p \/ b # q
    <3>1. /\ direct'[a][b] = direct[a][b] /\ sent'[a][b] = sent[a][b]
          /\ handed'[a][b] = handed[a][b] /\ Cursor(a, b)' = Cursor(a, b)
          /\ Live(a)' => Live(a)
          /\ Live(b)' => Live(b)
      BY <1>1, <1>5, <1>6, <1>7, <1>8, <2>2
    <3> QED  BY <3>1, PairStays
  <2> QED  BY <2>1, <2>2
<1>12. FlightsHold' /\ LateHolds'
  BY <1>1, <1>9, <1>10, FramesKept DEF FlightsHold, LateHolds
<1> QED  BY <1>9, <1>11, <1>12 DEF Inv

\* Only an acknowledgement drops an entry, and a live reader has recorded the
\* number it acknowledges.
LEMMA SettleKeepsInv ==
  ASSUME Inv, NEW p \in Participants, NEW q \in Participants, SettleDirect(p, q)
  PROVE  Inv'
<1> DEFINE flight == send[p][q]
           seq    == send[p][q].entry.seq
           lane   == AckDirect(direct[p][q], seq)
<1>1. /\ UNCHANGED <<mode, owed, late, sent, handed, budget>>
      /\ flight # None /\ flight.answer # "Pending"
      /\ send' = [send EXCEPT ![p][q] = None]
      /\ send \in FlightType
      /\ direct \in [Participants -> [Participants -> Lane]]
  BY DEF SettleDirect, Inv, TypeOK, FlightType
<1>2. /\ send' \in FlightType /\ send'[p][q] = None
      /\ \A a, b \in Participants : a # p \/ b # q => send'[a][b] = send[a][b]
  BY <1>1, Nested DEF FlightType
<1>3. retry' \in [Participants -> SUBSET Participants]
  <2>1. \/ retry' = [retry EXCEPT ![p] = @ \cup {q}]
        \/ retry' = [retry EXCEPT ![p] = @ \ {q}]
    BY DEF SettleDirect
  <2>2. retry \in [Participants -> SUBSET Participants]
    BY DEF Inv, TypeOK
  <2> QED  BY <2>1, <2>2
<1>4. \A a \in Participants : Live(a)' => Live(a)
  BY <1>1 DEF Live
<1>5. ASSUME TypeOK', Ages
      PROVE  FlightsHold' /\ LateHolds'
  <2>1. ASSUME NEW a \in Participants, NEW b \in Participants, send'[a][b] # None
        PROVE  Sound(send'[a][b], sent'[a][b], Cursor(a, b)', mode'[b])
    <3>1. send'[a][b] = send[a][b]
      BY <1>2, <2>1
    <3> QED  BY <1>5, <2>1, <3>1, FramesKept
  <2>2. LateHolds'
    BY <1>1, <1>5, FramesKept DEF LateHolds
  <2> QED  BY <2>1, <2>2 DEF FlightsHold
<1>6. CASE direct' = direct
  <2>1. TypeOK'
    BY <1>1, <1>2, <1>3, <1>6 DEF Inv, TypeOK, FlightType
  <2>2. Ages /\ LanesHold'
    BY <1>1, <1>4, <1>6, StillAges, LanesStay
  <2> QED  BY <1>5, <2>1, <2>2 DEF Inv
<1>7. CASE /\ flight.answer \notin {"NotYet", "Error"}
           /\ direct' = [direct EXCEPT ![p][q] = lane]
  <2>1. /\ LaneHolds(direct[p][q], sent[p][q], Cursor(p, q), Len(handed[p][q]),
                     mode[p], mode[q])
        /\ direct[p][q] \in Lane /\ sent[p][q] \in Seq(Payloads) /\ Cursor(p, q) \in Nat
    BY TypesOfPair DEF Inv, LanesHold
  <2>2. Sound(flight, sent[p][q], Cursor(p, q), mode[q])
    BY <1>1 DEF Inv, FlightsHold
  <2>3. flight \in [entry : DirectEntry, answer : Answers]
    BY <1>1, TypesOfPair DEF Inv
  <2>4. flight.answer = "Ack"
    BY <1>1, <1>7, <2>2, <2>3 DEF Sound, Answers
  <2>5. seq \in Nat /\ seq <= Len(sent[p][q])
    BY <2>2, <2>3 DEF Sound, Fresh, Genuine, DirectEntry
  <2>6. mode[q] # "Ended" => seq <= Cursor(p, q)
    BY <2>2, <2>4 DEF Sound
  <2> HIDE DEF flight, seq
  <2>7. /\ lane \in Lane /\ Numbered(lane, sent[p][q])
        /\ Dropped(lane) = IF seq <= Dropped(direct[p][q])
                           THEN Dropped(direct[p][q]) ELSE seq
        /\ lane.last_applied = direct[p][q].last_applied
    BY <2>1, <2>5, AckKeepsLane DEF LaneHolds
  <2> HIDE DEF lane
  <2>8. /\ direct' \in [Participants -> [Participants -> Lane]]
        /\ direct'[p][q] = lane
        /\ \A a, b \in Participants : a # p \/ b # q => direct'[a][b] = direct[a][b]
    BY <1>1, <1>7, <2>7, Nested
  <2>9. \A a, b \in Participants : Cursor(a, b)' = Cursor(a, b) /\ Cursor(a, b) \in Nat
    BY <2>7, <2>8, TypesOfPair DEF Cursor, Inv
  <2>10. TypeOK'
    BY <1>1, <1>2, <1>3, <2>8 DEF Inv, TypeOK, FlightType
  <2>11. Ages
    BY <1>1, <1>4, <2>9 DEF Ages
  <2>12. LanesHold'
    <3> SUFFICES ASSUME NEW a \in Participants, NEW b \in Participants
                 PROVE  LaneHolds(direct'[a][b], sent'[a][b], Cursor(a, b)',
                                  Len(handed'[a][b]), mode'[a], mode'[b])
      BY DEF LanesHold
    <3>1. CASE a = p /\ b = q
      <4>1. mode[p] # "Ended" /\ mode[q] # "Ended" => Dropped(lane) <= Cursor(p, q)
        BY <2>1, <2>6, <2>7 DEF LaneHolds
      <4>2. LaneHolds(lane, sent[p][q], Cursor(p, q), Len(handed[p][q]),
                      mode[p], mode[q])
        BY <2>1, <2>7, <4>1 DEF LaneHolds
      <4> QED  BY <1>1, <2>8, <2>9, <3>1, <4>2
    <3>2. CASE a # p \/ b # q
      BY <1>1, <1>4, <2>8, <2>9, <3>2, PairStays
    <3> QED  BY <3>1, <3>2
  <2> QED  BY <1>5, <2>10, <2>11, <2>12 DEF Inv
<1> QED  BY <1>6, <1>7 DEF SettleDirect

\* begin_end empties the queues of a participant that is live no more.
LEMMA BeginEndKeepsInv ==
  ASSUME Inv, NEW p \in Participants, BeginEnd(p)
  PROVE  Inv'
<1>1. /\ UNCHANGED <<send, retry, late, sent, handed, budget>>
      /\ mode' \in [Participants -> {"Active", "Staged", "Ended"}]
      /\ mode'[p] = "Ended"
      /\ \A a \in Participants : Live(a)' => Live(a)
      /\ owed' \in [Participants -> SUBSET Participants]
  BY DEF BeginEnd, Inv, TypeOK, Live, OthersOf
<1>2. /\ direct \in [Participants -> [Participants -> Lane]]
      /\ direct' = [direct EXCEPT ![p] =
                      [q \in Participants |-> [direct[p][q] EXCEPT !.queue = <<>>]]]
  BY DEF BeginEnd, ClearQueues, Inv, TypeOK
<1>3. ASSUME NEW b \in Participants
      PROVE  /\ direct'[p][b] \in Lane
             /\ Numbered(direct'[p][b], sent[p][b])
             /\ direct'[p][b].last_applied = direct[p][b].last_applied
  <2>1. direct'[p][b] = [direct[p][b] EXCEPT !.queue = <<>>]
    BY <1>2
  <2>2. /\ direct[p][b] \in Lane /\ sent[p][b] \in Seq(Payloads)
        /\ Numbered(direct[p][b], sent[p][b])
    BY TypesOfPair DEF Inv, LanesHold, LaneHolds
  <2> QED  BY <2>1, <2>2, ClearKeepsLane
<1>4. ASSUME NEW a \in Participants, a # p
      PROVE  direct'[a] = direct[a] /\ direct[a] \in [Participants -> Lane]
  BY <1>2, <1>4
<1>5. direct' \in [Participants -> [Participants -> Lane]]
  <2>1. /\ direct' = [a \in Participants |-> direct'[a]]
        /\ direct'[p] = [b \in Participants |-> direct'[p][b]]
    BY <1>2
  <2>2. direct'[p] \in [Participants -> Lane]
    BY <1>3, <2>1
  <2>3. \A a \in Participants : direct'[a] \in [Participants -> Lane]
    BY <1>4, <2>2
  <2> QED  BY <2>1, <2>3
<1>6. \A a, b \in Participants : Cursor(a, b)' = Cursor(a, b) /\ Cursor(a, b) \in Nat
  BY <1>3, <1>4, TypesOfPair DEF Cursor, Inv
<1>7. TypeOK'
  BY <1>1, <1>5 DEF Inv, TypeOK
<1>8. Ages
  BY <1>1, <1>6 DEF Ages
<1>9. LanesHold'
  <2> SUFFICES ASSUME NEW a \in Participants, NEW b \in Participants
               PROVE  LaneHolds(direct'[a][b], sent'[a][b], Cursor(a, b)',
                                Len(handed'[a][b]), mode'[a], mode'[b])
    BY DEF LanesHold
  <2>1. CASE a = p
    <3>1. LaneHolds(direct[a][b], sent[a][b], Cursor(a, b), Len(handed[a][b]),
                    mode[a], mode[b])
      BY DEF Inv, LanesHold
    <3> QED  BY <1>1, <1>3, <1>6, <2>1, <3>1 DEF LaneHolds
  <2>2. CASE a # p
    BY <1>1, <1>4, <1>6, <2>2, PairStays
  <2> QED  BY <2>1, <2>2
<1>10. FlightsHold' /\ LateHolds'
  BY <1>1, <1>7, <1>8, FramesKept DEF FlightsHold, LateHolds
<1> QED  BY <1>7, <1>9, <1>10 DEF Inv

\* The dispatched frame is the next one, so recording it moves the cursor by
\* one, over the message the program is given.
LEMMA DispatchKeepsInv ==
  ASSUME Inv, NEW q \in Participants, NEW d \in Deliveries(q),
         NEW reply \in Payloads \cup {None}, DispatchDirect(q, d, reply)
  PROVE  Inv'
<1> DEFINE from == d.from
           seen == RecordDirect(direct[q][from], d.entry.seq)
           lane == IF reply = None THEN seen ELSE Enqueue(seen, reply)
           log  == IF reply = None THEN sent[q][from] ELSE Append(sent[q][from], reply)
           gave == Append(handed[from][q], d.entry.msg)
<1>1. /\ UNCHANGED <<mode, owed, retry, budget>>
      /\ mode[q] = "Active" /\ Arrival(q, d) = "Next"
      /\ direct' = [direct EXCEPT ![q][from] = lane]
      /\ handed' = [handed EXCEPT ![from][q] = Append(@, d.entry.msg)]
      /\ Answer(q, d, "Ack")
  BY DEF DispatchDirect
<1>2. /\ from \in Participants /\ d.entry \in DirectEntry
      /\ d.entry.seq \in Nat /\ d.entry.msg \in Payloads
      /\ Fresh(d.entry, sent[from][q], Cursor(from, q), mode[q])
  BY DeliveryFacts DEF DirectEntry
<1>3. /\ direct \in [Participants -> [Participants -> Lane]]
      /\ sent \in [Participants -> [Participants -> Seq(Payloads)]]
      /\ handed \in [Participants -> [Participants -> Seq(Payloads)]]
  BY DEF Inv, TypeOK
<1> HIDE DEF from
<1>4. Cursor(from, q) \in Nat /\ d.entry.seq = Cursor(from, q) + 1
  <2>1. Cursor(from, q) \in Nat
    BY <1>2, TypesOfPair DEF Inv
  <2>2. Arrival(q, d) = DirectArrival(Cursor(from, q), d.entry.seq)
    BY DEF Arrival, Cursor, from
  <2> QED  BY <1>1, <1>2, <2>1, <2>2 DEF DirectArrival
<1>5. /\ direct[q][from] \in Lane /\ sent[q][from] \in Seq(Payloads)
      /\ Numbered(direct[q][from], sent[q][from])
  BY <1>2, TypesOfPair DEF Inv, LanesHold, LaneHolds
<1>6. /\ seen \in Lane /\ Numbered(seen, sent[q][from])
      /\ Dropped(seen) = Dropped(direct[q][from])
      /\ seen.last_applied = d.entry.seq
  <2>1. /\ seen \in Lane /\ seen.queue = direct[q][from].queue
        /\ seen.last_queued = direct[q][from].last_queued
        /\ seen.last_applied = d.entry.seq
    BY <1>2, <1>5, RecordKeepsLane
  <2> HIDE DEF seen
  <2> QED  BY <1>5, <2>1 DEF Numbered, Dropped
<1> HIDE DEF seen
<1>7. /\ lane \in Lane /\ Numbered(lane, log) /\ log \in Seq(Payloads)
      /\ Dropped(lane) = Dropped(direct[q][from])
      /\ lane.last_applied = d.entry.seq
  <2>1. CASE reply = None
    BY <1>5, <1>6, <2>1
  <2>2. CASE reply # None
    <3>1. reply \in Payloads
      BY <2>2
    <3>2. Append(sent[q][from], reply) \in Seq(Payloads)
      BY <1>5, <3>1, AppendFacts
    <3> QED  BY <1>5, <1>6, <2>2, <3>1, <3>2, EnqueueKeepsLane
  <2> QED  BY <2>1, <2>2
<1>8. sent' = [sent EXCEPT ![q][from] = log]
  <2>1. sent' = IF reply = None THEN sent ELSE [sent EXCEPT ![q][from] = Append(@, reply)]
    BY DEF DispatchDirect, from
  <2>2. CASE reply = None
    <3>1. sent' = sent /\ log = sent[q][from]
      BY <2>1, <2>2
    <3> HIDE DEF log
    <3> QED  BY <1>2, <1>3, <3>1
  <2>3. CASE reply # None
    BY <1>2, <1>3, <2>1, <2>3
  <2> QED  BY <2>2, <2>3
<1>9. handed' = [handed EXCEPT ![from][q] = gave]
  BY <1>1, <1>2, <1>3
<1>10. /\ gave \in Seq(Payloads) /\ Len(gave) = Len(handed[from][q]) + 1
       /\ Len(handed[from][q]) \in Nat
  BY <1>2, <1>3, AppendFacts
<1>11. log = sent[q][from] \/ \E m \in Payloads : log = Append(sent[q][from], m)
  BY DEF log
<1> HIDE DEF lane, log, gave
<1>12. /\ direct' \in [Participants -> [Participants -> Lane]]
       /\ direct'[q][from] = lane
       /\ \A a, b \in Participants : a # q \/ b # from => direct'[a][b] = direct[a][b]
  BY <1>1, <1>2, <1>3, <1>7, Nested
<1>13. /\ sent' \in [Participants -> [Participants -> Seq(Payloads)]]
       /\ sent'[q][from] = log
       /\ \A a, b \in Participants : a # q \/ b # from => sent'[a][b] = sent[a][b]
  BY <1>2, <1>3, <1>7, <1>8, Nested
<1>14. /\ handed' \in [Participants -> [Participants -> Seq(Payloads)]]
       /\ handed'[from][q] = gave
       /\ \A a, b \in Participants : a # from \/ b # q => handed'[a][b] = handed[a][b]
  BY <1>2, <1>3, <1>9, <1>10, Nested
<1>15. /\ Cursor(from, q)' = Cursor(from, q) + 1
       /\ \A a, b \in Participants : a # from \/ b # q => Cursor(a, b)' = Cursor(a, b)
  BY <1>2, <1>4, <1>7, <1>12 DEF Cursor
<1>16. \A a, b \in Participants : Cursor(a, b) \in Nat
  BY TypesOfPair DEF Inv
<1>17. \A a \in Participants : Live(a)' => Live(a)
  BY <1>1 DEF Live
<1>18. Ages
  <2> SUFFICES ASSUME NEW a \in Participants, NEW b \in Participants
               PROVE  /\ \/ sent'[a][b] = sent[a][b]
                         \/ \E m \in Payloads : sent'[a][b] = Append(sent[a][b], m)
                      /\ Cursor(a, b) <= Cursor(a, b)'
    BY <1>17 DEF Ages
  <2>1. Cursor(a, b) <= Cursor(a, b)'
    BY <1>4, <1>15, <1>16
  <2>2. \/ sent'[a][b] = sent[a][b]
        \/ \E m \in Payloads : sent'[a][b] = Append(sent[a][b], m)
    BY <1>11, <1>13
  <2> QED  BY <2>1, <2>2
<1>19. TypeOK'
  <2>1. send' \in FlightType /\ late' \subseteq late
    BY <1>1, AnswerFacts DEF Answers
  <2> QED  BY <1>1, <1>12, <1>13, <1>14, <2>1 DEF Inv, TypeOK, FlightType
<1>20. LanesHold'
  <2> SUFFICES ASSUME NEW a \in Participants, NEW b \in Participants
               PROVE  LaneHolds(direct'[a][b], sent'[a][b], Cursor(a, b)',
                                Len(handed'[a][b]), mode'[a], mode'[b])
    BY DEF LanesHold
  <2>1. /\ LaneHolds(direct[a][b], sent[a][b], Cursor(a, b), Len(handed[a][b]),
                     mode[a], mode[b])
        /\ direct[a][b] \in Lane /\ sent[a][b] \in Seq(Payloads)
    BY TypesOfPair DEF Inv, LanesHold
  <2>2. /\ Numbered(direct'[a][b], sent'[a][b])
        /\ Dropped(direct'[a][b]) = Dropped(direct[a][b])
    <3>1. CASE a = q /\ b = from
      BY <1>7, <1>12, <1>13, <3>1
    <3>2. CASE a # q \/ b # from
      BY <1>12, <1>13, <2>1, <3>2 DEF LaneHolds
    <3> QED  BY <3>1, <3>2
  <2>3. Len(sent[a][b]) \in Nat /\ Len(sent'[a][b]) \in Nat
        /\ Len(sent[a][b]) <= Len(sent'[a][b])
    <3>1. \/ sent'[a][b] = sent[a][b]
          \/ \E m \in Payloads : sent'[a][b] = Append(sent[a][b], m)
      BY <1>11, <1>13
    <3> QED  BY <2>1, <3>1, AppendFacts
  <2>4. Dropped(direct[a][b]) \in Nat
    BY <2>1, NumberedFacts DEF LaneHolds
  <2>5. CASE a = from /\ b = q
    <3>1. /\ Cursor(a, b)' = Cursor(a, b) + 1 /\ Cursor(a, b) \in Nat
          /\ Len(handed'[a][b]) = Len(handed[a][b]) + 1
      BY <1>4, <1>10, <1>14, <1>15, <2>5
    <3>2. Cursor(a, b)' <= Len(sent'[a][b])
      <4>1. d.entry.seq <= Len(sent[a][b])
        BY <1>2, <2>3, <2>5 DEF Fresh, Genuine
      <4> QED  BY <1>4, <2>3, <2>5, <3>1, <4>1
    <3>3. mode'[a] # "Ended" /\ mode'[b] # "Ended" =>
            Dropped(direct'[a][b]) <= Cursor(a, b)'
      BY <1>1, <2>1, <2>2, <2>4, <3>1 DEF LaneHolds
    <3>4. Cursor(a, b)' = Len(handed'[a][b])
      BY <2>1, <3>1 DEF LaneHolds
    <3> QED  BY <2>2, <3>2, <3>3, <3>4 DEF LaneHolds
  <2>6. CASE a # from \/ b # q
    <3>1. Cursor(a, b)' = Cursor(a, b) /\ handed'[a][b] = handed[a][b]
      BY <1>14, <1>15, <2>6
    <3>2. Cursor(a, b)' <= Len(sent'[a][b])
      <4>1. Cursor(a, b) \in Nat /\ Cursor(a, b) <= Len(sent[a][b])
        BY <1>16, <2>1 DEF LaneHolds
      <4> QED  BY <2>3, <3>1, <4>1
    <3> QED  BY <1>1, <2>1, <2>2, <3>1, <3>2 DEF LaneHolds
  <2> QED  BY <2>5, <2>6
<1>21. d.entry.seq <= Cursor(d.from, q)'
  BY <1>2, <1>4, <1>15 DEF from
<1>22. FlightsHold' /\ LateHolds'
  <2>1. "Ack" \in Answers
    BY DEF Answers
  <2> QED  BY <1>1, <1>18, <1>19, <1>21, <2>1, AnswerKeepsFrames
<1> QED  BY <1>19, <1>20, <1>22 DEF Inv

LEMMA StepKeepsInv ==
  ASSUME Inv, Next
  PROVE  Inv'
  BY LocalEventKeepsInv, StageKeepsInv, CertifyKeepsInv, BeginEndKeepsInv,
     CrashKeepsInv, ProtocolSentKeepsInv, DeliverKeepsInv, SettleKeepsInv,
     RetryDueKeepsInv, TimeoutKeepsInv, AcceptKeepsInv, DispatchKeepsInv
     DEF Next, Receive

LEMMA StutterKeepsInv ==
  ASSUME Inv, UNCHANGED vars
  PROVE  Inv'
<1>1. TypeOK'
  BY DEF Inv, TypeOK, vars
<1>2. \A a \in Participants : Live(a)' => Live(a)
  BY DEF Live, vars
<1> QED  BY <1>1, <1>2, QuietKeepsInv DEF vars

\* The inductive invariant of the direct lanes: queues, cursors and every
\* frame under way stay consistent with what programs sent and were given,
\* across crashes, timeouts, late frames and ends (direct.rs, delivery.rs).
THEOREM Invariance == Spec => []Inv
<1>1. Init => Inv
  BY InitHolds
<1>2. Inv /\ [Next]_vars => Inv'
  BY StepKeepsInv, StutterKeepsInv
<1> QED  BY <1>1, <1>2, PTL DEF Spec

\* No lane, flight, late frame or history of the direct lanes leaves its type.
THEOREM TypeCorrect == Spec => []TypeOK
<1>1. Inv => TypeOK
  BY DEF Inv
<1> QED  BY <1>1, Invariance, PTL

-----------------------------------------------------------------------------
(* What the runs check.                                                    *)

LEMMA InvIsGapless ==
  ASSUME Inv
  PROVE  LaneIsGapless
<1>1. QueueMatchesItsCursor
  <2> SUFFICES ASSUME NEW p \in Participants, NEW q \in OthersOf(p)
               PROVE  /\ \A i \in DOMAIN direct[p][q].queue :
                           /\ direct[p][q].queue[i].seq
                                = direct[p][q].last_queued - Len(direct[p][q].queue) + i
                           /\ direct[p][q].queue[i].msg
                                = sent[p][q][direct[p][q].queue[i].seq]
                      /\ direct[q][p].last_applied <= direct[p][q].last_queued
                      /\ mode[p] # "Ended" /\ mode[q] # "Ended" =>
                           direct[p][q].last_queued - Len(direct[p][q].queue)
                             <= direct[q][p].last_applied
    BY Zenon DEF QueueMatchesItsCursor
  <2>1. q \in Participants
    BY DEF OthersOf
  <2>2. LaneHolds(direct[p][q], sent[p][q], Cursor(p, q), Len(handed[p][q]),
                  mode[p], mode[q])
    BY <2>1 DEF Inv, LanesHold
  <2>3. DOMAIN direct[p][q].queue = 1..Len(direct[p][q].queue)
    <3>1. direct[p][q] \in Lane
      BY <2>1, TypesOfPair DEF Inv
    <3>2. direct[p][q].queue \in Seq(DirectEntry)
      BY <3>1 DEF Lane
    <3> QED  BY <3>2
  <2> QED  BY <2>2, <2>3 DEF LaneHolds, Numbered, Dropped, Cursor
<1>2. NoGapArrives
  <2> SUFFICES ASSUME NEW q \in Participants, mode[q] # "Ended", NEW d \in Deliveries(q)
               PROVE  Arrival(q, d) # "Gap"
    BY DEF NoGapArrives
  <2>1. /\ d.from \in Participants /\ d.entry \in DirectEntry
        /\ Fresh(d.entry, sent[d.from][q], Cursor(d.from, q), mode[q])
    BY DeliveryFacts
  <2>2. d.entry.seq \in Nat /\ Cursor(d.from, q) \in Nat
    BY <2>1, TypesOfPair DEF Inv, DirectEntry
  <2>3. d.entry.seq <= Cursor(d.from, q) + 1
    BY <2>1 DEF Fresh
  <2> QED  BY <2>2, <2>3 DEF Arrival, DirectArrival, Cursor
<1> QED  BY <1>1, <1>2 DEF LaneIsGapless

\* For any number of participants, any queue capacity and any number of
\* crashes and timeouts: a queue and its reader's cursor bound one gapless run
\* of numbers, and no live reader meets a frame beyond the next one, so the
\* refusal in accept_frame never drops a message nobody has seen.
THEOREM Gapless == Spec => []LaneIsGapless
<1>1. Inv => LaneIsGapless
  BY InvIsGapless
<1> QED  BY <1>1, Invariance, PTL

LEMMA StartsEmpty == Init => Channel!ChannelInit
  BY DEF Init, Channel!ChannelInit, Channel!Nothing

LEMMA ExtendsByOne ==
  ASSUME NEW s \in Seq(Payloads), NEW m \in Payloads
  PROVE  Channel!Extends(s, s) /\ Channel!Extends(s, Append(s, m))
<1>1. /\ Len(s) \in Nat /\ Len(Append(s, m)) = Len(s) + 1
      /\ Append(s, m) \in Seq(Payloads)
  BY AppendFacts
<1>2. SubSeq(s, 1, Len(s)) = s
  OBVIOUS
<1>3. SubSeq(Append(s, m), 1, Len(s)) = s
  OBVIOUS
<1> QED  BY <1>1, <1>2, <1>3 DEF Channel!Extends

Open == {p \in Participants : mode[p] # "Ended"}

LEMMA SameOpen ==
  ASSUME \A p \in Participants : Live(p)' <=> Live(p)
  PROVE  Open' = Open
  BY DEF Open, Live

\* What changes neither the histories nor who has ended is no step of the
\* channel.
LEMMA Unseen ==
  ASSUME UNCHANGED <<sent, handed>>, \A p \in Participants : Live(p)' <=> Live(p)
  PROVE  UNCHANGED Channel!channel
  BY SameOpen DEF Channel!channel, Open

\* A program's messages are appended to what it sent.
LEMMA SendsOne ==
  ASSUME Inv, NEW p \in Participants, NEW q \in Participants, NEW m \in Payloads,
         mode[p] # "Ended", sent' = [sent EXCEPT ![p][q] = Append(@, m)]
  PROVE  Channel!Send(p)
<1>1. sent \in [Participants -> [Participants -> Seq(Payloads)]]
  BY DEF Inv, TypeOK
<1>2. \A a \in Participants \ {p} : sent'[a] = sent[a]
  BY <1>1
<1>3. ASSUME NEW b \in Participants
      PROVE  Channel!Extends(sent[p][b], sent'[p][b])
  <2>1. sent[p][b] \in Seq(Payloads)
    BY <1>1
  <2>2. sent'[p][b] = IF b = q THEN Append(sent[p][b], m) ELSE sent[p][b]
    BY <1>1
  <2> QED  BY <2>1, <2>2, ExtendsByOne
<1> QED  BY <1>2, <1>3 DEF Channel!Send

LEMMA DispatchHands ==
  ASSUME Inv, NEW q \in Participants, NEW d \in Deliveries(q),
         NEW reply \in Payloads \cup {None}, DispatchDirect(q, d, reply)
  PROVE  Channel!Hand(d.from, q) /\ UNCHANGED Open
<1>1. /\ d.from \in Participants /\ d.entry \in DirectEntry
      /\ Fresh(d.entry, sent[d.from][q], Cursor(d.from, q), mode[q])
  BY DeliveryFacts
<1>2. /\ d.entry.seq \in Nat /\ Cursor(d.from, q) \in Nat
      /\ sent[d.from][q] \in Seq(Payloads)
      /\ Cursor(d.from, q) = Len(handed[d.from][q])
  BY <1>1, TypesOfPair DEF Inv, DirectEntry, LanesHold, LaneHolds
<1>3. d.entry.seq = Len(handed[d.from][q]) + 1
  <2>1. Arrival(q, d) = DirectArrival(Cursor(d.from, q), d.entry.seq)
    BY DEF Arrival, Cursor
  <2>2. Arrival(q, d) = "Next"
    BY DEF DispatchDirect
  <2> QED  BY <1>2, <2>1, <2>2 DEF DirectArrival
<1>4. Len(handed[d.from][q]) < Len(sent[d.from][q])
  BY <1>1, <1>2, <1>3 DEF Fresh, Genuine
<1>5. d.entry.msg = sent[d.from][q][Len(handed[d.from][q]) + 1]
  BY <1>1, <1>3 DEF Fresh, Genuine
<1>6. handed' = [handed EXCEPT ![d.from][q] =
                   Append(@, sent[d.from][q][Len(handed[d.from][q]) + 1])]
  BY <1>5 DEF DispatchDirect
<1>7. Channel!Send(q) \/ sent' = sent
  <2>1. CASE reply = None
    BY <2>1 DEF DispatchDirect
  <2>2. CASE reply # None
    <3>1. reply \in Payloads /\ mode[q] # "Ended"
          /\ sent' = [sent EXCEPT ![q][d.from] = Append(@, reply)]
      BY <2>2 DEF DispatchDirect
    <3> QED  BY <1>1, <3>1, SendsOne
  <2> QED  BY <2>1, <2>2
<1>8. q \in Open /\ UNCHANGED Open
  BY DEF DispatchDirect, Open
<1> QED  BY <1>4, <1>6, <1>7, <1>8 DEF Channel!Hand, Open

LEMMA StepImplements ==
  ASSUME Inv, [Next]_vars
  PROVE  [Channel!ChannelNext]_(Channel!channel)
<1>1. ASSUME NEW p \in Participants, NEW q \in Participants, NEW msg \in Payloads,
             LocalEvent(p, q, msg)
      PROVE  Channel!ChannelNext
  <2>1. Channel!Send(p)
    BY <1>1, SendsOne DEF LocalEvent
  <2>2. UNCHANGED <<handed, Open>>
    BY <1>1 DEF LocalEvent, Open
  <2> QED  BY <2>1, <2>2 DEF Channel!ChannelNext, Open
<1>2. ASSUME NEW p \in Participants, BeginEnd(p)
      PROVE  Channel!ChannelNext
  <2>1. p \in Open /\ Open' = Open \ {p}
    BY <1>2 DEF BeginEnd, Open, Inv, TypeOK
  <2>2. Channel!End(p) /\ UNCHANGED <<sent, handed>>
    BY <1>2, <2>1 DEF BeginEnd, Channel!End, Open
  <2> QED  BY <2>2 DEF Channel!ChannelNext
<1>3. ASSUME NEW q \in Participants, NEW d \in Deliveries(q),
             NEW reply \in Payloads \cup {None}, DispatchDirect(q, d, reply)
      PROVE  Channel!ChannelNext
  <2>1. Channel!Hand(d.from, q) /\ UNCHANGED Open
    BY <1>3, DispatchHands
  <2>2. d.from \in Participants
    BY DeliveryFacts
  <2> QED  BY <2>1, <2>2 DEF Channel!ChannelNext, Open
<1>4. ASSUME NEW p \in Participants, Stage(p) \/ Certify(p) \/ Crash(p)
      PROVE  UNCHANGED Channel!channel
  <2>1. /\ UNCHANGED <<sent, handed>>
        /\ \A a \in Participants : Live(a)' <=> Live(a)
    BY <1>4 DEF Stage, Certify, Crash, Live, Inv, TypeOK
  <2> QED  BY <2>1, Unseen
<1>5. ASSUME NEW p \in Participants, NEW q \in Participants,
             \/ ProtocolSent(p, q) \/ DeliverDirect(p, q) \/ SettleDirect(p, q)
             \/ RetryDue(p, q) \/ SendTimeout(p, q)
      PROVE  UNCHANGED Channel!channel
  <2>1. UNCHANGED <<sent, handed, mode>>
    BY <1>5 DEF ProtocolSent, DeliverDirect, SettleDirect, RetryDue, SendTimeout
  <2>2. \A a \in Participants : Live(a)' <=> Live(a)
    BY <2>1 DEF Live
  <2> QED  BY <2>1, <2>2, Unseen
<1>6. ASSUME NEW q \in Participants, NEW d \in Deliveries(q), AcceptDirect(q, d)
      PROVE  UNCHANGED Channel!channel
  <2>1. UNCHANGED <<sent, handed, mode>>
    BY <1>6 DEF AcceptDirect
  <2>2. \A a \in Participants : Live(a)' <=> Live(a)
    BY <2>1 DEF Live
  <2> QED  BY <2>1, <2>2, Unseen
<1>7. CASE UNCHANGED vars
  <2>1. UNCHANGED <<sent, handed>> /\ \A a \in Participants : Live(a)' <=> Live(a)
    BY <1>7 DEF vars, Live
  <2> QED  BY <2>1, Unseen
<1> QED  BY <1>1, <1>2, <1>3, <1>4, <1>5, <1>6, <1>7 DEF Next, Receive

\* The lanes implement the channel the documentation promises programs: every
\* message of a live session is handed over once and in order, whatever is
\* lost, delayed or repeated below.
THEOREM Refinement == Spec => ImplementsChannel
<1>1. Init => Channel!ChannelInit
  BY StartsEmpty
<1>2. Inv /\ [Next]_vars => [Channel!ChannelNext]_(Channel!channel)
  BY StepImplements
<1> QED  BY <1>1, <1>2, Invariance, PTL DEF Spec, ImplementsChannel, Channel!ChannelSpec

=============================================================================
