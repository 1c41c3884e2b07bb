------------------------- MODULE NegotiationProofs -------------------------
(***************************************************************************)
(* Safety of Negotiation for every number of Hosts, creators and terms,    *)
(* every target size and every bound.                                      *)
(*                                                                         *)
(* A handler of Host h works on s = [drive, record, out]. Local(h, s) is   *)
(* what holds of it between any two of its calls; each handler's lemma     *)
(* says that the handler keeps Local and changes h's activation row only   *)
(* as RowKept allows. SettleKeepsInv then carries Local to the global      *)
(* invariant Inv: the rows of other Hosts only matter to h as "holds this  *)
(* session", and no step ever takes a session from a row.                  *)
(***************************************************************************)
EXTENDS Negotiation, FiniteSetTheorems, TLAPS

----------------------------------------------------------------------------
(* The inductive invariant *)

Reasons == {None, "Withdrawn", "Failed", "Prepare", "Signing", "NotSelected"}

OfferFacts == [kind : {"Offer"}, offer : Offer, tickets : SUBSET Ticket]

Facts == OfferFacts
  \cup [kind : {"Ticket"}, ticket : Ticket]
  \cup [kind : {"ActivationSignature"}, host : Hosts, session : Sessions]
  \cup [kind : {"ActivationAnnouncement"}, session : Sessions]
  \cup [kind : {"Counteroffer"}, host : Hosts, creator : Creators]
  \cup [kind : {"FetchActivationTickets"}, host : Hosts, session : Sessions]
  \cup [kind : {"ActivationTickets"}, host : Hosts, session : Sessions]

Drives ==
  [phase : Phases, reason : Reasons, offer : Offer \cup {None},
   listed : SUBSET Ticket, ticket : Ticket \cup {None},
   book : [Hosts -> Ticket \cup {None}], prepared : Sessions \cup {None},
   pending : OfferFacts \cup {None}, sigs : SUBSET Hosts,
   counters : SUBSET {k \in Hosts : Pref[k] # None},
   tried : UNION {[D -> Nat] : D \in SUBSET Params}, attempts : Nat]

States == [drive : Drives, record : Rows \cup {None}, out : SUBSET Facts]

\* A session that a creator has frozen.
Frozen(s) ==
  /\ s \in Sessions /\ IsSession(s) /\ IsFiniteSet(s.tickets)
  /\ \A t \in s.tickets : t.rev = 0

\* Host m holds session x, where row is what h holds.
Holds(m, x, h, row) == PreparedAs(IF m = h THEN row ELSE record[m], x)

\* What h's row may say: a session that names h, that its request allows, and
\* that every Host it names holds once it is committed.
RowOK(h, row) ==
  row # None =>
    /\ Frozen(row.session) /\ h \in Members(row.session)
    /\ request[h].failure = None
    /\ h \notin Creators => request[h].bound = row.session.offer.creator
    /\ row.status = "Committed" =>
         \A m \in Members(row.session) : Holds(m, row.session, h, row)

\* A drive's own ticket is for its offer, and a creator's is in its book.
TicketOK(h, d) ==
  /\ d.ticket # None =>
       /\ d.ticket.host = h /\ d.ticket.offer = d.offer
       /\ d.ticket.active /\ d.ticket.rev = 0
  /\ d.phase = "Driving" => d.offer \in Offer
  /\ d.phase = "Waiting" => d.ticket = None
  /\ d.offer \in Offer /\ h \notin Creators => request[h].bound = d.offer.creator
  /\ d.phase = "Driving" /\ h \in Creators => d.ticket # None /\ d.book[h] = d.ticket

\* The book of a creator has one ticket a Host, Active ones for its offer.
BookOK(h, d) ==
  h \in Creators => \A k \in Hosts : d.book[k] # None =>
    /\ d.book[k].host = k
    /\ d.book[k].active => d.book[k].offer = d.offer /\ d.book[k].rev = 0

\* What a drive prepared is in the row, and who signed it holds it.
PreparedOK(h, d, row) ==
  /\ IF d.prepared = None THEN d.sigs = {} ELSE PreparedAs(row, d.prepared)
  /\ d.phase = "Active" => row # None /\ row.status = "Committed"
  /\ \A k \in d.sigs : k \in Members(d.prepared) /\ Holds(k, d.prepared, h, row)

\* A ticket's successor, and only it, is withdrawn.
Issued(t) == t.active => t.rev = 0

\* A fact of any Host, where h is the Host whose handler runs and row its row.
FactOK(f, h, row) ==
  /\ f.kind = "Ticket" /\ f.ticket.host \notin Creators =>
       request[f.ticket.host].bound = f.ticket.offer.creator
  /\ f.kind = "Ticket" => Issued(f.ticket)
  /\ f.kind = "ActivationSignature" => Holds(f.host, f.session, h, row)
  /\ f.kind = "ActivationAnnouncement" =>
       \A m \in Members(f.session) : Holds(m, f.session, h, row)
  /\ f.kind = "Counteroffer" => Pref[f.host] # None
  /\ f.kind = "ActivationTickets" => Frozen(f.session)

Local(h, s) ==
  /\ s \in States
  /\ RowOK(h, s.record)
  /\ TicketOK(h, s.drive) /\ BookOK(h, s.drive)
  /\ PreparedOK(h, s.drive, s.record)
  /\ \A f \in s.out : FactOK(f, h, s.record)

\* A row keeps its session, and a commit is final.
RowKept(old, new) ==
  old # None => /\ PreparedAs(new, old.session)
                /\ old.status = "Committed" => new = old

Inv ==
  /\ request \in [Hosts -> [failure : {None, "Withdrawn", "Failed"},
                            bound : Creators \cup {None}]]
  /\ record \in [Hosts -> Rows \cup {None}]
  /\ drive \in [Hosts -> Drives]
  /\ starts \in [Hosts -> Nat]
  /\ wire \subseteq Facts /\ lapsed \subseteq Offer /\ acked \subseteq Hosts
  /\ \A h \in Hosts : Local(h, State(h))
  /\ \A f \in wire : \A h \in Hosts : FactOK(f, h, record[h])

----------------------------------------------------------------------------
(* The freeze *)

Usable(h, book) == {t \in TicketSet(book) : InWindow(h, t)}

\* u is chosen before t: the creator h first, then ascending PeerId.
Precedes(h, u, t) == u.host # t.host /\ (u.host = h \/ (t.host # h /\ u.host < t.host))

Ahead(h, book, t) == {u \in Usable(h, book) : Precedes(h, u, t)}

\* One Active ticket a Host, so a ticket of the book is found under its Host.
Indexed(book) ==
  /\ book \in [Hosts -> Ticket \cup {None}]
  /\ \A k \in Hosts : book[k] # None => book[k].host = k

\* try_freeze selects from the book: Active tickets, found under their Host.
LEMMA UsableTickets ==
  ASSUME NEW h, NEW book, Indexed(book)
  PROVE  /\ IsFiniteSet(Usable(h, book))
         /\ \A t \in Usable(h, book) :
              t \in Ticket /\ t.active /\ t = book[t.host] /\ t.host \in Hosts /\ t.host \in Nat
<1> DEFINE f == [k \in Hosts |-> book[k]]
           R == {book[k] : k \in Hosts}
<1>1. f \in Surjection(Hosts, R)
  BY DEF Surjection
<1>2. IsFiniteSet(R)
  BY <1>1, FS_Surjection, NegotiationAssumption
<1>3. Usable(h, book) \subseteq R
  BY DEF Usable, TicketSet
<1>4. IsFiniteSet(Usable(h, book))
  BY <1>2, <1>3, FS_Subset
<1>5. ASSUME NEW t \in Usable(h, book)
      PROVE  t \in Ticket /\ t.active /\ t = book[t.host] /\ t.host \in Hosts /\ t.host \in Nat
  <2>1. PICK k \in Hosts : t = book[k]
    BY <1>3
  <2>2. t # None /\ t.active
    BY DEF Usable, TicketSet
  <2>3. t \in Ticket /\ t.host = k
    BY <2>1, <2>2 DEF Indexed
  <2> QED
    BY <2>1, <2>2, <2>3, NegotiationAssumption
<1> QED
  BY <1>4, <1>5

\* Of two tickets one has strictly fewer ahead of it.
LEMMA AheadGrows ==
  ASSUME NEW h, NEW book, Indexed(book),
         NEW t \in Usable(h, book), NEW u \in Usable(h, book), Precedes(h, t, u)
  PROVE  /\ Cardinality(Ahead(h, book, t)) \in Nat
         /\ Cardinality(Ahead(h, book, u)) \in Nat
         /\ Cardinality(Ahead(h, book, t)) < Cardinality(Ahead(h, book, u))
<1>1. \A v \in Usable(h, book) : v.host \in Nat
  BY UsableTickets
<1>2. Ahead(h, book, t) \subseteq Ahead(h, book, u)
  BY <1>1 DEF Ahead, Precedes
<1>3. t \in Ahead(h, book, u) /\ t \notin Ahead(h, book, t)
  BY DEF Ahead, Precedes
<1>4. IsFiniteSet(Ahead(h, book, u))
  BY UsableTickets, FS_Subset DEF Ahead
<1>5. /\ IsFiniteSet(Ahead(h, book, t))
      /\ Cardinality(Ahead(h, book, t)) <= Cardinality(Ahead(h, book, u))
      /\ Cardinality(Ahead(h, book, u)) # Cardinality(Ahead(h, book, t))
  BY <1>2, <1>3, <1>4, FS_Subset
<1>6. Cardinality(Ahead(h, book, t)) \in Nat /\ Cardinality(Ahead(h, book, u)) \in Nat
  BY <1>4, <1>5, FS_CardinalityType
<1> QED
  BY <1>5, <1>6

\* try_freeze takes at most TargetSize tickets, and the creator's own whenever
\* its book has it: ranks below TargetSize are distinct, and its own is 0.
LEMMA SelectionFits ==
  ASSUME NEW h \in Hosts, NEW book, Indexed(book)
  PROVE  /\ Selection(h, book) \subseteq Usable(h, book)
         /\ IsFiniteSet(Selection(h, book))
         /\ Cardinality(Selection(h, book)) \in Nat
         /\ Cardinality(Selection(h, book)) <= TargetSize
         /\ book[h] # None /\ book[h].active => book[h] \in Selection(h, book)
<1> DEFINE U == Usable(h, book)
           C == Selection(h, book)
           Rank(t) == Cardinality(Ahead(h, book, t))
           f == [t \in C |-> Rank(t)]
<1>1. C = {t \in U : Rank(t) < TargetSize}
  BY DEF Selection, Usable, Ahead, Precedes
<1>2. C \subseteq U
  BY <1>1
<1>3. \A t \in U : Rank(t) \in Nat
  BY UsableTickets, FS_Subset, FS_CardinalityType DEF Ahead
<1>4. f \in [C -> 0..(TargetSize - 1)]
  BY <1>1, <1>3, NegotiationAssumption
<1>5. ASSUME NEW t \in C, NEW u \in C, t # u
      PROVE  f[t] # f[u]
  <2>1. t.host # u.host /\ t.host \in Nat /\ u.host \in Nat
    BY <1>2, <1>5, UsableTickets
  <2>2. Precedes(h, t, u) \/ Precedes(h, u, t)
    BY <2>1 DEF Precedes
  <2>3. Rank(t) \in Nat /\ Rank(u) \in Nat /\ (Rank(t) < Rank(u) \/ Rank(u) < Rank(t))
    BY <1>2, <2>2, AheadGrows
  <2> QED
    BY <2>3
<1>6. f \in Injection(C, 0..(TargetSize - 1))
  BY <1>4, <1>5 DEF Injection, IsInjective
<1>7. /\ IsFiniteSet(0..(TargetSize - 1))
      /\ Cardinality(0..(TargetSize - 1)) = TargetSize
  <2>1. 0 \in Int /\ TargetSize - 1 \in Int /\ ~(0 > TargetSize - 1) /\ TargetSize \in Int
    BY NegotiationAssumption
  <2>2. /\ IsFiniteSet(0..(TargetSize - 1))
        /\ Cardinality(0..(TargetSize - 1)) = (TargetSize - 1) - 0 + 1
    BY <2>1, FS_Interval
  <2> QED
    BY <2>1, <2>2
<1>8. IsFiniteSet(C) /\ Cardinality(C) <= TargetSize
  BY <1>6, <1>7, FS_Injection
<1>9. ASSUME book[h] # None, book[h].active
      PROVE  book[h] \in C
  <2>1. book[h] \in U
    BY <1>9 DEF Usable, TicketSet, InWindow, Indexed
  <2>2. Ahead(h, book, book[h]) = {}
    BY <1>9 DEF Ahead, Precedes, Indexed
  <2>3. Rank(book[h]) = 0
    BY <2>2, FS_EmptySet
  <2> QED
    BY <1>1, <2>1, <2>3, NegotiationAssumption
<1> QED
  BY <1>2, <1>8, <1>9, FS_CardinalityType

----------------------------------------------------------------------------
(* What a handler's calls keep *)

\* A call of h's handler led from s to u.
LocalStep(h, s, u) == Local(h, u) /\ RowKept(s.record, u.record)

\* A row is kept by a call that does not touch it.
LEMMA RowKeptReflexive == ASSUME NEW row, row \in Rows \cup {None} PROVE RowKept(row, row)
  BY DEF RowKept, PreparedAs

\* And by two calls that keep it.
LEMMA RowKeptTransitive ==
  ASSUME NEW a, NEW b, NEW c, RowKept(a, b), RowKept(b, c)
  PROVE  RowKept(a, c)
  BY DEF RowKept, PreparedAs

\* Calls compose.
LEMMA LocalStepTransitive ==
  ASSUME NEW h, NEW s, NEW u, NEW v, LocalStep(h, s, u), LocalStep(h, u, v)
  PROVE  LocalStep(h, s, v)
  BY RowKeptTransitive DEF LocalStep

\* A call that does nothing.
LEMMA LocalStepReflexive ==
  ASSUME NEW h, NEW s, Local(h, s)
  PROVE  LocalStep(h, s, s)
  BY RowKeptReflexive DEF LocalStep, Local, States

\* A fact stays true when h's row moves on.
LEMMA FactKept ==
  ASSUME NEW f, NEW h, NEW old, NEW new, FactOK(f, h, old), RowKept(old, new)
  PROVE  FactOK(f, h, new)
  BY DEF FactOK, Holds, RowKept, PreparedAs

\* publish adds facts that hold.
LEMMA PublishLocal ==
  ASSUME NEW h, NEW s, Local(h, s), NEW facts, facts \subseteq Facts,
         \A f \in facts : FactOK(f, h, s.record)
  PROVE  LocalStep(h, s, Publish(s, facts))
<1> DEFINE u == Publish(s, facts)
<1>1. s \in States
  BY DEF Local
<1>2. u \in States /\ u.drive = s.drive /\ u.record = s.record /\ u.out = s.out \cup facts
  BY <1>1 DEF Publish, States
<1>3. \A f \in u.out : FactOK(f, h, u.record)
  BY <1>2 DEF Local
<1>4. RowKept(s.record, u.record)
  BY <1>1, <1>2, RowKeptReflexive DEF States
<1> HIDE DEF u
<1>5. LocalStep(h, s, u)
  BY <1>2, <1>3, <1>4 DEF Local, LocalStep
<1> QED
  BY <1>5 DEF u

\* A call that only changes the drive.
LEMMA DriveLocal ==
  ASSUME NEW h, NEW s, Local(h, s), NEW d \in Drives,
         TicketOK(h, d), BookOK(h, d), PreparedOK(h, d, s.record)
  PROVE  LocalStep(h, s, [s EXCEPT !.drive = d])
<1> DEFINE u == [s EXCEPT !.drive = d]
<1>1. s \in States
  BY DEF Local
<1>2. u \in States /\ u.drive = d /\ u.record = s.record /\ u.out = s.out
  BY <1>1 DEF States
<1>3. RowKept(s.record, u.record)
  BY <1>1, <1>2, RowKeptReflexive DEF States
<1> HIDE DEF u
<1>4. LocalStep(h, s, u)
  BY <1>2, <1>3 DEF Local, LocalStep
<1> QED
  BY <1>4 DEF u

\* A drive that ends keeps what it knows until finish_negotiation.
LEMMA EndingDrive ==
  ASSUME NEW h, NEW d \in Drives, NEW row, NEW reason \in Reasons,
         TicketOK(h, d), BookOK(h, d), PreparedOK(h, d, row)
  PROVE  LET e == [d EXCEPT !.phase = "Ending", !.reason = reason] IN
         e \in Drives /\ TicketOK(h, e) /\ BookOK(h, e) /\ PreparedOK(h, e, row)
<1> DEFINE e == [d EXCEPT !.phase = "Ending", !.reason = reason]
<1>1. /\ e \in Drives /\ e.phase = "Ending"
      /\ e.ticket = d.ticket /\ e.offer = d.offer /\ e.book = d.book
      /\ e.prepared = d.prepared /\ e.sigs = d.sigs
  BY DEF Drives, Phases
<1> HIDE DEF e
<1>2. TicketOK(h, e)
  BY <1>1 DEF TicketOK
<1>3. BookOK(h, e)
  BY <1>1 DEF BookOK
<1>4. PreparedOK(h, e, row)
  BY <1>1 DEF PreparedOK
<1> QED
  BY <1>1, <1>2, <1>3, <1>4 DEF e

\* Fail ends the drive and nothing else.
LEMMA FailLocal ==
  ASSUME NEW h, NEW s, Local(h, s), NEW reason \in Reasons
  PROVE  LocalStep(h, s, Fail(s, reason))
<1> DEFINE e == [s.drive EXCEPT !.phase = "Ending", !.reason = reason]
<1>1. s \in States /\ s.drive \in Drives
  BY DEF Local, States
<1>2. e \in Drives /\ TicketOK(h, e) /\ BookOK(h, e) /\ PreparedOK(h, e, s.record)
  BY <1>1, EndingDrive DEF Local
<1>3. Fail(s, reason) = [s EXCEPT !.drive = e]
  BY <1>1 DEF Fail, States, Drives
<1> HIDE DEF e
<1> QED
  BY <1>2, <1>3, DriveLocal

----------------------------------------------------------------------------
(* The creator's calls *)

\* What try_freeze commits to: a full session that names the creator.
LEMMA ChosenIsFrozen ==
  ASSUME NEW h \in Creators, NEW s, Local(h, s), s.drive.phase = "Driving",
         ~(Cardinality(Selection(h, s.drive.book)) < TargetSize)
  PROVE  LET x == Session(s.drive.offer, Selection(h, s.drive.book)) IN
         Frozen(x) /\ h \in Members(x)
<1> DEFINE C == Selection(h, s.drive.book)
           x == Session(s.drive.offer, C)
<1>1. h \in Hosts
  BY NegotiationAssumption
<1>2. s.drive \in Drives
  BY DEF Local, States
<1>3. Indexed(s.drive.book)
  BY <1>2 DEF Local, BookOK, Indexed, Drives
<1>4. /\ C \subseteq Usable(h, s.drive.book) /\ IsFiniteSet(C)
      /\ Cardinality(C) \in Nat /\ Cardinality(C) <= TargetSize
      /\ s.drive.book[h] # None /\ s.drive.book[h].active => s.drive.book[h] \in C
  BY <1>1, <1>3, SelectionFits
<1>5. s.drive.book[h] # None /\ s.drive.book[h].active /\ s.drive.book[h].host = h
  BY <1>1 DEF Local, TicketOK, BookOK
<1>6. Cardinality(C) = TargetSize
  BY <1>4, NegotiationAssumption
<1>7. \A t \in C : t \in Ticket /\ t.active /\ t.offer = s.drive.offer /\ t.rev = 0
  BY <1>3, <1>4, UsableTickets, NegotiationAssumption DEF Local, BookOK
<1>8. s.drive.offer \in Offer
  BY DEF Local, TicketOK
<1>9. x.offer = s.drive.offer /\ x.tickets = C /\ x \in Sessions
  BY <1>7, <1>8 DEF Session, Sessions
<1>10. Frozen(x)
  BY <1>4, <1>6, <1>7, <1>8, <1>9 DEF Frozen, IsSession
<1>11. h \in Members(x)
  BY <1>4, <1>5, <1>9 DEF Members
<1> QED
  BY <1>10, <1>11

\* prepare_activation: the row that results is the old one or the session's.
LEMMA PreparedRow ==
  ASSUME NEW h \in Hosts, NEW row, row \in Rows \cup {None}, RowOK(h, row),
         NEW x, Frozen(x), h \in Members(x)
  PROVE  LET new == PrepareActivation(h, row, x) IN
         new \in Rows \cup {None} /\ RowOK(h, new) /\ RowKept(row, new)
<1> DEFINE new == PrepareActivation(h, row, x)
<1>1. CASE row = None /\ RequestMatches(h, x)
  <2>1. new = [status |-> "Prepared", session |-> x]
    BY <1>1 DEF PrepareActivation
  <2>2. new \in Rows /\ new.session = x /\ new.status = "Prepared"
    BY <2>1 DEF Rows, Frozen
  <2>3. RowOK(h, new)
    BY <1>1, <2>2 DEF RowOK, RequestMatches
  <2> QED
    BY <1>1, <2>2, <2>3 DEF RowKept
<1>2. CASE ~(row = None /\ RequestMatches(h, x))
  <2>1. new = row
    BY <1>2 DEF PrepareActivation
  <2> QED
    BY <2>1, RowKeptReflexive
<1> QED
  BY <1>1, <1>2

\* A call that prepares x: the row, then the drive, then the signature.
LEMMA PrepareLocal ==
  ASSUME NEW h \in Hosts, NEW s, Local(h, s), NEW x, Frozen(x), h \in Members(x),
         NEW d \in Drives, TicketOK(h, d), BookOK(h, d), d.phase = "Driving",
         d.prepared = x, d.sigs \subseteq {h},
         PreparedAs(PrepareActivation(h, s.record, x), x),
         NEW u \in States, u.record = PrepareActivation(h, s.record, x), u.drive = d,
         u.out = s.out
  PROVE  LocalStep(h, s, u) /\ u.record.session = x /\ u.record # None
<1> DEFINE row == PrepareActivation(h, s.record, x)
<1>1. s \in States /\ RowOK(h, s.record)
  BY DEF Local
<1>2. row \in Rows \cup {None} /\ RowOK(h, row) /\ RowKept(s.record, row)
  BY <1>1, PreparedRow DEF States
<1>3. row # None /\ row.session = x
  BY DEF PreparedAs
<1> HIDE DEF row
<1>4. u \in States /\ u.record = row /\ u.drive = d /\ u.out = s.out
  BY DEF row
<1>5. PreparedOK(h, d, row)
  BY <1>3, NegotiationAssumption DEF PreparedOK, Holds, PreparedAs, Frozen
<1>6. \A f \in s.out : FactOK(f, h, row)
  BY <1>2, FactKept DEF Local
<1>7. LocalStep(h, s, u)
  BY <1>2, <1>4, <1>5, <1>6 DEF LocalStep, Local
<1> QED
  BY <1>3, <1>4, <1>7 DEF row

\* The facts a handler publishes, and what each has to say.
LEMMA FactsHold ==
  ASSUME NEW h, NEW row
  PROVE  /\ \A o \in Offer, ts \in SUBSET Ticket :
              OfferFact(o, ts) \in Facts /\ FactOK(OfferFact(o, ts), h, row)
         /\ \A t \in Ticket :
              /\ Issued(t)
              /\ t.host \notin Creators => request[t.host].bound = t.offer.creator
              => TicketFact(t) \in Facts /\ FactOK(TicketFact(t), h, row)
         /\ \A k \in Hosts, x \in Sessions : Holds(k, x, h, row) =>
              SignatureFact(k, x) \in Facts /\ FactOK(SignatureFact(k, x), h, row)
         /\ \A x \in Sessions : (\A m \in Members(x) : Holds(m, x, h, row)) =>
              AnnouncementFact(x) \in Facts /\ FactOK(AnnouncementFact(x), h, row)
<1>1. ASSUME NEW o \in Offer, NEW ts \in SUBSET Ticket
      PROVE  OfferFact(o, ts) \in Facts /\ FactOK(OfferFact(o, ts), h, row)
  BY DEF OfferFact, Facts, OfferFacts, FactOK
<1>2. ASSUME NEW t \in Ticket, Issued(t),
             t.host \notin Creators => request[t.host].bound = t.offer.creator
      PROVE  TicketFact(t) \in Facts /\ FactOK(TicketFact(t), h, row)
  BY <1>2 DEF TicketFact, Facts, FactOK
<1>3. ASSUME NEW k \in Hosts, NEW x \in Sessions, Holds(k, x, h, row)
      PROVE  SignatureFact(k, x) \in Facts /\ FactOK(SignatureFact(k, x), h, row)
  BY <1>3 DEF SignatureFact, Facts, FactOK
<1>4. ASSUME NEW x \in Sessions, \A m \in Members(x) : Holds(m, x, h, row)
      PROVE  AnnouncementFact(x) \in Facts /\ FactOK(AnnouncementFact(x), h, row)
  BY <1>4 DEF AnnouncementFact, Facts, FactOK
<1> QED
  BY <1>1, <1>2, <1>3, <1>4

\* try_freeze prepares the selected set durably and only then signs it.
LEMMA TryFreezeLocal ==
  ASSUME NEW h \in Creators, NEW s, Local(h, s)
  PROVE  LocalStep(h, s, TryFreeze(h, s))
<1> DEFINE chosen == Selection(h, s.drive.book)
           x == Session(s.drive.offer, chosen)
           row == PrepareActivation(h, s.record, x)
           d == [s.drive EXCEPT !.prepared = x, !.listed = chosen, !.sigs = {h}]
           u == [s EXCEPT !.record = row, !.drive = d]
           facts == {OfferFact(s.drive.offer, chosen), SignatureFact(h, x)}
<1>0. s \in States /\ s.drive \in Drives /\ h \in Hosts
  BY NegotiationAssumption DEF Local, States
<1>1. CASE \/ s.drive.phase # "Driving" \/ s.drive.prepared # None
           \/ s.drive.offer \in lapsed \/ Cardinality(chosen) < TargetSize
  BY <1>1, LocalStepReflexive DEF TryFreeze
<1>2. CASE /\ s.drive.phase = "Driving" /\ s.drive.prepared = None
           /\ s.drive.offer \notin lapsed /\ ~(Cardinality(chosen) < TargetSize)
           /\ ~PreparedAs(row, x)
  BY <1>2, FailLocal DEF TryFreeze, Reasons
<1>3. CASE /\ s.drive.phase = "Driving" /\ s.drive.prepared = None
           /\ s.drive.offer \notin lapsed /\ ~(Cardinality(chosen) < TargetSize)
           /\ PreparedAs(row, x)
  <2>1. TryFreeze(h, s) = Publish(u, facts)
    <3>1. [s EXCEPT !.record = row, !.drive.prepared = x, !.drive.listed = chosen,
                    !.drive.sigs = {h}] = u
      BY <1>0 DEF States, Drives
    <3> HIDE DEF u
    <3> QED
      BY <1>3, <3>1 DEF TryFreeze
  <2>2. Frozen(x) /\ h \in Members(x)
    BY <1>3, ChosenIsFrozen
  <2>3. chosen \in SUBSET Ticket /\ x \in Sessions /\ s.drive.offer \in Offer
    BY <1>3, <2>2 DEF Frozen, Sessions, Session, Local, TicketOK
  <2> HIDE DEF x
  <2>4. /\ d \in Drives /\ d.phase = "Driving" /\ d.prepared = x /\ d.sigs = {h}
        /\ d.ticket = s.drive.ticket /\ d.offer = s.drive.offer /\ d.book = s.drive.book
    BY <1>0, <1>3, <2>3 DEF Drives
  <2> HIDE DEF d
  <2>5. TicketOK(h, d) /\ BookOK(h, d)
    BY <1>3, <2>4 DEF Local, TicketOK, BookOK
  <2>6. LocalStep(h, s, u) /\ u.record # None /\ u.record.session = x
    <3>1. d \in Drives /\ d.sigs \subseteq {h} /\ d.phase = "Driving" /\ d.prepared = x
      BY <2>4
    <3>2. h \in Hosts /\ PreparedAs(PrepareActivation(h, s.record, x), x)
      BY <1>0, <1>3
    <3>3. row \in Rows \cup {None}
      BY <1>0, <2>2, PreparedRow DEF Local, States
    <3> HIDE DEF row
    <3>4. u \in States /\ u.record = row /\ u.drive = d /\ u.out = s.out
      BY <1>0, <3>1, <3>3 DEF States
    <3>5. u.record = PrepareActivation(h, s.record, x)
      BY <3>4 DEF row
    <3> HIDE DEF u
    <3> QED
      BY <2>2, <2>5, <3>1, <3>2, <3>4, <3>5, PrepareLocal
  <2> HIDE DEF u, row
  <2>7. Holds(h, x, h, u.record)
    BY <2>6 DEF Holds, PreparedAs
  <2>8. facts \subseteq Facts /\ \A f \in facts : FactOK(f, h, u.record)
    BY <1>0, <2>3, <2>7, FactsHold
  <2>9. LocalStep(h, u, Publish(u, facts))
    BY <2>6, <2>8, PublishLocal DEF LocalStep
  <2> QED
    BY <2>1, <2>6, <2>9, LocalStepTransitive
<1> QED
  BY <1>1, <1>2, <1>3

\* commit_activation, once every Host the session names is known to hold it.
LEMMA CommitLocal ==
  ASSUME NEW h \in Hosts, NEW s, Local(h, s), s.drive.prepared # None,
         \A m \in Members(s.drive.prepared) : Holds(m, s.drive.prepared, h, s.record)
  PROVE  LET u == [s EXCEPT !.record = CommitActivation(@), !.drive.phase = "Active"] IN
         /\ LocalStep(h, s, u)
         /\ u.record # None /\ u.record.session = s.drive.prepared
<1> DEFINE x == s.drive.prepared
           row == CommitActivation(s.record)
           d == [s.drive EXCEPT !.phase = "Active"]
           u == [s EXCEPT !.record = CommitActivation(@), !.drive.phase = "Active"]
<1>1. s \in States /\ s.drive \in Drives /\ s.record \in Rows /\ s.record.session = x /\ x \in Sessions
  BY DEF Local, States, PreparedOK, PreparedAs, Drives
<1>2. row \in Rows /\ row.session = x /\ row.status = "Committed"
  BY <1>1 DEF CommitActivation, Rows
<1>3. row # None
  BY <1>2, NegotiationAssumption
<1>4. s.record.status = "Committed" => row = s.record
  BY <1>1 DEF CommitActivation, Rows
<1> HIDE DEF row
<1>5. RowKept(s.record, row)
  BY <1>1, <1>2, <1>3, <1>4 DEF RowKept, PreparedAs
<1>6. \A m \in Members(x) : Holds(m, x, h, row)
  BY <1>2, <1>3 DEF Holds, PreparedAs
<1>7. RowOK(h, row)
  <2>1. s.record # None
    BY <1>1, NegotiationAssumption
  <2> QED
    BY <1>1, <1>2, <1>6, <2>1 DEF Local, RowOK
<1>8. /\ d \in Drives /\ d.phase = "Active" /\ d.ticket = s.drive.ticket
      /\ d.offer = s.drive.offer /\ d.book = s.drive.book
      /\ d.prepared = x /\ d.sigs = s.drive.sigs
  BY <1>1 DEF Drives, Phases
<1> HIDE DEF d
<1>9. TicketOK(h, d) /\ BookOK(h, d)
  BY <1>8 DEF Local, TicketOK, BookOK
<1>10. PreparedOK(h, d, row)
  <2>1. \A k \in d.sigs : k \in Members(x)
    BY <1>8 DEF Local, PreparedOK
  <2> QED
    BY <1>2, <1>3, <1>6, <1>8, <2>1 DEF PreparedOK, PreparedAs
<1>11. \A f \in s.out : FactOK(f, h, row)
  BY <1>5, FactKept DEF Local
<1>12. u \in States /\ u.drive = d /\ u.record = row /\ u.out = s.out
  BY <1>1, <1>2, <1>8 DEF States, Drives, row, d
<1> HIDE DEF u
<1>13. LocalStep(h, s, u)
  BY <1>5, <1>7, <1>9, <1>10, <1>11, <1>12 DEF LocalStep, Local
<1> QED
  BY <1>2, <1>3, <1>12, <1>13 DEF u

\* TargetSize signatures of a session are everybody's.
LEMMA EveryoneSigned ==
  ASSUME NEW x, Frozen(x), NEW sigs \in SUBSET Hosts, sigs \subseteq Members(x),
         Cardinality(sigs) >= TargetSize
  PROVE  sigs = Members(x)
<1> DEFINE f == [t \in x.tickets |-> t.host]
<1>1. f \in Surjection(x.tickets, Members(x))
  BY DEF Surjection, Members
<1>2. IsFiniteSet(x.tickets) /\ Cardinality(x.tickets) = TargetSize
  BY DEF Frozen, IsSession
<1>3. IsFiniteSet(Members(x)) /\ Cardinality(Members(x)) <= TargetSize
  BY <1>1, <1>2, FS_Surjection
<1>4. /\ IsFiniteSet(sigs) /\ Cardinality(sigs) <= Cardinality(Members(x))
      /\ (Cardinality(sigs) = Cardinality(Members(x)) => sigs = Members(x))
  BY <1>3, FS_Subset
<1>5. Cardinality(sigs) \in Nat /\ Cardinality(Members(x)) \in Nat
  BY <1>3, <1>4, FS_CardinalityType
<1> QED
  BY <1>3, <1>4, <1>5, NegotiationAssumption

\* try_aggregate commits and announces only what everybody signed.
LEMMA TryAggregateLocal ==
  ASSUME NEW h \in Hosts, NEW s, Local(h, s)
  PROVE  LocalStep(h, s, TryAggregate(h, s))
<1> DEFINE x == s.drive.prepared
           u == [s EXCEPT !.record = CommitActivation(@), !.drive.phase = "Active"]
           facts == {AnnouncementFact(x)}
<1>1. CASE ~(/\ s.drive.phase = "Driving" /\ x # None
             /\ Cardinality(s.drive.sigs) >= TargetSize)
  BY <1>1, LocalStepReflexive DEF TryAggregate
<1>2. CASE /\ s.drive.phase = "Driving" /\ x # None
           /\ Cardinality(s.drive.sigs) >= TargetSize
  <2>1. TryAggregate(h, s) = Publish(u, facts)
    BY <1>2 DEF TryAggregate
  <2>2. s.record # None /\ s.record.session = x /\ s.drive.sigs \in SUBSET Hosts
    BY <1>2 DEF Local, PreparedOK, PreparedAs, States, Drives
  <2>3. Frozen(x)
    BY <2>2 DEF Local, RowOK
  <2>4. /\ s.drive.sigs \subseteq Members(x)
        /\ \A k \in s.drive.sigs : Holds(k, x, h, s.record)
    BY DEF Local, PreparedOK
  <2>5. s.drive.sigs = Members(x)
    BY <1>2, <2>2, <2>3, <2>4, EveryoneSigned
  <2>6. \A m \in Members(x) : Holds(m, x, h, s.record)
    BY <2>4, <2>5
  <2>7. LocalStep(h, s, u) /\ u.record # None /\ u.record.session = x
    BY <1>2, <2>6, CommitLocal
  <2> HIDE DEF u
  <2>8. \A m \in Members(x) : Holds(m, x, h, u.record)
    BY <2>6, <2>7 DEF Holds, PreparedAs
  <2>9. facts \subseteq Facts /\ \A f \in facts : FactOK(f, h, u.record)
    BY <2>3, <2>8, FactsHold DEF Frozen
  <2>10. LocalStep(h, u, Publish(u, facts))
    BY <2>7, <2>9, PublishLocal DEF LocalStep
  <2> QED
    BY <2>1, <2>7, <2>10, LocalStepTransitive
<1> QED
  BY <1>1, <1>2

\* A signature joins the set: its signer is selected and holds the session.
LEMMA SignatureLocal ==
  ASSUME NEW h \in Hosts, NEW s, Local(h, s), s.drive.prepared # None,
         NEW k \in Hosts, k \in Members(s.drive.prepared),
         Holds(k, s.drive.prepared, h, s.record),
         NEW u, u = [s EXCEPT !.drive.sigs = @ \cup {k}]
  PROVE  LocalStep(h, s, u) /\ u.record = s.record
<1> DEFINE d == [s.drive EXCEPT !.sigs = @ \cup {k}]
<1>1. s \in States /\ s.drive \in Drives
  BY DEF Local, States
<1>2. u = [s EXCEPT !.drive = d]
  BY <1>1 DEF States, Drives
<1>3. /\ d \in Drives /\ d.sigs = s.drive.sigs \cup {k} /\ d.prepared = s.drive.prepared
      /\ d.phase = s.drive.phase /\ d.ticket = s.drive.ticket
      /\ d.offer = s.drive.offer /\ d.book = s.drive.book
  BY <1>1 DEF Drives
<1> HIDE DEF d
<1>4. TicketOK(h, d) /\ BookOK(h, d)
  BY <1>3 DEF Local, TicketOK, BookOK
<1>5. PreparedOK(h, d, s.record)
  BY <1>3 DEF Local, PreparedOK
<1>6. u.record = s.record
  BY <1>1, <1>2 DEF States
<1>7. LocalStep(h, s, [s EXCEPT !.drive = d])
  BY <1>3, <1>4, <1>5, DriveLocal
<1> QED
  BY <1>2, <1>6, <1>7

\* creator_emit publishes its offer, its ticket and, once frozen, its signature.
LEMMA CreatorFactsLocal ==
  ASSUME NEW h \in Creators, NEW s, Local(h, s)
  PROVE  LocalStep(h, s, CreatorFacts(h, s))
<1> DEFINE d == s.drive
<1>0. s \in States /\ d \in Drives /\ h \in Hosts
  BY NegotiationAssumption DEF Local, States
<1>1. CASE d.phase # "Driving"
  BY <1>1, LocalStepReflexive DEF CreatorFacts
<1>2. CASE d.phase = "Driving"
  <2>1. /\ d.offer \in Offer /\ d.listed \in SUBSET Ticket
        /\ d.ticket \in Ticket /\ d.ticket.host \in Creators /\ Issued(d.ticket)
    BY <1>0, <1>2 DEF Local, TicketOK, Drives, Issued
  <2>2. CASE d.prepared # None
    <3> DEFINE u == [s EXCEPT !.drive.sigs = @ \cup {h}]
               facts == {OfferFact(d.offer, d.listed), TicketFact(d.ticket),
                         SignatureFact(h, d.prepared)}
    <3>1. CreatorFacts(h, s) = Publish(u, facts)
      BY <1>2, <2>2 DEF CreatorFacts
    <3>2. h \in Members(d.prepared) /\ Holds(h, d.prepared, h, s.record) /\ d.prepared \in Sessions
      BY <1>0, <2>2 DEF Local, PreparedOK, PreparedAs, RowOK, Holds, Drives
    <3>3. LocalStep(h, s, u) /\ u.record = s.record
      BY <1>0, <2>2, <3>2, SignatureLocal
    <3> HIDE DEF u
    <3>4. facts \subseteq Facts /\ \A f \in facts : FactOK(f, h, u.record)
      BY <1>0, <2>1, <3>2, <3>3, FactsHold
    <3>5. LocalStep(h, u, Publish(u, facts))
      BY <3>3, <3>4, PublishLocal DEF LocalStep
    <3> QED
      BY <3>1, <3>3, <3>5, LocalStepTransitive
  <2>3. CASE d.prepared = None /\ Cardinality(TicketSet(d.book)) > TargetSize
    BY <1>2, <2>3, FailLocal DEF CreatorFacts, Reasons
  <2>4. CASE d.prepared = None /\ ~(Cardinality(TicketSet(d.book)) > TargetSize)
    <3> DEFINE facts == {OfferFact(d.offer, TicketSet(d.book)), TicketFact(d.ticket)}
    <3>1. CreatorFacts(h, s) = Publish(s, facts)
      BY <1>2, <2>4 DEF CreatorFacts
    <3>2. TicketSet(d.book) \in SUBSET Ticket
      BY <1>0 DEF TicketSet, Drives
    <3>3. facts \subseteq Facts /\ \A f \in facts : FactOK(f, h, s.record)
      BY <2>1, <3>2, FactsHold
    <3> QED
      BY <3>1, <3>3, PublishLocal
  <2> QED
    BY <2>2, <2>3, <2>4
<1> QED
  BY <1>1, <1>2

\* A drive that knows nothing yet.
LEMMA BlankDrive ==
  ASSUME NEW phase \in Phases
  PROVE  NoDrive(phase) \in Drives
<1>1. [p \in {} |-> 0] \in UNION {[D -> Nat] : D \in SUBSET Params}
  <2>1. [p \in {} |-> 0] \in [{} -> Nat] /\ {} \in SUBSET Params
    OBVIOUS
  <2> QED
    BY <2>1
<1> QED
  BY <1>1 DEF NoDrive, Drives, Reasons

\* It claims nothing, whatever the row says.
LEMMA EmptyDrive ==
  ASSUME NEW h \in Hosts, NEW phase \in Phases \ {"Driving"}, NEW row,
         phase = "Active" => row # None /\ row.status = "Committed"
  PROVE  /\ NoDrive(phase) \in Drives
         /\ TicketOK(h, NoDrive(phase)) /\ BookOK(h, NoDrive(phase))
         /\ PreparedOK(h, NoDrive(phase), row)
<1> DEFINE d == NoDrive(phase)
<1>1. /\ d.phase = phase /\ d.ticket = None /\ d.offer = None
      /\ d.book = [k \in Hosts |-> None] /\ d.prepared = None /\ d.sigs = {}
  BY DEF NoDrive
<1> HIDE DEF d
<1>2. TicketOK(h, d) /\ BookOK(h, d) /\ PreparedOK(h, d, row)
  BY <1>1, NegotiationAssumption DEF TicketOK, BookOK, PreparedOK
<1> QED
  BY <1>2, BlankDrive DEF d

\* create_creator_offer: the creator's ticket is for the offer and in the book.
LEMMA CreatorDriveOK ==
  ASSUME NEW h \in Creators, NEW o \in Offer, NEW row, starts \in [Hosts -> Nat]
  PROVE  LET d == CreatorDrive(h, o) IN
         /\ d \in Drives /\ d.phase = "Driving"
         /\ TicketOK(h, d) /\ BookOK(h, d) /\ PreparedOK(h, d, row)
<1> DEFINE t == [IssueTicket(h, o) EXCEPT !.era = o.era]
           n == NoDrive("Driving")
           d == CreatorDrive(h, o)
<1>1. h \in Hosts /\ o.era \in Nat /\ o.params \in Params
  BY NegotiationAssumption DEF Offer
<1>2. t \in Ticket /\ t.host = h /\ t.offer = o /\ t.rev = 0 /\ t.active
  <2>1. IssueTicket(h, o) \in Ticket
    BY <1>1 DEF IssueTicket, Ticket
  <2>2. t \in Ticket
    BY <1>1, <2>1 DEF Ticket
  <2>3. t.host = h /\ t.offer = o /\ t.rev = 0
    BY DEF IssueTicket
  <2>4. t.active
    BY DEF IssueTicket
  <2> QED
    BY <2>2, <2>3, <2>4
<1>3. t # None
  BY <1>2, NegotiationAssumption
<1> HIDE DEF t
<1>4. [p \in {o.params} |-> 0] \in UNION {[D -> Nat] : D \in SUBSET Params}
  <2>1. [p \in {o.params} |-> 0] \in [{o.params} -> Nat] /\ {o.params} \in SUBSET Params
    BY <1>1
  <2> QED
    BY <2>1
<1>5. [[k \in Hosts |-> None] EXCEPT ![h] = t] \in [Hosts -> Ticket \cup {None}]
  BY <1>2
<1>6. n \in Drives
  BY BlankDrive DEF Phases
<1>7. /\ d \in Drives /\ d.phase = "Driving" /\ d.ticket = t /\ d.offer = o
      /\ d.book = [[k \in Hosts |-> None] EXCEPT ![h] = t] /\ d.prepared = None /\ d.sigs = {}
  <2>1. d = [n EXCEPT !.offer = o, !.listed = {t}, !.ticket = t, !.book[h] = t,
                      !.tried = [p \in {o.params} |-> 0]]
    BY DEF CreatorDrive, t
  <2>2. /\ n.phase = "Driving" /\ n.book = [k \in Hosts |-> None]
        /\ n.prepared = None /\ n.sigs = {}
    BY DEF NoDrive
  <2> HIDE DEF n, d
  <2>3. d \in Drives
    BY <1>2, <1>4, <1>6, <2>1, <2>2 DEF Drives
  <2> QED
    BY <1>6, <2>1, <2>2, <2>3 DEF Drives
<1> HIDE DEF d
<1>8. TicketOK(h, d)
  BY <1>1, <1>2, <1>3, <1>7 DEF TicketOK
<1>9. BookOK(h, d)
  BY <1>1, <1>2, <1>7 DEF BookOK
<1>10. PreparedOK(h, d, row)
  BY <1>7 DEF PreparedOK
<1> QED
  BY <1>7, <1>8, <1>9, <1>10 DEF d

\* try_reoffer: a later offer on the old terms or on params some Host prefers.
LEMMA ReofferLocal ==
  ASSUME NEW h \in Creators, NEW s, Local(h, s), s.drive.phase = "Driving",
         s.drive.prepared = None, s.drive.offer.seq < MaxSeq,
         NEW heard \in SUBSET s.drive.counters, starts \in [Hosts -> Nat]
  PROVE  LocalStep(h, s, Reoffer(h, s, heard))
<1> DEFINE d == s.drive
           best == Candidate(d, heard)
           p == IF best = {} THEN d.offer.params ELSE CHOOSE q \in best : TRUE
           o == [d.offer EXCEPT !.seq = @ + 1, !.params = p]
           n == CreatorDrive(h, o)
           att == IF best = {} THEN d.attempts ELSE d.attempts + 1
           tri == IF best = {} THEN d.tried
                  ELSE [q \in DOMAIN d.tried \cup best |->
                          IF q \in best THEN Support(heard, q) ELSE d.tried[q]]
           e == [n EXCEPT !.counters = d.counters, !.attempts = att, !.tried = tri]
<1>1. s \in States /\ d \in Drives /\ d.offer \in Offer
  BY DEF Local, States, TicketOK
<1>2. heard \subseteq {k \in Hosts : Pref[k] # None}
  BY <1>1 DEF Drives
<1>3. best \subseteq Params
  BY <1>2, NegotiationAssumption DEF Candidate
<1>4. \A q : Support(heard, q) \in Nat
  <2> TAKE q
  <2>1. {k \in heard : Pref[k] = q} \subseteq Hosts
    BY <1>2
  <2>2. IsFiniteSet({k \in heard : Pref[k] = q})
    BY <2>1, FS_Subset, NegotiationAssumption
  <2> QED
    BY <2>2, FS_CardinalityType DEF Support
<1>5. p \in Params
  BY <1>1, <1>3 DEF Offer
<1> HIDE DEF p
<1>6. o \in Offer
  <2>1. d.offer.seq + 1 \in 0..MaxSeq
    BY <1>1, NegotiationAssumption DEF Offer
  <2> QED
    BY <1>1, <1>5, <2>1, NegotiationAssumption DEF Offer
<1> HIDE DEF o
<1>7. /\ n \in Drives /\ n.phase = "Driving"
      /\ TicketOK(h, n) /\ BookOK(h, n) /\ PreparedOK(h, n, s.record)
  BY <1>6, CreatorDriveOK
<1>8. att \in Nat
  BY <1>1 DEF Drives
<1>9. tri \in UNION {[D -> Nat] : D \in SUBSET Params}
  <2>1. PICK D \in SUBSET Params : d.tried \in [D -> Nat]
    BY <1>1 DEF Drives
  <2>2. CASE best = {}
    BY <2>1, <2>2
  <2>3. CASE best # {}
    <3>1. tri \in [D \cup best -> Nat]
      BY <1>4, <2>1, <2>3
    <3>2. D \cup best \in SUBSET Params
      BY <1>3
    <3> QED
      BY <3>1, <3>2
  <2> QED
    BY <2>2, <2>3
<1>10. Reoffer(h, s, heard) = [s EXCEPT !.drive = e]
  BY DEF Reoffer, o, p
<1> HIDE DEF n, att, tri
<1>11. /\ e \in Drives /\ e.phase = n.phase /\ e.ticket = n.ticket /\ e.offer = n.offer
       /\ e.book = n.book /\ e.prepared = n.prepared /\ e.sigs = n.sigs
  BY <1>1, <1>7, <1>8, <1>9, ZenonT(60) DEF Drives
<1> HIDE DEF e
<1>12. TicketOK(h, e) /\ BookOK(h, e) /\ PreparedOK(h, e, s.record)
  BY <1>7, <1>11 DEF TicketOK, BookOK, PreparedOK
<1> QED
  BY <1>10, <1>11, <1>12, DriveLocal

\* emit_periodic of a creator: renew or not, freeze, publish, aggregate.
LEMMA CreatorEmitLocal ==
  ASSUME NEW h \in Creators, NEW s, Local(h, s)
  PROVE  LocalStep(h, s, TryAggregate(h, CreatorFacts(h, TryFreeze(h, s))))
<1> DEFINE a == TryFreeze(h, s)
           b == CreatorFacts(h, a)
           c == TryAggregate(h, b)
<1>1. h \in Hosts
  BY NegotiationAssumption
<1>2. LocalStep(h, s, a)
  BY TryFreezeLocal
<1> HIDE DEF a
<1>3. LocalStep(h, a, b)
  BY <1>2, CreatorFactsLocal DEF LocalStep
<1> HIDE DEF b
<1>4. LocalStep(h, b, c)
  BY <1>1, <1>3, TryAggregateLocal DEF LocalStep
<1> HIDE DEF c
<1>5. LocalStep(h, s, c)
  BY <1>2, <1>3, <1>4, LocalStepTransitive
<1> QED
  BY <1>5 DEF a, b, c

\* apply_ticket keeps the book: one ticket a Host, Active ones for the offer.
LEMMA ApplyTicketBook ==
  ASSUME NEW h \in Hosts, NEW d \in Drives, TicketOK(h, d), BookOK(h, d), NEW row,
         PreparedOK(h, d, row), NEW t \in Ticket, t.host # h,
         h \in Creators => Issued(t)
  PROVE  LET e == [d EXCEPT !.book = ApplyTicket(@, t, d.offer)] IN
         e \in Drives /\ TicketOK(h, e) /\ BookOK(h, e) /\ PreparedOK(h, e, row)
<1> DEFINE b == ApplyTicket(d.book, t, d.offer)
           e == [d EXCEPT !.book = b]
<1>1. t.host \in Hosts /\ d.book \in [Hosts -> Ticket \cup {None}]
  BY DEF Ticket, Drives
<1>2. /\ b \in [Hosts -> Ticket \cup {None}] /\ b[h] = d.book[h]
      /\ \A k \in Hosts : b[k] = d.book[k] \/ (k = t.host /\ b[k] = t /\ Verifies(t, d.offer))
  BY <1>1 DEF ApplyTicket
<1> HIDE DEF b
<1>3. /\ e \in Drives /\ e.book = b /\ e.phase = d.phase /\ e.ticket = d.ticket
      /\ e.offer = d.offer /\ e.prepared = d.prepared /\ e.sigs = d.sigs
  BY <1>2 DEF Drives
<1> HIDE DEF e
<1>4. TicketOK(h, e)
  BY <1>2, <1>3 DEF TicketOK
<1>5. BookOK(h, e)
  BY <1>2, <1>3 DEF BookOK, Verifies, Issued
<1>6. PreparedOK(h, e, row)
  BY <1>3 DEF PreparedOK
<1> QED
  BY <1>3, <1>4, <1>5, <1>6 DEF e, b

\* on_ticket of a creator: apply, freeze, aggregate.
LEMMA CreatorOnTicketLocal ==
  ASSUME NEW h \in Creators, NEW s, Local(h, s), NEW t \in Ticket, t.host # h,
         Issued(t)
  PROVE  LocalStep(h, s, CreatorOnTicket(h, s, t))
<1> DEFINE e == [s.drive EXCEPT !.book = ApplyTicket(@, t, s.drive.offer)]
           u == [s EXCEPT !.drive = e]
           a == TryFreeze(h, u)
           b == TryAggregate(h, a)
<1>0. h \in Hosts /\ s \in States /\ s.drive \in Drives
  BY NegotiationAssumption DEF Local, States
<1>1. e \in Drives /\ TicketOK(h, e) /\ BookOK(h, e) /\ PreparedOK(h, e, s.record)
  BY <1>0, ApplyTicketBook DEF Local
<1>2. [s EXCEPT !.drive.book = ApplyTicket(@, t, s.drive.offer)] = u
  BY <1>0 DEF States, Drives
<1>3. CreatorOnTicket(h, s, t) = b
  BY <1>2 DEF CreatorOnTicket
<1> HIDE DEF e
<1>4. LocalStep(h, s, u)
  BY <1>1, DriveLocal
<1> HIDE DEF u
<1>5. LocalStep(h, u, a)
  BY <1>4, TryFreezeLocal DEF LocalStep
<1> HIDE DEF a
<1>6. LocalStep(h, a, b)
  BY <1>0, <1>5, TryAggregateLocal DEF LocalStep
<1> HIDE DEF b
<1> QED
  BY <1>3, <1>4, <1>5, <1>6, LocalStepTransitive

\* on_activation_signature counts a selected Host's signature of the frozen set.
LEMMA OnActivationSignatureLocal ==
  ASSUME NEW h \in Creators, NEW s, Local(h, s), NEW f, f.host \in Hosts,
         f.session \in Sessions, Holds(f.host, f.session, h, s.record)
  PROVE  LocalStep(h, s, OnActivationSignature(h, s, f))
<1> DEFINE u == [s EXCEPT !.drive.sigs = @ \cup {f.host}]
           b == TryAggregate(h, u)
<1>0. h \in Hosts
  BY NegotiationAssumption
<1>1. CASE ~(s.drive.prepared = f.session /\ f.host \in Members(f.session))
  BY <1>1, LocalStepReflexive DEF OnActivationSignature
<1>2. CASE s.drive.prepared = f.session /\ f.host \in Members(f.session)
  <2>1. OnActivationSignature(h, s, f) = b
    BY <1>2 DEF OnActivationSignature
  <2>2. s.drive.prepared # None
    BY <1>2, NegotiationAssumption
  <2>3. LocalStep(h, s, u)
    BY <1>0, <1>2, <2>2, SignatureLocal
  <2> HIDE DEF u
  <2>4. LocalStep(h, u, b)
    BY <1>0, <2>3, TryAggregateLocal DEF LocalStep
  <2> QED
    BY <2>1, <2>3, <2>4, LocalStepTransitive
<1> QED
  BY <1>1, <1>2

\* A counteroffer is remembered with the Host that has a preference.
LEMMA OnCounterofferLocal ==
  ASSUME NEW h \in Creators, NEW s, Local(h, s), NEW k \in Hosts, Pref[k] # None
  PROVE  LocalStep(h, s, [s EXCEPT !.drive.counters = @ \cup {k}])
<1> DEFINE e == [s.drive EXCEPT !.counters = @ \cup {k}]
<1>0. s \in States /\ s.drive \in Drives
  BY DEF Local, States
<1>1. [s EXCEPT !.drive.counters = @ \cup {k}] = [s EXCEPT !.drive = e]
  BY <1>0 DEF States, Drives
<1>2. /\ e \in Drives /\ e.book = s.drive.book /\ e.phase = s.drive.phase
      /\ e.ticket = s.drive.ticket /\ e.offer = s.drive.offer
      /\ e.prepared = s.drive.prepared /\ e.sigs = s.drive.sigs
  BY <1>0 DEF Drives
<1> HIDE DEF e
<1>3. TicketOK(h, e) /\ BookOK(h, e) /\ PreparedOK(h, e, s.record)
  BY <1>2 DEF Local, TicketOK, BookOK, PreparedOK
<1>4. LocalStep(h, s, [s EXCEPT !.drive = e])
  BY <1>2, <1>3, DriveLocal
<1> QED
  BY <1>1, <1>4

----------------------------------------------------------------------------
(* The joiner's calls *)

\* ensure_local_ticket: the ticket names the offer of the bound negotiation.
LEMMA EnsureLocalTicketLocal ==
  ASSUME NEW h \in Joiners, NEW s, Local(h, s), s.drive.phase = "Driving",
         starts \in [Hosts -> Nat]
  PROVE  LET u == EnsureLocalTicket(h, s) IN
         LocalStep(h, s, u) /\ u.drive.phase = "Driving"
<1> DEFINE d == s.drive
           t == IssueTicket(h, d.offer)
           c == d.book[d.offer.creator]
           e == [d EXCEPT !.ticket = t]
           u == [s EXCEPT !.drive = e]
<1>0. h \in Hosts /\ h \notin Creators /\ s \in States /\ d \in Drives /\ d.offer \in Offer
  BY DEF Local, States, TicketOK, Joiners
<1>1. CASE ~(d.ticket = None /\ AcceptsTerms(h, d.offer) /\ c # None /\ (c # None => c.active))
  BY <1>1, LocalStepReflexive DEF EnsureLocalTicket
<1>2. CASE d.ticket = None /\ AcceptsTerms(h, d.offer) /\ c # None /\ (c # None => c.active)
  <2>1. [s EXCEPT !.drive.ticket = t] = u
    BY <1>0 DEF States, Drives
  <2>2. EnsureLocalTicket(h, s) = Publish(u, {TicketFact(t)})
    BY <1>2, <2>1 DEF EnsureLocalTicket
  <2>3. t \in Ticket /\ t.host = h /\ t.offer = d.offer /\ t.rev = 0
    BY <1>0 DEF IssueTicket, Ticket
  <2>4. t.active
    BY DEF IssueTicket
  <2> HIDE DEF t
  <2>5. /\ e \in Drives /\ e.book = d.book /\ e.phase = d.phase
        /\ e.ticket = t /\ e.offer = d.offer
        /\ e.prepared = d.prepared /\ e.sigs = d.sigs
    BY <1>0, <2>3 DEF Drives
  <2> HIDE DEF e
  <2>6. TicketOK(h, e) /\ BookOK(h, e) /\ PreparedOK(h, e, s.record)
    BY <1>0, <2>3, <2>4, <2>5 DEF Local, TicketOK, BookOK, PreparedOK
  <2>7. LocalStep(h, s, u)
    BY <2>5, <2>6, DriveLocal
  <2>8. u.drive = e /\ u \in States
    BY <1>0, <2>5 DEF States
  <2> HIDE DEF u
  <2>9. request[h].bound = t.offer.creator
    BY <1>0, <2>3 DEF Local, TicketOK
  <2>10. TicketFact(t) \in Facts /\ FactOK(TicketFact(t), h, u.record)
    BY <2>3, <2>9, FactsHold DEF Issued
  <2>11. LocalStep(h, u, Publish(u, {TicketFact(t)}))
    BY <2>7, <2>10, PublishLocal DEF LocalStep
  <2>12. Publish(u, {TicketFact(t)}).drive = u.drive
    BY <2>8 DEF Publish, States
  <2> QED
    BY <2>2, <2>5, <2>7, <2>8, <2>11, <2>12, LocalStepTransitive
<1> QED
  BY <1>1, <1>2

\* try_fetch asks the creator for the tickets of a full offer.
LEMMA TryFetchLocal ==
  ASSUME NEW h \in Hosts, NEW s, Local(h, s), s.drive.phase = "Driving"
  PROVE  LocalStep(h, s, TryFetch(h, s))
<1> DEFINE d == s.drive
           x == Session(d.offer, d.listed)
           f == FetchFact(h, x)
<1>1. s \in States /\ d \in Drives /\ d.offer \in Offer
  BY DEF Local, States, TicketOK
<1>2. x \in Sessions
  BY <1>1 DEF Session, Sessions, Drives
<1> HIDE DEF x
<1>3. {f} \subseteq Facts /\ \A g \in {f} : FactOK(g, h, s.record)
  BY <1>2 DEF FetchFact, Facts, FactOK
<1> HIDE DEF f
<1>4. LocalStep(h, s, Publish(s, {f}))
  BY <1>3, PublishLocal
<1> QED
  BY <1>4, LocalStepReflexive DEF TryFetch, f, x

\* on_offer: a later offer waits, the current one may list other tickets.
LEMMA OnOfferLocal ==
  ASSUME NEW h \in Joiners, NEW s, Local(h, s), s.drive.phase = "Driving",
         NEW f \in OfferFacts
  PROVE  LocalStep(h, s, OnOffer(h, s, f))
<1> DEFINE d == s.drive
           e == [d EXCEPT !.pending = f]
           g == [d EXCEPT !.listed = f.tickets]
           u == [s EXCEPT !.drive = e]
           v == [s EXCEPT !.drive = g]
<1>0. h \in Hosts /\ h \notin Creators /\ s \in States /\ d \in Drives /\ f.tickets \in SUBSET Ticket
  BY DEF Local, States, Joiners, OfferFacts
<1>1. LocalStep(h, s, [s EXCEPT !.drive.pending = f])
  <2>1. [s EXCEPT !.drive.pending = f] = u
    BY <1>0 DEF States, Drives
  <2>2. /\ e \in Drives /\ e.book = d.book /\ e.phase = d.phase /\ e.ticket = d.ticket
        /\ e.offer = d.offer /\ e.prepared = d.prepared /\ e.sigs = d.sigs
    BY <1>0 DEF Drives
  <2> HIDE DEF e
  <2>3. TicketOK(h, e) /\ BookOK(h, e) /\ PreparedOK(h, e, s.record)
    BY <2>2 DEF Local, TicketOK, BookOK, PreparedOK
  <2>4. LocalStep(h, s, u)
    BY <2>2, <2>3, DriveLocal
  <2> QED
    BY <2>1, <2>4
<1>2. LocalStep(h, s, TryFetch(h, [s EXCEPT !.drive.listed = f.tickets]))
  <2>1. [s EXCEPT !.drive.listed = f.tickets] = v
    BY <1>0 DEF States, Drives
  <2>2. /\ g \in Drives /\ g.book = d.book /\ g.phase = d.phase /\ g.ticket = d.ticket
        /\ g.offer = d.offer /\ g.prepared = d.prepared /\ g.sigs = d.sigs
    BY <1>0 DEF Drives
  <2> HIDE DEF g
  <2>3. TicketOK(h, g) /\ BookOK(h, g) /\ PreparedOK(h, g, s.record)
    BY <2>2 DEF Local, TicketOK, BookOK, PreparedOK
  <2>4. LocalStep(h, s, v) /\ v.drive.phase = "Driving"
    <3>1. LocalStep(h, s, v)
      BY <2>2, <2>3, DriveLocal
    <3>2. v.drive = g
      BY <1>0 DEF States
    <3> QED
      BY <2>2, <3>1, <3>2
  <2> HIDE DEF v
  <2>5. LocalStep(h, v, TryFetch(h, v))
    BY <1>0, <2>4, TryFetchLocal DEF LocalStep
  <2> QED
    BY <2>1, <2>4, <2>5, LocalStepTransitive
<1> QED
  BY <1>1, <1>2, LocalStepReflexive DEF OnOffer

\* A joiner's new ticket is for the offer it switches to.
LEMMA SwitchOfferLocal ==
  ASSUME NEW h \in Joiners, NEW s, Local(h, s), starts \in [Hosts -> Nat],
         NEW f \in OfferFacts, request[h].bound = f.offer.creator,
         NEW t \in Ticket
  PROVE  LET u == SwitchOffer(h, s, f, t) IN
         LocalStep(h, s, u) /\ u.drive.phase = "Driving"
<1> DEFINE n == NoDrive("Driving")
           i == IssueTicket(h, f.offer)
           e == [n EXCEPT !.offer = f.offer, !.listed = f.tickets,
                          !.book[t.host] = t, !.ticket = i]
           u == [s EXCEPT !.drive = e]
<1>0. /\ h \in Hosts /\ h \notin Creators /\ s \in States
      /\ f.offer \in Offer /\ f.tickets \in SUBSET Ticket /\ t.host \in Hosts
  BY DEF Local, Joiners, OfferFacts, Ticket
<1>1. SwitchOffer(h, s, f, t) = u
  BY DEF SwitchOffer
<1>2. i \in Ticket /\ i.host = h /\ i.offer = f.offer /\ i.rev = 0
  BY <1>0 DEF IssueTicket, Ticket
<1>3. i.active
  BY DEF IssueTicket
<1>4. n \in Drives
  BY BlankDrive DEF Phases
<1>5. n.phase = "Driving" /\ n.prepared = None /\ n.sigs = {}
  BY DEF NoDrive
<1> HIDE DEF n, i
<1>6. /\ e \in Drives /\ e.phase = "Driving" /\ e.ticket = i
      /\ e.offer = f.offer /\ e.prepared = None /\ e.sigs = {}
  BY <1>0, <1>2, <1>4, <1>5 DEF Drives
<1> HIDE DEF e
<1>7. TicketOK(h, e) /\ BookOK(h, e) /\ PreparedOK(h, e, s.record)
  BY <1>0, <1>2, <1>3, <1>6 DEF TicketOK, BookOK, PreparedOK
<1>8. LocalStep(h, s, u)
  BY <1>6, <1>7, DriveLocal
<1>9. u.drive = e
  BY <1>0 DEF States
<1> QED
  BY <1>1, <1>6, <1>8, <1>9

\* on_ticket of a joiner: only the creator's ticket matters to it.
LEMMA JoinerOnTicketLocal ==
  ASSUME NEW h \in Joiners, NEW s, Local(h, s), s.drive.phase = "Driving",
         starts \in [Hosts -> Nat],
         NEW t \in Ticket, t.host # h, t.offer.creator = s.drive.offer.creator
  PROVE  LocalStep(h, s, JoinerOnTicket(h, s, t))
<1> DEFINE d == s.drive
           book == ApplyTicket(d.book, t, d.offer)
           sw == SwitchOffer(h, s, d.pending, t)
           e == [d EXCEPT !.book = ApplyTicket(@, t, d.offer)]
           v == [s EXCEPT !.drive = e]
           w == EnsureLocalTicket(h, v)
<1>0. h \in Hosts /\ h \notin Creators /\ s \in States /\ d \in Drives /\ d.offer \in Offer
  BY DEF Local, States, Joiners, TicketOK
<1>1. LocalStep(h, s, TryFetch(h, s))
  BY <1>0, TryFetchLocal
<1>2. ASSUME d.pending # None, d.pending.offer = t.offer
      PROVE  LocalStep(h, s, TryFetch(h, sw))
  <2>1. d.pending \in OfferFacts
    BY <1>0, <1>2 DEF Drives
  <2>2. request[h].bound = d.pending.offer.creator
    BY <1>0, <1>2 DEF Local, TicketOK
  <2>3. LocalStep(h, s, sw) /\ sw.drive.phase = "Driving"
    BY <2>1, <2>2, SwitchOfferLocal
  <2> HIDE DEF sw
  <2>4. LocalStep(h, sw, TryFetch(h, sw))
    BY <1>0, <2>3, TryFetchLocal DEF LocalStep
  <2> QED
    BY <2>3, <2>4, LocalStepTransitive
<1>3. LocalStep(h, s, TryFetch(h, EnsureLocalTicket(h, [s EXCEPT !.drive.book = book])))
  <2>1. [s EXCEPT !.drive.book = book] = v
    BY <1>0 DEF States, Drives
  <2>2. e \in Drives /\ TicketOK(h, e) /\ BookOK(h, e) /\ PreparedOK(h, e, s.record)
    BY <1>0, ApplyTicketBook DEF Local
  <2>3. e.phase = "Driving"
    BY <1>0 DEF Drives
  <2> HIDE DEF e, book
  <2>4. LocalStep(h, s, v)
    BY <2>2, DriveLocal
  <2>5. v.drive.phase = "Driving"
    BY <1>0, <2>3 DEF States
  <2> HIDE DEF v
  <2>6. LocalStep(h, v, w) /\ w.drive.phase = "Driving"
    BY <2>4, <2>5, EnsureLocalTicketLocal DEF LocalStep
  <2> HIDE DEF w
  <2>7. LocalStep(h, w, TryFetch(h, w))
    BY <1>0, <2>6, TryFetchLocal DEF LocalStep
  <2>8. LocalStep(h, s, TryFetch(h, w))
    BY <2>4, <2>6, <2>7, LocalStepTransitive
  <2> QED
    BY <2>1, <2>8 DEF w
<1> QED
  BY <1>1, <1>2, <1>3 DEF JoinerOnTicket

\* consume_fetch prepares the fetched session durably and only then signs it.
LEMMA ConsumeFetchLocal ==
  ASSUME NEW h \in Joiners, NEW s, Local(h, s), s.drive.phase = "Driving",
         NEW f, Frozen(f.session)
  PROVE  LocalStep(h, s, ConsumeFetch(h, s, f))
<1> DEFINE d == s.drive
           x == f.session
           row == PrepareActivation(h, s.record, x)
           e == [d EXCEPT !.prepared = x]
           u == [s EXCEPT !.record = row, !.drive = e]
<1>0. h \in Hosts /\ s \in States /\ d \in Drives /\ x \in Sessions
  BY DEF Local, States, Joiners, Frozen
<1>1. CASE \/ d.prepared # None \/ x # Session(d.offer, d.listed)
           \/ d.ticket = None \/ d.offer \in lapsed
           \/ \E t \in d.listed : ~InWindow(h, t)
  BY <1>1, LocalStepReflexive DEF ConsumeFetch
<1>2. CASE /\ d.prepared = None /\ x = Session(d.offer, d.listed)
           /\ d.ticket # None /\ d.offer \notin lapsed
           /\ ~(\E t \in d.listed : ~InWindow(h, t))
  <2>1. CASE d.ticket \notin d.listed
    BY <1>2, <2>1, FailLocal DEF ConsumeFetch, Reasons
  <2>2. CASE d.ticket \in d.listed /\ ~PreparedAs(row, x)
    BY <1>2, <2>2, FailLocal DEF ConsumeFetch, Reasons
  <2>3. CASE d.ticket \in d.listed /\ PreparedAs(row, x)
    <3>1. ConsumeFetch(h, s, f) = Publish(u, {SignatureFact(h, x)})
      <4>1. [s EXCEPT !.record = row, !.drive.prepared = x] = u
        BY <1>0 DEF States, Drives
      <4> QED
        BY <1>2, <2>3, <4>1 DEF ConsumeFetch
    <3>2. h \in Members(x)
      <4>1. x.tickets = d.listed /\ d.ticket.host = h
        BY <1>2 DEF Session, Local, TicketOK
      <4> QED
        BY <2>3, <4>1 DEF Members
    <3>3. row \in Rows \cup {None}
      BY <1>0, <3>2, PreparedRow DEF Local, States
    <3> HIDE DEF row
    <3>4. /\ e \in Drives /\ e.book = d.book /\ e.phase = "Driving" /\ e.ticket = d.ticket
          /\ e.offer = d.offer /\ e.prepared = x /\ e.sigs = {}
      BY <1>0, <1>2 DEF Drives, Local, PreparedOK
    <3> HIDE DEF e
    <3>5. TicketOK(h, e) /\ BookOK(h, e)
      BY <1>2, <3>4 DEF Local, TicketOK, BookOK
    <3>6. u \in States /\ u.record = row /\ u.drive = e /\ u.out = s.out
      BY <1>0, <3>3, <3>4 DEF States
    <3>7. /\ u.record = PrepareActivation(h, s.record, x)
          /\ PreparedAs(PrepareActivation(h, s.record, x), x)
      BY <2>3, <3>6 DEF row
    <3> HIDE DEF u
    <3>8. LocalStep(h, s, u) /\ u.record # None /\ u.record.session = x
      <4>1. e \in Drives /\ e.sigs \subseteq {h} /\ e.phase = "Driving" /\ e.prepared = x
        BY <3>4
      <4> QED
        BY <1>0, <3>2, <3>5, <3>6, <3>7, <4>1, PrepareLocal
    <3>9. Holds(h, x, h, u.record)
      BY <3>8 DEF Holds, PreparedAs
    <3>10. SignatureFact(h, x) \in Facts /\ FactOK(SignatureFact(h, x), h, u.record)
      BY <1>0, <3>9, FactsHold
    <3>11. LocalStep(h, u, Publish(u, {SignatureFact(h, x)}))
      BY <3>8, <3>10, PublishLocal DEF LocalStep
    <3> QED
      BY <3>1, <3>8, <3>11, LocalStepTransitive
  <2> QED
    BY <2>1, <2>2, <2>3
<1> QED
  BY <1>1, <1>2

\* An announced session is one that everybody it names holds.
LEMMA OnAnnouncementLocal ==
  ASSUME NEW h \in Hosts, NEW s, Local(h, s), NEW f, f.session \in Sessions,
         \A m \in Members(f.session) : Holds(m, f.session, h, s.record)
  PROVE  LocalStep(h, s, OnAnnouncement(h, s, f))
<1>1. CASE s.drive.prepared = f.session
  <2>1. s.drive.prepared # None
    BY <1>1, NegotiationAssumption
  <2>2. LocalStep(h, s, [s EXCEPT !.record = CommitActivation(@), !.drive.phase = "Active"])
    BY <1>1, <2>1, CommitLocal
  <2> QED
    BY <1>1, <2>2 DEF OnAnnouncement
<1>2. CASE s.drive.prepared # f.session
  BY <1>2, LocalStepReflexive DEF OnAnnouncement
<1> QED
  BY <1>1, <1>2

\* emit_periodic of a joiner: its ticket, its preference and its signature.
LEMMA JoinerFactsLocal ==
  ASSUME NEW h \in Joiners, NEW s, Local(h, s), s.drive.phase = "Driving"
  PROVE  LET u == JoinerFacts(h, s) IN LocalStep(h, s, u) /\ u.drive.phase = "Driving"
<1> DEFINE d == s.drive
           A == IF d.ticket = None THEN {} ELSE {TicketFact(d.ticket)}
           B == IF Pref[h] = None THEN {} ELSE {CounterofferFact(h, d.offer.creator)}
           C == IF d.prepared = None THEN {} ELSE {SignatureFact(h, d.prepared)}
           facts == A \cup B \cup C
<1>0. h \in Hosts /\ h \notin Creators /\ s \in States /\ d \in Drives /\ d.offer \in Offer
  BY DEF Local, States, Joiners, TicketOK
<1>1. \A f \in A : f \in Facts /\ FactOK(f, h, s.record)
  <2>1. d.ticket # None => /\ d.ticket \in Ticket /\ d.ticket.host = h
                           /\ Issued(d.ticket)
                           /\ request[h].bound = d.ticket.offer.creator
    BY <1>0 DEF Local, TicketOK, Drives, Issued
  <2> QED
    BY <2>1, FactsHold
<1>2. \A f \in B : f \in Facts /\ FactOK(f, h, s.record)
  BY <1>0 DEF CounterofferFact, Facts, FactOK, Offer
<1>3. \A f \in C : f \in Facts /\ FactOK(f, h, s.record)
  <2>1. d.prepared # None => d.prepared \in Sessions /\ Holds(h, d.prepared, h, s.record)
    BY <1>0 DEF Local, PreparedOK, Holds, Drives
  <2> QED
    BY <1>0, <2>1, FactsHold
<1> HIDE DEF A, B, C
<1>4. LocalStep(h, s, Publish(s, facts))
  BY <1>1, <1>2, <1>3, PublishLocal
<1>5. Publish(s, facts).drive = d
  BY <1>0 DEF Publish, States
<1>6. JoinerFacts(h, s) = Publish(s, facts)
  BY DEF JoinerFacts, A, B, C
<1> QED
  BY <1>4, <1>5, <1>6

\* emit_periodic of a joiner, its ticket and its fetch included.
LEMMA ParticipantEmitLocal ==
  ASSUME NEW h \in Joiners, NEW s, Local(h, s), s.drive.phase = "Driving",
         starts \in [Hosts -> Nat]
  PROVE  LocalStep(h, s, TryFetch(h, JoinerFacts(h, EnsureLocalTicket(h, s))))
<1> DEFINE a == EnsureLocalTicket(h, s)
           b == JoinerFacts(h, a)
           c == TryFetch(h, b)
<1>1. h \in Hosts
  BY DEF Joiners
<1>2. LocalStep(h, s, a) /\ a.drive.phase = "Driving"
  BY EnsureLocalTicketLocal
<1> HIDE DEF a
<1>3. LocalStep(h, a, b) /\ b.drive.phase = "Driving"
  BY <1>2, JoinerFactsLocal DEF LocalStep
<1> HIDE DEF b
<1>4. LocalStep(h, b, c)
  BY <1>1, <1>3, TryFetchLocal DEF LocalStep
<1> HIDE DEF c
<1>5. LocalStep(h, s, c)
  BY <1>2, <1>3, <1>4, LocalStepTransitive
<1> QED
  BY <1>5 DEF a, b, c

----------------------------------------------------------------------------
(* From one Host's step to the whole system *)

Requests == [failure : {None, "Withdrawn", "Failed"}, bound : Creators \cup {None}]

Types ==
  /\ request \in [Hosts -> Requests]
  /\ record \in [Hosts -> Rows \cup {None}]
  /\ drive \in [Hosts -> Drives]
  /\ starts \in [Hosts -> Nat]
  /\ wire \subseteq Facts /\ lapsed \subseteq Offer /\ acked \subseteq Hosts

\* A durable binding is never changed.
BoundKept(h) == request[h].bound # None => request'[h].bound = request[h].bound

\* A step of h: the rest of the system sees only h's row and its facts.
StepOf(h) ==
  /\ \A k \in Hosts \ {h} :
       drive'[k] = drive[k] /\ record'[k] = record[k] /\ request'[k] = request[k]
  /\ RowKept(record[h], record'[h]) /\ BoundKept(h)

RowsKept == \A h \in Hosts : RowKept(record[h], record'[h])

\* The types are the first part of the invariant.
LEMMA InvTypes == ASSUME Inv PROVE Types
  BY DEF Inv, Types, Requests

\* A session of the wire or of a row names Hosts.
LEMMA MembersAreHosts == ASSUME NEW x \in Sessions PROVE Members(x) \subseteq Hosts
  BY DEF Members, Sessions, Ticket

\* Facts stay true whoever moves: sessions stay in rows, bindings in requests.
LEMMA FactNext ==
  ASSUME Types, NEW h \in Hosts, StepOf(h), NEW f \in Facts,
         \A k \in Hosts : FactOK(f, k, record[k]), NEW k \in Hosts
  PROVE  FactOK(f, k, record[k])'
<1>0. None \notin Creators
  BY NegotiationAssumption
<1>1. \A m \in Hosts : RowKept(record[m], record'[m]) /\ BoundKept(m)
  BY RowKeptReflexive DEF StepOf, Types, BoundKept
<1>2. \A m \in Hosts, x \in Sessions : Holds(m, x, k, record[k]) => Holds(m, x, k, record[k])'
  BY <1>1 DEF Holds, RowKept, PreparedAs
<1>3. FactOK(f, k, record[k])
  OBVIOUS
<1>4. f.kind = "Ticket" /\ f.ticket.host \notin Creators =>
        (request[f.ticket.host].bound = f.ticket.offer.creator)'
  <2> HAVE f.kind = "Ticket" /\ f.ticket.host \notin Creators
  <2>1. f.ticket \in Ticket
    BY DEF Facts, OfferFacts
  <2>2. f.ticket.host \in Hosts /\ f.ticket.offer.creator \in Creators
    BY <2>1 DEF Ticket, Offer
  <2>3. request[f.ticket.host].bound = f.ticket.offer.creator
    BY <1>3 DEF FactOK
  <2> QED
    BY <1>0, <1>1, <2>2, <2>3 DEF BoundKept
<1>5. f.kind = "ActivationSignature" => Holds(f.host, f.session, k, record[k])'
  <2> HAVE f.kind = "ActivationSignature"
  <2>1. f.host \in Hosts /\ f.session \in Sessions
    BY DEF Facts, OfferFacts
  <2> QED
    BY <1>2, <1>3, <2>1 DEF FactOK
<1>6. f.kind = "ActivationAnnouncement" =>
        \A m \in Members(f.session) : Holds(m, f.session, k, record[k])'
  <2> HAVE f.kind = "ActivationAnnouncement"
  <2>1. f.session \in Sessions
    BY DEF Facts, OfferFacts
  <2> QED
    BY <1>2, <1>3, <2>1, MembersAreHosts DEF FactOK
<1> QED
  BY <1>3, <1>4, <1>5, <1>6 DEF FactOK

\* A ticket stays for the bound negotiation.
LEMMA TicketNext ==
  ASSUME NEW h, NEW d, TicketOK(h, d), BoundKept(h)
  PROVE  TicketOK(h, d)'
<1>1. d.offer \in Offer => d.offer.creator # None
  BY NegotiationAssumption DEF Offer
<1> QED
  BY <1>1 DEF TicketOK, BoundKept

\* What holds of a Host's drive and row stays true while others move.
LEMMA HostNext ==
  ASSUME NEW h \in Hosts, NEW s \in States, BoundKept(h),
         RowOK(h, s.record), TicketOK(h, s.drive)', BookOK(h, s.drive),
         PreparedOK(h, s.drive, s.record),
         s.record # None => request'[h].failure = request[h].failure,
         \A k \in Hosts \ {h} : RowKept(record[k], record'[k]),
         drive'[h] = s.drive, record'[h] = s.record
  PROVE  Local(h, State(h))'
<1>1. State(h)' = [drive |-> s.drive, record |-> s.record, out |-> {}]
  BY DEF State
<1>2. [drive |-> s.drive, record |-> s.record, out |-> {}] \in States
  BY DEF States
<1>3. \A m \in Hosts : \A x : Holds(m, x, h, s.record) => Holds(m, x, h, s.record)'
  BY DEF Holds, RowKept, PreparedAs
<1>4. RowOK(h, s.record)'
  <2>1. s.record # None => s.record.session \in Sessions /\ s.record.session.offer.creator # None
    BY NegotiationAssumption DEF States, Rows, Sessions, Offer
  <2>2. s.record # None => \A m \in Members(s.record.session) :
          Holds(m, s.record.session, h, s.record) => Holds(m, s.record.session, h, s.record)'
    BY <1>3, <2>1, MembersAreHosts
  <2> QED
    BY <2>1, <2>2 DEF RowOK, BoundKept
<1>5. BookOK(h, s.drive)'
  BY DEF BookOK
<1>6. PreparedOK(h, s.drive, s.record)'
  <2>1. \A m \in s.drive.sigs : m \in Hosts
    BY DEF States, Drives
  <2> QED
    BY <1>3, <2>1 DEF PreparedOK
<1> QED
  BY <1>1, <1>2, <1>4, <1>5, <1>6 DEF Local

\* A step of another Host.
LEMMA LocalElsewhere ==
  ASSUME Types, NEW k \in Hosts, Local(k, State(k)),
         drive'[k] = drive[k], record'[k] = record[k], request'[k] = request[k],
         \A m \in Hosts : RowKept(record[m], record'[m])
  PROVE  Local(k, State(k))'
<1>1. PICK s : s = State(k)
  OBVIOUS
<1>2. s \in States /\ drive'[k] = s.drive /\ record'[k] = s.record
  BY <1>1 DEF State, Local
<1>3. RowOK(k, s.record) /\ TicketOK(k, s.drive) /\ BookOK(k, s.drive)
      /\ PreparedOK(k, s.drive, s.record)
  BY <1>1 DEF Local
<1>4. BoundKept(k) /\ TicketOK(k, s.drive)'
  BY <1>3, TicketNext DEF BoundKept
<1> QED
  BY <1>2, <1>3, <1>4, HostNext

\* The invariant after a step of h, from what h knows and publishes.
LEMMA StepKeepsInv ==
  ASSUME Inv, NEW h \in Hosts, Types', StepOf(h), Local(h, State(h))',
         \A f \in wire' : f \in wire \/ FactOK(f, h, record[h])'
  PROVE  Inv' /\ RowsKept
<1>1. Types
  BY InvTypes
<1>2. ASSUME NEW k \in Hosts \ {h}
      PROVE  Local(k, State(k))'
  <2>1. \A m \in Hosts : RowKept(record[m], record'[m])
    BY <1>1, RowKeptReflexive DEF StepOf, Types
  <2> QED
    BY <1>1, <2>1, LocalElsewhere DEF Inv, StepOf
<1>3. ASSUME NEW f \in wire', NEW k \in Hosts
      PROVE  FactOK(f, k, record[k])'
  <2>1. CASE f \in wire
    BY <1>1, <2>1, FactNext DEF Inv, Types
  <2>2. CASE FactOK(f, h, record[h])'
    BY <2>2 DEF FactOK, Holds
  <2> QED
    BY <2>1, <2>2
<1>4. RowsKept
  BY <1>1, RowKeptReflexive DEF RowsKept, StepOf, Types
<1> QED
  BY <1>2, <1>3, <1>4 DEF Inv, Types, Requests

\* A step of h that leaves its request alone: what held of s holds of h.
LEMMA OwnStep ==
  ASSUME Types, NEW h \in Hosts, NEW s, Local(h, s), request' = request,
         \A k \in Hosts \ {h} : record'[k] = record[k],
         drive'[h] = s.drive, record'[h] = s.record
  PROVE  Local(h, State(h))' /\ \A f \in s.out : FactOK(f, h, record[h])'
<1>1. \A k \in Hosts \ {h} : RowKept(record[k], record'[k])
  BY RowKeptReflexive DEF Types
<1>2. Local(h, State(h))'
  <2>1. BoundKept(h) /\ TicketOK(h, s.drive)'
    BY TicketNext DEF BoundKept, Local
  <2> QED
    BY <1>1, <2>1, HostNext DEF Local
<1>3. \A m \in Hosts : \A x : Holds(m, x, h, s.record) => Holds(m, x, h, s.record)'
  BY DEF Holds
<1>4. ASSUME NEW f \in s.out
      PROVE  FactOK(f, h, s.record)'
  <2>1. f \in Facts /\ FactOK(f, h, s.record)
    BY DEF Local, States
  <2>2. f.kind = "ActivationSignature" => f.host \in Hosts
    BY <2>1 DEF Facts, OfferFacts
  <2>3. f.kind = "ActivationAnnouncement" => Members(f.session) \subseteq Hosts
    BY <2>1, MembersAreHosts DEF Facts, OfferFacts
  <2> QED
    BY <1>3, <2>1, <2>2, <2>3 DEF FactOK
<1> QED
  BY <1>2, <1>4

\* What a handler leaves behind keeps the invariant.
LEMMA SettleKeepsInv ==
  ASSUME Inv, NEW h \in Hosts, NEW s, LocalStep(h, State(h), s), Settle(h, s)
  PROVE  Inv' /\ RowsKept
<1>1. Types
  BY InvTypes
<1>2. s \in States /\ Local(h, s) /\ RowKept(record[h], s.record)
  BY DEF LocalStep, Local, State
<1>3. Types'
  BY <1>1, <1>2 DEF Types, Settle, States
<1>4. drive'[h] = s.drive /\ record'[h] = s.record /\ StepOf(h)
  BY <1>1, <1>2 DEF Settle, Types, StepOf, BoundKept
<1>5. Local(h, State(h))' /\ \A f \in s.out : FactOK(f, h, record[h])'
  BY <1>1, <1>2, <1>4, OwnStep DEF Settle, StepOf
<1> QED
  BY <1>3, <1>4, <1>5, StepKeepsInv DEF Settle

\* A step that only replaces h's drive.
LEMMA DriveKeepsInv ==
  ASSUME Inv, NEW h \in Hosts, NEW d \in Drives,
         TicketOK(h, d), BookOK(h, d), PreparedOK(h, d, record[h]),
         drive' = [drive EXCEPT ![h] = d], UNCHANGED <<request, record>>,
         starts' \in [Hosts -> Nat], acked' \subseteq Hosts, lapsed' \subseteq Offer,
         wire' \subseteq Facts, \A f \in wire' : f \in wire \/ FactOK(f, h, record[h])
  PROVE  Inv' /\ RowsKept
<1> DEFINE s == [drive |-> d, record |-> record[h], out |-> wire' \ wire]
<1>1. Types
  BY InvTypes
<1>2. s \in States /\ s.drive = d /\ s.record = record[h] /\ s.out = wire' \ wire
  BY <1>1 DEF Types, States
<1> HIDE DEF s
<1>3. RowOK(h, record[h])
  BY DEF Inv, Local, State
<1>4. Local(h, s)
  BY <1>2, <1>3 DEF Local
<1>5. Types' /\ StepOf(h) /\ drive'[h] = d
  BY <1>1, RowKeptReflexive DEF Types, StepOf, BoundKept
<1>6. Local(h, State(h))' /\ \A f \in s.out : FactOK(f, h, record[h])'
  BY <1>1, <1>2, <1>4, <1>5, OwnStep DEF StepOf
<1> QED
  BY <1>2, <1>5, <1>6, StepKeepsInv

\* A step that changes no Host, as when a fact is lost.
LEMMA QuietKeepsInv ==
  ASSUME Inv, UNCHANGED <<request, record, drive, starts, lapsed, acked>>, wire' \subseteq wire
  PROVE  Inv' /\ RowsKept
<1>1. Types /\ Types'
  BY InvTypes DEF Types
<1>2. \A m \in Hosts : RowKept(record[m], record'[m])
  BY <1>1, RowKeptReflexive DEF Types
<1>3. \A k \in Hosts : Local(k, State(k))'
  BY <1>1, <1>2, LocalElsewhere DEF Inv
<1>4. ASSUME NEW f \in wire', NEW k \in Hosts
      PROVE  FactOK(f, k, record[k])'
  <2>1. StepOf(k)
    BY <1>2 DEF StepOf, BoundKept
  <2> QED
    BY <1>1, <2>1, FactNext DEF Inv, Types
<1> QED
  BY <1>1, <1>2, <1>3, <1>4 DEF Inv, Types, Requests, RowsKept

----------------------------------------------------------------------------
(* The actions *)

\* What the invariant says of one Host.
LEMMA HostFacts ==
  ASSUME Inv, NEW h \in Hosts
  PROVE  /\ Local(h, State(h)) /\ starts \in [Hosts -> Nat]
         /\ State(h).drive = drive[h] /\ State(h).record = record[h]
         /\ drive[h] \in Drives /\ record[h] \in Rows \cup {None}
         /\ RowOK(h, record[h]) /\ TicketOK(h, drive[h]) /\ BookOK(h, drive[h])
         /\ PreparedOK(h, drive[h], record[h])
         /\ \A f \in wire : f \in Facts /\ FactOK(f, h, record[h])
<1>1. State(h).drive = drive[h] /\ State(h).record = record[h]
  BY DEF State
<1>2. Local(h, State(h))
  BY DEF Inv
<1> QED
  BY <1>1, <1>2 DEF Inv, Local

\* emit_periodic of a creator, with or without a renewal.
LEMMA CreatorEmitKeepsInv ==
  ASSUME Inv, NEW c \in Creators, CreatorEmit(c)
  PROVE  Inv' /\ RowsKept
<1>0. c \in Hosts
  BY NegotiationAssumption
<1>1. /\ Local(c, State(c)) /\ starts \in [Hosts -> Nat]
      /\ State(c).drive = drive[c] /\ drive[c].phase = "Driving"
  BY <1>0, HostFacts DEF CreatorEmit, Driving
<1>2. PICK s : /\ \/ s = State(c)
                  \/ \E heard \in SUBSET drive[c].counters :
                       /\ drive[c].prepared = None /\ drive[c].offer.seq < MaxSeq
                       /\ s = Reoffer(c, State(c), heard)
               /\ Settle(c, TryAggregate(c, CreatorFacts(c, TryFreeze(c, s))))
  BY DEF CreatorEmit
<1>3. LocalStep(c, State(c), s)
  BY <1>1, <1>2, LocalStepReflexive, ReofferLocal
<1>4. LocalStep(c, s, TryAggregate(c, CreatorFacts(c, TryFreeze(c, s))))
  BY <1>3, CreatorEmitLocal DEF LocalStep
<1>5. LocalStep(c, State(c), TryAggregate(c, CreatorFacts(c, TryFreeze(c, s))))
  BY <1>3, <1>4, LocalStepTransitive
<1> QED
  BY <1>0, <1>2, <1>5, SettleKeepsInv

\* emit_periodic of a joiner.
LEMMA ParticipantEmitKeepsInv ==
  ASSUME Inv, NEW h \in Joiners, ParticipantEmit(h)
  PROVE  Inv' /\ RowsKept
<1>0. h \in Hosts
  BY DEF Joiners
<1>1. /\ Local(h, State(h)) /\ starts \in [Hosts -> Nat]
      /\ State(h).drive.phase = "Driving"
  BY <1>0, HostFacts DEF ParticipantEmit, Driving
<1>2. LocalStep(h, State(h), TryFetch(h, JoinerFacts(h, EnsureLocalTicket(h, State(h)))))
  BY <1>1, ParticipantEmitLocal
<1> QED
  BY <1>0, <1>2, SettleKeepsInv DEF ParticipantEmit

\* on_fact of a creator.
LEMMA CreatorHearsKeepsInv ==
  ASSUME Inv, NEW c \in Creators, NEW f \in wire, CreatorHears(c, f)
  PROVE  Inv' /\ RowsKept
<1>0. c \in Hosts
  BY NegotiationAssumption
<1>1. /\ Local(c, State(c)) /\ State(c).record = record[c]
      /\ f \in Facts /\ FactOK(f, c, record[c])
  BY <1>0, HostFacts
<1>2. CASE f.kind = "Ticket" /\ f.ticket.host # c /\ Settle(c, CreatorOnTicket(c, State(c), f.ticket))
  <2>1. f.ticket \in Ticket /\ Issued(f.ticket)
    BY <1>1, <1>2 DEF Facts, OfferFacts, FactOK
  <2>2. LocalStep(c, State(c), CreatorOnTicket(c, State(c), f.ticket))
    BY <1>1, <1>2, <2>1, CreatorOnTicketLocal
  <2> QED
    BY <1>0, <1>2, <2>2, SettleKeepsInv
<1>3. CASE f.kind = "ActivationSignature" /\ Settle(c, OnActivationSignature(c, State(c), f))
  <2>1. f.host \in Hosts /\ f.session \in Sessions /\ Holds(f.host, f.session, c, State(c).record)
    BY <1>1, <1>3 DEF Facts, OfferFacts, FactOK
  <2>2. LocalStep(c, State(c), OnActivationSignature(c, State(c), f))
    BY <1>1, <2>1, OnActivationSignatureLocal
  <2> QED
    BY <1>0, <1>3, <2>2, SettleKeepsInv
<1>4. CASE /\ f.kind = "Counteroffer"
           /\ Settle(c, [State(c) EXCEPT !.drive.counters = @ \cup {f.host}])
  <2>1. f.host \in Hosts /\ Pref[f.host] # None
    BY <1>1, <1>4 DEF Facts, OfferFacts, FactOK
  <2>2. LocalStep(c, State(c), [State(c) EXCEPT !.drive.counters = @ \cup {f.host}])
    BY <1>1, <2>1, OnCounterofferLocal
  <2> QED
    BY <1>0, <1>4, <2>2, SettleKeepsInv
<1> QED
  BY <1>2, <1>3, <1>4 DEF CreatorHears

\* on_fact of a joiner.
LEMMA JoinerHearsKeepsInv ==
  ASSUME Inv, NEW h \in Joiners, NEW f \in wire, JoinerHears(h, f)
  PROVE  Inv' /\ RowsKept
<1>0. h \in Hosts
  BY DEF Joiners
<1>1. /\ Local(h, State(h)) /\ starts \in [Hosts -> Nat]
      /\ State(h).record = record[h] /\ State(h).drive = drive[h]
      /\ State(h).drive.phase = "Driving"
      /\ f \in Facts /\ FactOK(f, h, record[h])
  BY <1>0, HostFacts DEF JoinerHears, Driving
<1>2. CASE f.kind = "Offer" /\ Settle(h, OnOffer(h, State(h), f))
  <2>1. f \in OfferFacts
    BY <1>1, <1>2 DEF Facts
  <2>2. LocalStep(h, State(h), OnOffer(h, State(h), f))
    BY <1>1, <2>1, OnOfferLocal
  <2> QED
    BY <1>0, <1>2, <2>2, SettleKeepsInv
<1>3. CASE /\ f.kind = "Ticket" /\ f.ticket.host # h
           /\ f.ticket.offer.creator = drive[h].offer.creator
           /\ Settle(h, JoinerOnTicket(h, State(h), f.ticket))
  <2>1. f.ticket \in Ticket
    BY <1>1, <1>3 DEF Facts, OfferFacts
  <2>2. LocalStep(h, State(h), JoinerOnTicket(h, State(h), f.ticket))
    BY <1>1, <1>3, <2>1, JoinerOnTicketLocal
  <2> QED
    BY <1>0, <1>3, <2>2, SettleKeepsInv
<1>4. CASE f.kind = "ActivationTickets" /\ Settle(h, ConsumeFetch(h, State(h), f))
  <2>1. Frozen(f.session)
    BY <1>1, <1>4 DEF FactOK
  <2>2. LocalStep(h, State(h), ConsumeFetch(h, State(h), f))
    BY <1>1, <2>1, ConsumeFetchLocal
  <2> QED
    BY <1>0, <1>4, <2>2, SettleKeepsInv
<1>5. CASE f.kind = "ActivationAnnouncement" /\ Settle(h, OnAnnouncement(h, State(h), f))
  <2>1. /\ f.session \in Sessions
        /\ \A m \in Members(f.session) : Holds(m, f.session, h, State(h).record)
    BY <1>1, <1>5 DEF Facts, OfferFacts, FactOK
  <2>2. LocalStep(h, State(h), OnAnnouncement(h, State(h), f))
    BY <1>0, <1>1, <2>1, OnAnnouncementLocal
  <2> QED
    BY <1>0, <1>5, <2>2, SettleKeepsInv
<1> QED
  BY <1>2, <1>3, <1>4, <1>5 DEF JoinerHears

\* receive_offer: the binding is durable with the drive, and never replaced.
LEMMA ReceiveOfferKeepsInv ==
  ASSUME Inv, NEW h \in Joiners, NEW f \in wire, ReceiveOffer(h, f)
  PROVE  Inv' /\ RowsKept
<1>0. h \in Hosts /\ h \notin Creators /\ Types
  BY InvTypes DEF Joiners
<1>1. /\ record[h] \in Rows \cup {None} /\ RowOK(h, record[h]) /\ f \in Facts
  BY <1>0, HostFacts
<1>2. f \in OfferFacts /\ f.offer \in Offer /\ f.tickets \subseteq Ticket /\ f.offer.creator \in Creators
  <2>1. f \in OfferFacts
    BY <1>1 DEF ReceiveOffer, Facts
  <2> QED
    BY <2>1 DEF OfferFacts, Offer
<1>3. PICK t \in f.tickets :
        drive' = [drive EXCEPT ![h] =
            [NoDrive("Driving") EXCEPT !.offer = f.offer, !.listed = f.tickets,
                                       !.book[t.host] = t]]
  BY DEF ReceiveOffer
<1> DEFINE n == NoDrive("Driving")
           e == [n EXCEPT !.offer = f.offer, !.listed = f.tickets, !.book[t.host] = t]
<1>4. n \in Drives
  BY BlankDrive DEF Phases
<1>5. n.phase = "Driving" /\ n.prepared = None /\ n.sigs = {} /\ n.ticket = None
  BY DEF NoDrive
<1>6. t \in Ticket /\ t.host \in Hosts
  BY <1>2 DEF Ticket
<1>7. drive' = [drive EXCEPT ![h] = e]
  BY <1>3
<1> HIDE DEF n
<1>8. /\ e \in Drives /\ e.phase = "Driving" /\ e.ticket = None
      /\ e.offer = f.offer /\ e.prepared = None /\ e.sigs = {}
  BY <1>2, <1>4, <1>5, <1>6 DEF Drives
<1> HIDE DEF e
<1>9. /\ request' = [request EXCEPT ![h].bound = f.offer.creator]
      /\ request[h].bound \in {None, f.offer.creator}
      /\ UNCHANGED <<record, starts, wire, lapsed, acked>>
  BY DEF ReceiveOffer, JoinTargetFree
<1>10. /\ request' \in [Hosts -> Requests] /\ request'[h].bound = f.offer.creator
       /\ request'[h].failure = request[h].failure
       /\ \A k \in Hosts \ {h} : request'[k] = request[k]
  BY <1>0, <1>2, <1>9 DEF Types, Requests
<1>11. Types' /\ drive'[h] = e
  BY <1>0, <1>7, <1>8, <1>9, <1>10 DEF Types
<1>12. StepOf(h)
  BY <1>0, <1>7, <1>9, <1>10, RowKeptReflexive DEF StepOf, BoundKept, Types
<1>13. PICK s : s = [drive |-> e, record |-> record[h], out |-> {}]
  OBVIOUS
<1>14. s \in States /\ s.drive = e /\ s.record = record[h]
  BY <1>1, <1>8, <1>13 DEF States
<1>15. TicketOK(h, s.drive)'
  BY <1>0, <1>2, <1>8, <1>10, <1>14 DEF TicketOK
<1>16. BookOK(h, s.drive) /\ PreparedOK(h, s.drive, s.record)
  BY <1>0, <1>8, <1>14 DEF BookOK, PreparedOK
<1>17. \A k \in Hosts \ {h} : RowKept(record[k], record'[k])
  BY <1>0, <1>9, RowKeptReflexive DEF Types
<1>18. Local(h, State(h))'
  <2>1. record'[h] = s.record /\ drive'[h] = s.drive /\ BoundKept(h)
    BY <1>9, <1>11, <1>12, <1>14 DEF StepOf
  <2> QED
    BY <1>0, <1>1, <1>10, <1>14, <1>15, <1>16, <1>17, <2>1, HostNext
<1> QED
  BY <1>0, <1>9, <1>11, <1>12, <1>18, StepKeepsInv

\* A fetch is answered from the row, which has a frozen session.
LEMMA ServeFetchKeepsInv ==
  ASSUME Inv, NEW c \in Creators, NEW f \in wire, ServeFetch(c, f)
  PROVE  Inv' /\ RowsKept
<1> DEFINE g == TicketsFact(f.host, f.session)
<1>0. c \in Hosts /\ Types
  BY InvTypes, NegotiationAssumption
<1>1. /\ drive[c] \in Drives /\ RowOK(c, record[c]) /\ f \in Facts
      /\ TicketOK(c, drive[c]) /\ BookOK(c, drive[c]) /\ PreparedOK(c, drive[c], record[c])
  BY <1>0, HostFacts
<1>2. f.host \in Hosts /\ Frozen(f.session)
  BY <1>1 DEF ServeFetch, Facts, OfferFacts, PreparedAs, RowOK
<1>3. g \in Facts /\ g.kind = "ActivationTickets" /\ g.session = f.session
  BY <1>2 DEF TicketsFact, Facts, Frozen
<1>5. FactOK(g, c, record[c])
  BY <1>2, <1>3 DEF FactOK
<1>4. drive' = [drive EXCEPT ![c] = drive[c]] /\ wire' = wire \cup {g}
      /\ UNCHANGED <<request, record, starts, lapsed, acked>>
  BY <1>0 DEF ServeFetch, Types
<1> HIDE DEF g
<1>6. wire' \subseteq Facts /\ \A k \in wire' : k \in wire \/ FactOK(k, c, record[c])
  BY <1>0, <1>3, <1>4, <1>5 DEF Types
<1> QED
  BY <1>0, <1>1, <1>4, <1>6, DriveKeepsInv DEF Types

\* The relay repeats a committed session.
LEMMA RelayKeepsInv ==
  ASSUME Inv, NEW c \in Creators, Relay(c)
  PROVE  Inv' /\ RowsKept
<1> DEFINE x == record[c].session
           A == {AnnouncementFact(x)}
           B == {TicketFact(t) : t \in {u \in x.tickets : u.host = c}}
<1>0. c \in Hosts /\ Types
  BY InvTypes, NegotiationAssumption
<1>1. /\ drive[c] \in Drives /\ RowOK(c, record[c]) /\ record[c] \in Rows \cup {None}
      /\ TicketOK(c, drive[c]) /\ BookOK(c, drive[c]) /\ PreparedOK(c, drive[c], record[c])
  BY <1>0, HostFacts
<1>2. record[c] # None /\ record[c].status = "Committed"
  BY <1>1 DEF Relay, PreparedOK
<1>3. /\ x \in Sessions /\ x.tickets \subseteq Ticket
      /\ \A m \in Members(x) : Holds(m, x, c, record[c])
      /\ \A t \in x.tickets : Issued(t)
  BY <1>1, <1>2 DEF RowOK, Rows, Sessions, Frozen, Issued
<1>4. \A f \in A : f \in Facts /\ FactOK(f, c, record[c])
  BY <1>3, FactsHold
<1>5. \A f \in B : f \in Facts /\ FactOK(f, c, record[c])
  BY <1>3, FactsHold
<1>6. drive' = [drive EXCEPT ![c] = drive[c]] /\ wire' = wire \cup A \cup B
      /\ UNCHANGED <<request, record, starts, lapsed, acked>>
  BY <1>0 DEF Relay, Types
<1> HIDE DEF A, B
<1>7. wire' \subseteq Facts /\ \A f \in wire' : f \in wire \/ FactOK(f, c, record[c])
  BY <1>0, <1>4, <1>5, <1>6 DEF Types
<1> QED
  BY <1>0, <1>1, <1>6, <1>7, DriveKeepsInv DEF Types

\* The end of the session drops the drive and keeps the row.
LEMMA SessionEndsKeepsInv ==
  ASSUME Inv, NEW h \in Hosts, SessionEnds(h)
  PROVE  Inv' /\ RowsKept
<1>1. Types
  BY InvTypes
<1>2. /\ NoDrive("Ended") \in Drives /\ TicketOK(h, NoDrive("Ended"))
      /\ BookOK(h, NoDrive("Ended")) /\ PreparedOK(h, NoDrive("Ended"), record[h])
  BY EmptyDrive DEF Phases
<1> QED
  BY <1>1, <1>2, DriveKeepsInv DEF SessionEnds, Types

\* A crash drops the drive; the rows are durable.
LEMMA CrashKeepsInv ==
  ASSUME Inv, NEW h \in Hosts, Crash(h)
  PROVE  Inv' /\ RowsKept
<1>1. Types
  BY InvTypes
<1>2. /\ NoDrive("Down") \in Drives /\ TicketOK(h, NoDrive("Down"))
      /\ BookOK(h, NoDrive("Down")) /\ PreparedOK(h, NoDrive("Down"), record[h])
  BY EmptyDrive DEF Phases
<1> QED
  BY <1>1, <1>2, DriveKeepsInv DEF Crash, Types

\* exec.withdraw: the successor ticket is for the negotiation of the first.
LEMMA WithdrawKeepsInv ==
  ASSUME Inv, NEW h \in Hosts, Withdraw(h)
  PROVE  Inv' /\ RowsKept
<1> DEFINE d == drive[h]
           e == [d EXCEPT !.phase = "Ending", !.reason = "Withdrawn"]
           t == [d.ticket EXCEPT !.rev = @ + 1, !.active = FALSE]
<1>1. Types
  BY InvTypes
<1>2. /\ d \in Drives /\ TicketOK(h, d) /\ BookOK(h, d) /\ PreparedOK(h, d, record[h])
  BY HostFacts
<1>3. e \in Drives /\ TicketOK(h, e) /\ BookOK(h, e) /\ PreparedOK(h, e, record[h])
  BY <1>2, EndingDrive DEF Reasons
<1>4. drive' = [drive EXCEPT ![h] = e] /\ UNCHANGED <<request, record, starts, lapsed>>
  BY <1>1 DEF Withdraw, Types, Drives
<1>5. d.ticket # None => TicketFact(t) \in Facts /\ FactOK(TicketFact(t), h, record[h])
  <2> HAVE d.ticket # None
  <2>1. record[h] = None
    BY DEF Withdraw
  <2>2. d.prepared = None
    BY <1>2, <2>1 DEF PreparedOK, PreparedAs
  <2>3. /\ d.ticket \in Ticket /\ d.ticket.rev = 0 /\ d.ticket.host = h
        /\ d.ticket.offer = d.offer /\ d.offer \in Offer
    BY <1>2, <2>2 DEF TicketOK, Drives, Ticket
  <2>4. t \in Ticket /\ t.host = h /\ t.offer = d.offer
    <3>1. d.ticket.rev + 1 \in 0..1 /\ FALSE \in BOOLEAN
      BY <2>3
    <3>2. \A r \in 0..1, b \in BOOLEAN :
            [d.ticket EXCEPT !.rev = r, !.active = b] \in Ticket
      BY <2>3 DEF Ticket
    <3>3. t = [d.ticket EXCEPT !.rev = d.ticket.rev + 1, !.active = FALSE]
      BY <2>3 DEF Ticket
    <3>4. t \in Ticket
      BY <3>1, <3>2, <3>3
    <3> QED
      BY <2>3, <3>4 DEF Ticket
  <2>5. h \notin Creators => request[h].bound = t.offer.creator
    BY <1>2, <2>3, <2>4 DEF TicketOK
  <2>6. ~t.active
    BY <2>3 DEF Ticket
  <2> HIDE DEF t
  <2> QED
    BY <2>4, <2>5, <2>6, FactsHold DEF Issued
<1>6. acked' \subseteq Hosts /\ wire' \subseteq wire \cup {TicketFact(t)}
      /\ (d.ticket = None => wire' = wire)
  BY <1>1 DEF Withdraw, Types
<1> HIDE DEF d, e, t
<1>7. wire' \subseteq Facts /\ \A f \in wire' : f \in wire \/ FactOK(f, h, record[h])
  BY <1>1, <1>5, <1>6 DEF Types
<1> QED
  BY <1>1, <1>3, <1>4, <1>6, <1>7, DriveKeepsInv DEF Types

\* A deadline or a lost topic ends the drive.
LEMMA DriveFailsKeepsInv ==
  ASSUME Inv, NEW h \in Hosts, DriveFails(h)
  PROVE  Inv' /\ RowsKept
<1> DEFINE d == drive[h]
           e == [d EXCEPT !.phase = "Ending", !.reason = "Failed"]
<1>1. Types
  BY InvTypes
<1>2. /\ d \in Drives /\ TicketOK(h, d) /\ BookOK(h, d) /\ PreparedOK(h, d, record[h])
  BY HostFacts
<1>3. e \in Drives /\ TicketOK(h, e) /\ BookOK(h, e) /\ PreparedOK(h, e, record[h])
  BY <1>2, EndingDrive DEF Reasons
<1>4. drive' = [drive EXCEPT ![h] = e] /\ UNCHANGED <<request, record, starts, wire, lapsed, acked>>
  BY <1>1 DEF DriveFails, Types, Drives
<1> HIDE DEF e
<1> QED
  BY <1>1, <1>3, <1>4, DriveKeepsInv DEF Types

\* record_negotiation_failure spares a Host that holds a session.
LEMMA FinishNegotiationKeepsInv ==
  ASSUME Inv, NEW h \in Hosts, FinishNegotiation(h)
  PROVE  Inv' /\ RowsKept
<1> DEFINE e == NoDrive("Done")
<1>1. Types
  BY InvTypes
<1>2. e \in Drives /\ TicketOK(h, e) /\ BookOK(h, e) /\ PreparedOK(h, e, record[h])
  BY EmptyDrive DEF Phases
<1>3. RowOK(h, record[h])
  BY HostFacts
<1>4. drive' = [drive EXCEPT ![h] = e] /\ UNCHANGED <<record, starts, wire, lapsed>>
  BY DEF FinishNegotiation
<1> HIDE DEF e
<1>5. /\ request' \in [Hosts -> Requests]
      /\ request'[h].bound = request[h].bound
      /\ record[h] # None => request'[h].failure = request[h].failure
      /\ \A k \in Hosts \ {h} : request'[k] = request[k]
  BY <1>1 DEF FinishNegotiation, Types, Requests
<1>6. acked' \subseteq Hosts
  BY <1>1 DEF FinishNegotiation, Types
<1>7. Types' /\ drive'[h] = e /\ \A k \in Hosts \ {h} : drive'[k] = drive[k]
  BY <1>1, <1>2, <1>4, <1>5, <1>6 DEF Types
<1>8. \A k \in Hosts : RowKept(record[k], record'[k])
  BY <1>1, <1>4, RowKeptReflexive DEF Types
<1>9. BoundKept(h)
  BY <1>5 DEF BoundKept
<1>10. StepOf(h)
  BY <1>4, <1>5, <1>7, <1>8, <1>9 DEF StepOf
<1>11. PICK s : s = [drive |-> e, record |-> record[h], out |-> {}]
  OBVIOUS
<1>12. s \in States /\ s.drive = e /\ s.record = record[h]
  BY <1>1, <1>2, <1>11 DEF States, Types
<1>13. /\ RowOK(h, s.record) /\ TicketOK(h, s.drive) /\ BookOK(h, s.drive)
       /\ PreparedOK(h, s.drive, s.record)
  BY <1>2, <1>3, <1>12
<1>14. TicketOK(h, s.drive)'
  BY <1>9, <1>13, TicketNext
<1>15. drive'[h] = s.drive /\ record'[h] = s.record
  BY <1>4, <1>7, <1>12
<1>16. Local(h, State(h))'
  BY <1>5, <1>8, <1>9, <1>12, <1>13, <1>14, <1>15, HostNext
<1> QED
  BY <1>4, <1>7, <1>10, <1>16, StepKeepsInv

\* A drive begun anew claims nothing about the row.
LEMMA FreshDriveOK ==
  ASSUME NEW h \in Hosts, NEW era \in Nat, NEW row, starts \in [Hosts -> Nat]
  PROVE  LET d == FreshDrive(h, era) IN
         d \in Drives /\ TicketOK(h, d) /\ BookOK(h, d) /\ PreparedOK(h, d, row)
<1>1. CASE h \in Creators
  <2> DEFINE o == FirstOffer(h, era)
  <2>1. o \in Offer
    BY <1>1, NegotiationAssumption DEF FirstOffer, Offer
  <2> HIDE DEF o
  <2>2. LET d == CreatorDrive(h, o) IN
        d \in Drives /\ TicketOK(h, d) /\ BookOK(h, d) /\ PreparedOK(h, d, row)
    BY <1>1, <2>1, CreatorDriveOK
  <2> QED
    BY <1>1, <2>2 DEF FreshDrive, o
<1>2. CASE h \notin Creators
  BY <1>2, EmptyDrive DEF FreshDrive, Phases
<1> QED
  BY <1>1, <1>2

\* NegotiationStart::Resume drives exactly what the row holds.
LEMMA ResumedDriveOK ==
  ASSUME NEW h \in Hosts, NEW row \in Rows, RowOK(h, row)
  PROVE  LET d == ResumedDrive(h, row.session) IN
         d \in Drives /\ TicketOK(h, d) /\ BookOK(h, d) /\ PreparedOK(h, d, row)
<1> DEFINE x == row.session
           T(k) == CHOOSE t \in x.tickets : t.host = k
           n == NoDrive("Driving")
           book == [k \in Hosts |-> IF k \in Members(x) THEN T(k) ELSE None]
           d == ResumedDrive(h, x)
<1>0. row # None
  BY NegotiationAssumption
<1>1. /\ x \in Sessions /\ x.offer \in Offer /\ x.tickets \subseteq Ticket /\ h \in Members(x)
      /\ \A t \in x.tickets : t.active /\ t.offer = x.offer /\ t.rev = 0
      /\ h \notin Creators => request[h].bound = x.offer.creator
  BY <1>0 DEF RowOK, Frozen, IsSession
<1>2. \A k \in Members(x) : T(k) \in x.tickets /\ T(k).host = k
  BY DEF Members
<1>3. /\ book \in [Hosts -> Ticket \cup {None}] /\ book[h] = T(h) /\ T(h) \in Ticket
      /\ \A k \in Hosts : book[k] # None => book[k] = T(k) /\ k \in Members(x)
  BY <1>1, <1>2
<1>4. n \in Drives /\ n.phase = "Driving" /\ n.sigs = {}
  <2>1. n.phase = "Driving" /\ n.sigs = {}
    BY DEF NoDrive
  <2> QED
    BY <2>1, BlankDrive DEF Phases
<1>5. d = [n EXCEPT !.offer = x.offer, !.listed = x.tickets, !.ticket = T(h),
                    !.book = book, !.prepared = x]
  BY DEF ResumedDrive
<1> HIDE DEF n, book, d, T
<1>6. /\ d \in Drives /\ d.phase = "Driving" /\ d.ticket = T(h) /\ d.offer = x.offer
      /\ d.book = book /\ d.prepared = x /\ d.sigs = {}
  BY <1>1, <1>3, <1>4, <1>5 DEF Drives
<1>7. x # None /\ T(h) # None
  BY <1>1, <1>3, NegotiationAssumption
<1>8. TicketOK(h, d)
  BY <1>1, <1>2, <1>3, <1>6, <1>7 DEF TicketOK
<1>9. BookOK(h, d)
  BY <1>1, <1>2, <1>3, <1>6 DEF BookOK
<1>10. PreparedOK(h, d, row)
  BY <1>0, <1>6, <1>7 DEF PreparedOK, PreparedAs
<1> QED
  BY <1>6, <1>8, <1>9, <1>10 DEF d

\* resume_durable: whatever the rows say, the new drive fits them.
LEMMA RestartKeepsInv ==
  ASSUME Inv, NEW h \in Hosts, Restart(h)
  PROVE  Inv' /\ RowsKept
<1>1. Types /\ RowOK(h, record[h]) /\ record[h] \in Rows \cup {None}
  BY InvTypes, HostFacts
<1>2. PICK d : d = IF record[h] # None
                     THEN IF record[h].status = "Committed" THEN NoDrive("Active")
                          ELSE ResumedDrive(h, record[h].session)
                   ELSE IF request[h].failure # None THEN NoDrive("Done")
                   ELSE FreshDrive(h, starts[h] + 1)
  OBVIOUS
<1>3. d \in Drives /\ TicketOK(h, d) /\ BookOK(h, d) /\ PreparedOK(h, d, record[h])
  <2>1. CASE record[h] # None /\ record[h].status = "Committed"
    BY <1>2, <2>1, EmptyDrive DEF Phases
  <2>2. CASE record[h] # None /\ record[h].status # "Committed"
    BY <1>1, <1>2, <2>2, ResumedDriveOK
  <2>3. CASE record[h] = None /\ request[h].failure # None
    BY <1>2, <2>3, EmptyDrive DEF Phases
  <2>4. CASE record[h] = None /\ request[h].failure = None
    <3>1. starts[h] + 1 \in Nat
      BY <1>1 DEF Types
    <3> QED
      BY <1>1, <1>2, <2>4, <3>1, FreshDriveOK DEF Types
  <2> QED
    BY <2>1, <2>2, <2>3, <2>4
<1>4. drive' = [drive EXCEPT ![h] = d] /\ UNCHANGED <<request, record, wire, lapsed, acked>>
  BY <1>2 DEF Restart
<1>5. starts' \in [Hosts -> Nat]
  BY <1>1 DEF Restart, Types
<1> QED
  BY <1>1, <1>3, <1>4, <1>5, DriveKeepsInv DEF Types

\* exec.new repeated: the fresh drive claims nothing about the row.
LEMMA NewExecAgainKeepsInv ==
  ASSUME Inv, NEW h \in Hosts, NewExecAgain(h)
  PROVE  Inv' /\ RowsKept
<1>1. Types
  BY InvTypes
<1>2. PICK d : d = FreshDrive(h, starts[h] + 1)
  OBVIOUS
<1>3. starts' \in [Hosts -> Nat] /\ starts[h] + 1 \in Nat
  BY <1>1 DEF NewExecAgain, Types
<1>4. d \in Drives /\ TicketOK(h, d) /\ BookOK(h, d) /\ PreparedOK(h, d, record[h])
  BY <1>1, <1>2, <1>3, FreshDriveOK DEF Types
<1>5. drive' = [drive EXCEPT ![h] = d] /\ UNCHANGED <<request, record, wire, lapsed, acked>>
  BY <1>2 DEF NewExecAgain
<1> QED
  BY <1>1, <1>3, <1>4, <1>5, DriveKeepsInv DEF Types

\* A deadline that passes dates an offer and nothing else.
LEMMA LapseKeepsInv ==
  ASSUME Inv, NEW c \in Creators, Lapse(c)
  PROVE  Inv' /\ RowsKept
<1>0. c \in Hosts /\ Types
  BY InvTypes, NegotiationAssumption
<1>1. /\ drive[c] \in Drives /\ TicketOK(c, drive[c]) /\ BookOK(c, drive[c])
      /\ PreparedOK(c, drive[c], record[c])
  BY <1>0, HostFacts
<1>2. lapsed' \subseteq Offer
  BY <1>0, <1>1 DEF Lapse, TicketOK, Types
<1>3. drive' = [drive EXCEPT ![c] = drive[c]] /\ UNCHANGED <<request, record, starts, wire, acked>>
  BY <1>0 DEF Lapse, Types
<1> QED
  BY <1>0, <1>1, <1>2, <1>3, DriveKeepsInv DEF Types

----------------------------------------------------------------------------
(* The theorems *)

\* No Host holds a session when the daemons start.
LEMMA InitInv == Init => Inv
<1> SUFFICES ASSUME Init PROVE Inv
  OBVIOUS
<1>1. /\ request \in [Hosts -> Requests]
      /\ record = [h \in Hosts |-> None] /\ starts = [h \in Hosts |-> 0]
      /\ \A h \in Hosts : request[h].failure = None
      /\ wire = {} /\ lapsed = {} /\ acked = {}
  BY NegotiationAssumption DEF Init, Requests
<1>2. ASSUME NEW h \in Hosts
      PROVE  /\ drive[h] \in Drives /\ Local(h, State(h))
  <2>1. drive[h] = FreshDrive(h, 0) /\ record[h] = None /\ starts \in [Hosts -> Nat]
    BY <1>1 DEF Init
  <2>2. /\ drive[h] \in Drives /\ TicketOK(h, drive[h]) /\ BookOK(h, drive[h])
        /\ PreparedOK(h, drive[h], record[h])
    BY <2>1, FreshDriveOK
  <2>3. State(h) \in States /\ State(h).drive = drive[h] /\ State(h).record = record[h]
        /\ State(h).out = {}
    BY <2>1, <2>2 DEF State, States
  <2>4. RowOK(h, record[h])
    BY <2>1 DEF RowOK
  <2> QED
    BY <2>2, <2>3, <2>4 DEF Local
<1>3. drive \in [Hosts -> Drives]
  BY <1>2 DEF Init
<1> QED
  BY <1>1, <1>2, <1>3 DEF Inv, Requests

\* Every action keeps the invariant and every row.
LEMMA NextInv == Inv /\ [Next]_vars => Inv' /\ RowsKept
<1> SUFFICES ASSUME Inv, [Next]_vars PROVE Inv' /\ RowsKept
  OBVIOUS
<1>1. ASSUME NEW c \in Creators, CreatorEmit(c) \/ Relay(c) \/ Lapse(c)
      PROVE  Inv' /\ RowsKept
  BY <1>1, CreatorEmitKeepsInv, RelayKeepsInv, LapseKeepsInv
<1>2. ASSUME NEW c \in Creators, NEW f \in wire, CreatorHears(c, f) \/ ServeFetch(c, f)
      PROVE  Inv' /\ RowsKept
  BY <1>2, CreatorHearsKeepsInv, ServeFetchKeepsInv
<1>3. ASSUME NEW h \in Joiners, ParticipantEmit(h) \/ NewExecAgain(h)
      PROVE  Inv' /\ RowsKept
  BY <1>3, ParticipantEmitKeepsInv, NewExecAgainKeepsInv DEF Joiners
<1>4. ASSUME NEW h \in Joiners, NEW f \in wire, JoinerHears(h, f) \/ ReceiveOffer(h, f)
      PROVE  Inv' /\ RowsKept
  BY <1>4, JoinerHearsKeepsInv, ReceiveOfferKeepsInv
<1>5. ASSUME NEW h \in Hosts, HostStep(h)
      PROVE  Inv' /\ RowsKept
  BY <1>5, SessionEndsKeepsInv, WithdrawKeepsInv, DriveFailsKeepsInv,
     FinishNegotiationKeepsInv, CrashKeepsInv, RestartKeepsInv DEF HostStep
<1>6. ASSUME NEW f \in wire, Lose(f)
      PROVE  Inv' /\ RowsKept
  BY <1>6, QuietKeepsInv DEF Lose
<1>7. CASE UNCHANGED vars
  BY <1>7, QuietKeepsInv DEF vars
<1> QED
  BY <1>1, <1>2, <1>3, <1>4, <1>5, <1>6, <1>7 DEF Next

\* The inductive invariant holds in every behaviour: rows hold frozen sessions
\* that name their Host, drives sign only what their row holds, and every fact
\* on the topic is true of its signer's row or request.
THEOREM Invariance == Spec => []Inv
  BY InitInv, NextInv, PTL DEF Spec

\* Every drive, row, request and wire of the negotiation keeps its type.
THEOREM TypeCorrect == Spec => []TypeOK
<1>1. Inv => TypeOK
  <2> SUFFICES ASSUME Inv PROVE TypeOK
    OBVIOUS
  <2>1. Types
    BY InvTypes
  <2>2. ASSUME NEW h \in Hosts, record[h] # None
        PROVE  record[h].status \in {"Prepared", "Committed"} /\ IsSession(record[h].session)
    <3>1. RowOK(h, record[h]) /\ record[h] \in Rows
      BY <2>2, HostFacts
    <3> QED
      BY <2>2, <3>1 DEF RowOK, Frozen, Rows
  <2>3. ASSUME NEW h \in Hosts
        PROVE  LET d == drive[h] IN
               /\ d.phase \in Phases
               /\ d.phase = "Driving" => d.offer \in Offer
               /\ d.listed \subseteq Ticket /\ d.ticket \in Ticket \cup {None}
               /\ \A k \in Hosts : d.book[k] # None => d.book[k] \in Ticket
               /\ d.prepared # None => IsSession(d.prepared)
               /\ d.sigs \subseteq Hosts /\ d.counters \subseteq Hosts
    <3>1. /\ drive[h] \in Drives /\ TicketOK(h, drive[h])
          /\ PreparedOK(h, drive[h], record[h]) /\ RowOK(h, record[h])
      BY HostFacts
    <3>2. drive[h].prepared # None => IsSession(drive[h].prepared)
      BY <3>1 DEF PreparedOK, PreparedAs, RowOK, Frozen
    <3> QED
      BY <3>1, <3>2 DEF Drives, TicketOK
  <2> QED
    BY <2>1, <2>2, <2>3 DEF TypeOK, Types, Requests
<1> QED
  BY <1>1, Invariance, PTL

\* finish_negotiation, withdraw and a repeated exec.new never leave a Host with
\* both a failed request and an activation record.
THEOREM FailureExclusion == Spec => []FailureExcludesActivation
<1>1. Inv => FailureExcludesActivation
  BY HostFacts DEF FailureExcludesActivation, RowOK
<1> QED
  BY <1>1, Invariance, PTL

\* prepare_activation precedes every activation signature on the topic, across
\* crashes and repeated requests.
THEOREM PrepareBeforeSign == Spec => []SignedIsPrepared
<1>1. Inv => SignedIsPrepared
  <2> SUFFICES ASSUME Inv, NEW f \in wire, f.kind = "ActivationSignature"
               PROVE  PreparedAs(record[f.host], f.session)
    BY DEF SignedIsPrepared
  <2>1. f.host \in Hosts
    BY DEF Inv, Facts, OfferFacts
  <2>2. FactOK(f, f.host, record[f.host])
    BY <2>1 DEF Inv
  <2> QED
    BY <2>2 DEF FactOK, Holds
<1> QED
  BY <1>1, Invariance, PTL

\* commit_activation is unanimous: every Host a committed session names holds
\* exactly that session durably.
THEOREM CommitUnanimity == Spec => []CommitIsUnanimous
<1>1. Inv => CommitIsUnanimous
  <2> SUFFICES ASSUME Inv, NEW h \in Hosts, Committed(h),
                      NEW m \in Members(record[h].session)
               PROVE  PreparedAs(record[m], record[h].session)
    BY DEF CommitIsUnanimous
  <2>1. RowOK(h, record[h])
    BY HostFacts
  <2> QED
    BY <2>1 DEF RowOK, Committed, Holds
<1> QED
  BY <1>1, Invariance, PTL

\* bind_join_target: every ticket a joiner ever published names the negotiation
\* its request row is bound to.
THEOREM OneNegotiationPerJoiner == Spec => []TicketsNameTheBoundNegotiation
<1>1. Inv => TicketsNameTheBoundNegotiation
  <2> SUFFICES ASSUME Inv, NEW f \in wire, f.kind = "Ticket", f.ticket.host \in Joiners
               PROVE  request[f.ticket.host].bound = f.ticket.offer.creator
    BY DEF TicketsNameTheBoundNegotiation
  <2>1. f.ticket.host \in Hosts /\ f.ticket.host \notin Creators
    BY DEF Joiners
  <2> QED
    BY <2>1, HostFacts DEF FactOK
<1> QED
  BY <1>1, Invariance, PTL

\* An activation row is permanent: no crash, withdrawal, repeated request or
\* later drive replaces its session or takes a commit back.
THEOREM RecordPermanence == Spec => RecordsArePermanent
<1>1. Inv /\ [Next]_vars =>
        [\A h \in Hosts : record[h] # None =>
           /\ PreparedAs(record'[h], record[h].session)
           /\ Committed(h) => record'[h] = record[h]]_vars
  BY NextInv DEF RowsKept, RowKept, Committed
<1> QED
  BY <1>1, Invariance, PTL DEF Spec, RecordsArePermanent
----------------------------------------------------------------------------
(* Withdrawals. A creator's book changes by a higher revision only, and a    *)
(* ticket of a higher revision than another is a withdrawn one.              *)

\* A call that leaves the book and the offer it is for.
SameBook(s, u) == u.drive.book = s.drive.book /\ u.drive.offer = s.drive.offer

LEMMA PublishSameBook ==
  ASSUME NEW s \in States, NEW facts
  PROVE  SameBook(s, Publish(s, facts))
  BY DEF SameBook, Publish, States

LEMMA TryFreezeSameBook ==
  ASSUME NEW h, NEW s \in States
  PROVE  SameBook(s, TryFreeze(h, s))
<1> DEFINE chosen == Selection(h, s.drive.book)
           x == Session(s.drive.offer, chosen)
           row == PrepareActivation(h, s.record, x)
           facts == {OfferFact(s.drive.offer, chosen), SignatureFact(h, x)}
           u == [s EXCEPT !.record = row, !.drive.prepared = x,
                          !.drive.listed = chosen, !.drive.sigs = {h}]
<1>1. \/ TryFreeze(h, s) = s \/ TryFreeze(h, s) = Fail(s, "Prepare")
      \/ TryFreeze(h, s) = Publish(u, facts)
  BY DEF TryFreeze
<1>2. SameBook(s, s) /\ SameBook(s, Fail(s, "Prepare"))
  BY DEF SameBook, Fail, States, Drives
<1> HIDE DEF row, facts, x, chosen
<1>3. SameBook(s, Publish(u, facts))
  BY DEF SameBook, Publish, States, Drives
<1> HIDE DEF u
<1> QED
  BY <1>1, <1>2, <1>3

LEMMA TryAggregateSameBook ==
  ASSUME NEW h, NEW s \in States
  PROVE  SameBook(s, TryAggregate(h, s))
<1> DEFINE u == [s EXCEPT !.record = CommitActivation(@), !.drive.phase = "Active"]
           facts == {AnnouncementFact(s.drive.prepared)}
<1>1. TryAggregate(h, s) = s \/ TryAggregate(h, s) = Publish(u, facts)
  BY DEF TryAggregate
<1> HIDE DEF facts
<1>2. SameBook(s, s) /\ SameBook(s, Publish(u, facts))
  BY DEF SameBook, Publish, States, Drives
<1> HIDE DEF u
<1> QED
  BY <1>1, <1>2

LEMMA CreatorFactsSameBook ==
  ASSUME NEW h, NEW s \in States
  PROVE  SameBook(s, CreatorFacts(h, s))
<1> DEFINE u == [s EXCEPT !.drive.sigs = @ \cup {h}]
<1>1. \/ CreatorFacts(h, s) = s \/ CreatorFacts(h, s) = Fail(s, "Signing")
      \/ \E facts : CreatorFacts(h, s) = Publish(u, facts)
      \/ \E facts : CreatorFacts(h, s) = Publish(s, facts)
  BY DEF CreatorFacts
<1>2. SameBook(s, s) /\ SameBook(s, Fail(s, "Signing"))
  BY DEF SameBook, Fail, States, Drives
<1>3. ASSUME NEW facts PROVE SameBook(s, Publish(u, facts))
  BY DEF SameBook, Publish, States, Drives
<1> HIDE DEF u
<1> QED
  BY <1>1, <1>2, <1>3, PublishSameBook

\* emit_periodic of a creator after the renewal, if there is one.
LEMMA CreatorEmitSameBook ==
  ASSUME NEW h \in Creators, NEW s, Local(h, s)
  PROVE  SameBook(s, TryAggregate(h, CreatorFacts(h, TryFreeze(h, s))))
<1> DEFINE a == TryFreeze(h, s)
           b == CreatorFacts(h, a)
<1>1. s \in States /\ LocalStep(h, s, a)
  BY TryFreezeLocal DEF Local
<1>2. SameBook(s, a)
  BY <1>1, TryFreezeSameBook
<1> HIDE DEF a
<1>3. a \in States /\ LocalStep(h, a, b) /\ SameBook(a, b)
  BY <1>1, CreatorFactsLocal, CreatorFactsSameBook DEF LocalStep, Local
<1> HIDE DEF b
<1>4. SameBook(b, TryAggregate(h, b))
  BY <1>3, TryAggregateSameBook DEF LocalStep, Local
<1> QED
  BY <1>2, <1>3, <1>4 DEF SameBook, a, b

\* A renewed offer is another offer.
LEMMA ReofferRenews ==
  ASSUME NEW h, NEW s \in States, s.drive.offer \in Offer, NEW heard
  PROVE  Reoffer(h, s, heard).drive.offer # s.drive.offer
<1> DEFINE d == s.drive
           best == Candidate(d, heard)
           p == IF best = {} THEN d.offer.params ELSE CHOOSE q \in best : TRUE
           o == [d.offer EXCEPT !.seq = @ + 1, !.params = p]
           n == CreatorDrive(h, o)
           att == IF best = {} THEN d.attempts ELSE d.attempts + 1
           tri == IF best = {} THEN d.tried
                  ELSE [q \in DOMAIN d.tried \cup best |->
                          IF q \in best THEN Support(heard, q) ELSE d.tried[q]]
           e == [n EXCEPT !.counters = d.counters, !.attempts = att, !.tried = tri]
<1>1. Reoffer(h, s, heard) = [s EXCEPT !.drive = e]
  BY DEF Reoffer
<1> HIDE DEF p
<1>2. o.seq = d.offer.seq + 1 /\ d.offer.seq \in Nat
  BY NegotiationAssumption DEF Offer
<1> HIDE DEF o, att, tri, best
<1>3. o # d.offer
  <2>1. d.offer.seq + 1 # d.offer.seq
    BY <1>2
  <2> QED
    BY <1>2, <2>1, Zenon
<1>4. e.offer = o
  BY DEF CreatorDrive, NoDrive
<1> HIDE DEF e
<1>5. Reoffer(h, s, heard).drive = e
  BY <1>1 DEF States
<1> QED
  BY <1>3, <1>4, <1>5

\* Book b follows book a: nobody who has withdrawn is Active again.
BookFollows(a, b) == \A k \in Hosts : a[k] # None => (b[k].active => a[k].active)

LEMMA ApplyTicketFollows ==
  ASSUME NEW book \in [Hosts -> Ticket \cup {None}], NEW t \in Ticket, Issued(t), NEW o
  PROVE  BookFollows(book, ApplyTicket(book, t, o))
<1> DEFINE b == ApplyTicket(book, t, o)
<1>1. SUFFICES ASSUME NEW k \in Hosts, book[k] # None, b[k].active
               PROVE  book[k].active
  BY DEF BookFollows
<1>2. CASE b[k] = book[k]
  BY <1>1, <1>2
<1>3. CASE b[k] # book[k]
  <2>1. k = t.host /\ b[k] = t /\ t.rev > book[k].rev
    BY <1>1, <1>3 DEF ApplyTicket, Ticket
  <2>2. t.rev = 0
    BY <1>1, <2>1 DEF Issued
  <2>3. book[k].rev \in 0..1
    BY <1>1 DEF Ticket
  <2> QED
    BY <2>1, <2>2, <2>3
<1> QED
  BY <1>2, <1>3

LEMMA CreatorHearsFollows ==
  ASSUME Inv, NEW c \in Creators, NEW f \in wire, CreatorHears(c, f)
  PROVE  BookFollows(drive[c].book, drive'[c].book)
<1>0. c \in Hosts
  BY NegotiationAssumption
<1>1. /\ Local(c, State(c)) /\ State(c) \in States /\ State(c).drive = drive[c]
      /\ f \in Facts /\ FactOK(f, c, record[c])
      /\ drive[c].book \in [Hosts -> Ticket \cup {None}]
      /\ drive \in [Hosts -> Drives]
  BY <1>0, HostFacts, InvTypes DEF Local, Drives, Types
<1>2. \A u : Settle(c, u) => drive'[c] = u.drive
  BY <1>0, <1>1 DEF Settle
<1>3. BookFollows(drive[c].book, drive[c].book)
  BY DEF BookFollows
<1>4. CASE f.kind = "Ticket" /\ f.ticket.host # c /\ Settle(c, CreatorOnTicket(c, State(c), f.ticket))
  <2> DEFINE t == f.ticket
             s == State(c)
             e == [s.drive EXCEPT !.book = ApplyTicket(@, t, s.drive.offer)]
             u == [s EXCEPT !.drive = e]
             a == TryFreeze(c, u)
  <2>1. t \in Ticket /\ Issued(t)
    BY <1>1, <1>4 DEF Facts, OfferFacts, FactOK
  <2>2. e \in Drives /\ TicketOK(c, e) /\ BookOK(c, e) /\ PreparedOK(c, e, s.record)
    BY <1>0, <1>1, <1>4, <2>1, ApplyTicketBook DEF Local, States
  <2>3. [s EXCEPT !.drive.book = ApplyTicket(@, t, s.drive.offer)] = u
    BY <1>1 DEF States, Drives
  <2>4. CreatorOnTicket(c, s, t) = TryAggregate(c, a)
    BY <2>3 DEF CreatorOnTicket
  <2>5. e.book = ApplyTicket(drive[c].book, t, drive[c].offer)
    BY <1>1 DEF States, Drives
  <2> HIDE DEF e
  <2>6. LocalStep(c, s, u) /\ u.drive = e
    BY <1>1, <2>2, DriveLocal DEF States
  <2> HIDE DEF u, s
  <2>7. LocalStep(c, u, a) /\ u \in States
    BY <2>6, TryFreezeLocal DEF LocalStep, Local
  <2>8. SameBook(u, a)
    BY <2>7, TryFreezeSameBook
  <2> HIDE DEF a
  <2>9. SameBook(a, TryAggregate(c, a))
    BY <2>7, TryAggregateSameBook DEF LocalStep, Local
  <2>10. drive'[c].book = e.book
    BY <1>2, <1>4, <2>4, <2>6, <2>8, <2>9 DEF SameBook, s
  <2> QED
    BY <1>1, <2>1, <2>5, <2>10, ApplyTicketFollows
<1>5. CASE f.kind = "ActivationSignature" /\ Settle(c, OnActivationSignature(c, State(c), f))
  <2> DEFINE u == [State(c) EXCEPT !.drive.sigs = @ \cup {f.host}]
  <2>1. f.host \in Hosts
    BY <1>1, <1>5 DEF Facts, OfferFacts
  <2>2. u \in States /\ SameBook(State(c), u)
    BY <1>1, <2>1 DEF States, Drives, SameBook
  <2>3. OnActivationSignature(c, State(c), f) \in {State(c), TryAggregate(c, u)}
    BY DEF OnActivationSignature
  <2> HIDE DEF u
  <2>4. SameBook(State(c), OnActivationSignature(c, State(c), f))
    BY <2>2, <2>3, TryAggregateSameBook DEF SameBook
  <2> QED
    BY <1>1, <1>2, <1>3, <1>5, <2>4 DEF SameBook
<1>6. CASE /\ f.kind = "Counteroffer"
           /\ Settle(c, [State(c) EXCEPT !.drive.counters = @ \cup {f.host}])
  <2>1. SameBook(State(c), [State(c) EXCEPT !.drive.counters = @ \cup {f.host}])
    BY <1>1 DEF States, Drives, SameBook
  <2> QED
    BY <1>1, <1>2, <1>3, <1>6, <2>1 DEF SameBook
<1> QED
  BY <1>4, <1>5, <1>6 DEF CreatorHears

LEMMA CreatorEmitFollows ==
  ASSUME Inv, NEW c \in Creators, CreatorEmit(c), drive'[c].offer = drive[c].offer
  PROVE  BookFollows(drive[c].book, drive'[c].book)
<1>0. c \in Hosts
  BY NegotiationAssumption
<1>1. /\ Local(c, State(c)) /\ State(c) \in States /\ State(c).drive = drive[c]
      /\ starts \in [Hosts -> Nat] /\ drive[c].phase = "Driving"
      /\ drive[c].offer \in Offer /\ drive \in [Hosts -> Drives]
  BY <1>0, HostFacts, InvTypes DEF Local, CreatorEmit, Driving, TicketOK, Types
<1>2. PICK s : /\ \/ s = State(c)
                  \/ \E heard \in SUBSET drive[c].counters :
                       /\ drive[c].prepared = None /\ drive[c].offer.seq < MaxSeq
                       /\ s = Reoffer(c, State(c), heard)
               /\ Settle(c, TryAggregate(c, CreatorFacts(c, TryFreeze(c, s))))
  BY DEF CreatorEmit
<1>3. LocalStep(c, State(c), s)
  BY <1>1, <1>2, LocalStepReflexive, ReofferLocal
<1>4. drive'[c].book = s.drive.book /\ drive'[c].offer = s.drive.offer
  <2>1. SameBook(s, TryAggregate(c, CreatorFacts(c, TryFreeze(c, s))))
    BY <1>3, CreatorEmitSameBook DEF LocalStep
  <2>2. drive'[c] = TryAggregate(c, CreatorFacts(c, TryFreeze(c, s))).drive
    BY <1>0, <1>1, <1>2 DEF Settle
  <2> QED
    BY <2>1, <2>2 DEF SameBook
<1>5. s = State(c)
  BY <1>1, <1>2, <1>4, ReofferRenews
<1> QED
  BY <1>1, <1>4, <1>5 DEF BookFollows

\* A step of another Host, or one after which c does not drive.
LEMMA OthersFollow ==
  ASSUME NEW c \in Hosts, drive'[c] = drive[c]
  PROVE  BookFollows(drive[c].book, drive'[c].book)
  BY DEF BookFollows

LEMMA StepFollows ==
  ASSUME Inv, [Next]_vars, NEW c \in Creators, Driving(c), Driving(c)',
         drive'[c].offer = drive[c].offer
  PROVE  BookFollows(drive[c].book, drive'[c].book)
<1>0. c \in Hosts /\ drive \in [Hosts -> Drives] /\ drive[c].phase = "Driving"
      /\ drive'[c].phase = "Driving"
  BY InvTypes, NegotiationAssumption DEF Types, Driving
<1>1. ASSUME NEW h \in Hosts, h # c, NEW s, Settle(h, s)
      PROVE  drive'[c] = drive[c]
  BY <1>0, <1>1 DEF Settle
<1>2. ASSUME NEW h \in Creators, CreatorEmit(h)
      PROVE  BookFollows(drive[c].book, drive'[c].book)
  <2>1. CASE h = c
    BY <1>2, <2>1, CreatorEmitFollows
  <2>2. CASE h # c
    BY <1>0, <1>1, <1>2, <2>2, OthersFollow, NegotiationAssumption DEF CreatorEmit
  <2> QED
    BY <2>1, <2>2
<1>3. ASSUME NEW h \in Creators, NEW f \in wire, CreatorHears(h, f)
      PROVE  BookFollows(drive[c].book, drive'[c].book)
  <2>1. CASE h = c
    BY <1>3, <2>1, CreatorHearsFollows
  <2>2. CASE h # c
    BY <1>0, <1>1, <1>3, <2>2, OthersFollow, NegotiationAssumption DEF CreatorHears
  <2> QED
    BY <2>1, <2>2
<1>4. ASSUME NEW h \in Joiners, ParticipantEmit(h) \/ NewExecAgain(h)
      PROVE  BookFollows(drive[c].book, drive'[c].book)
  <2>1. h \in Hosts /\ h # c
    BY DEF Joiners
  <2> QED
    BY <1>0, <1>1, <1>4, <2>1, OthersFollow DEF ParticipantEmit, NewExecAgain
<1>5. ASSUME NEW h \in Joiners, NEW f \in wire, JoinerHears(h, f) \/ ReceiveOffer(h, f)
      PROVE  BookFollows(drive[c].book, drive'[c].book)
  <2>1. h \in Hosts /\ h # c
    BY DEF Joiners
  <2> QED
    BY <1>0, <1>1, <1>5, <2>1, OthersFollow DEF JoinerHears, ReceiveOffer
<1>6. ASSUME NEW h \in Hosts, HostStep(h)
      PROVE  drive'[c] = drive[c]
  <2>1. CASE h # c
    BY <1>0, <1>6, <2>1 DEF HostStep, SessionEnds, Withdraw, DriveFails,
       FinishNegotiation, Crash, Restart
  <2>2. CASE h = c
    <3>1. ~Restart(c) /\ ~SessionEnds(c) /\ ~FinishNegotiation(c)
      BY <1>0 DEF Restart, SessionEnds, FinishNegotiation
    <3>2. ~Withdraw(c) /\ ~DriveFails(c)
      BY <1>0 DEF Withdraw, DriveFails, Drives
    <3>3. ~Crash(c)
      BY <1>0 DEF Crash, NoDrive
    <3> QED
      BY <1>6, <2>2, <3>1, <3>2, <3>3 DEF HostStep
  <2> QED
    BY <2>1, <2>2
<1>7. CASE UNCHANGED drive
  BY <1>0, <1>7, OthersFollow
<1> QED
  BY <1>0, <1>2, <1>3, <1>4, <1>5, <1>6, <1>7, OthersFollow
     DEF Next, Relay, Lapse, ServeFetch, Lose, vars

\* apply_ticket keeps a creator's book honest: while an offer stands, a joiner
\* that the creator has seen withdraw is never counted again, whatever delayed
\* copy of its ticket arrives and however often its daemon starts over.
THEOREM WithdrawalStands == Spec => WithdrawalIsNotUndone
<1>1. Inv /\ [Next]_vars =>
        [\A c \in Creators : \A k \in Joiners :
           (/\ Driving(c) /\ Driving(c)' /\ drive'[c].offer = drive[c].offer
            /\ drive[c].book[k] # None)
             => (drive'[c].book[k].active => drive[c].book[k].active)]_vars
  BY StepFollows DEF BookFollows, Joiners
<1> QED
  BY <1>1, Invariance, PTL DEF Spec, WithdrawalIsNotUndone
=============================================================================
