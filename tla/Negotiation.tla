---------------------------- MODULE Negotiation ----------------------------
(***************************************************************************)
(* Forming a session: offers, tickets, the freeze, activation signatures   *)
(* and the durable activation records (arena0-node machines/negotiation,   *)
(* arena0-store database/activation.rs and request.rs), and how the daemon *)
(* starts, withdraws, ends and resumes a drive (arena0-daemon server.rs).  *)
(*                                                                         *)
(* Every Host has one execution. A creator's negotiation is named by the   *)
(* creator. A SessionHash is the offer and the ticket set it commits to.   *)
(* Facts published on the topic stay on the wire until lost, and any drive *)
(* may read one at any time, again or never: gossip loses, repeats and     *)
(* reorders. Cryptography is perfect: a fact is the fact its signer made.  *)
(*                                                                         *)
(* The set of tickets a joiner collects besides the creator's is only used *)
(* to find peers, so a joiner's book has the creator's slot alone, and the *)
(* frozen tickets the creator repeats are its own.                         *)
(***************************************************************************)
EXTENDS Naturals, FiniteSets

CONSTANTS
  Hosts,              \* PeerIds, which are ordered
  Creators,           \* Hosts whose request is Create; the others Join
  Target,             \* joiner -> the creator its request names, or None
  Params,
  Pref,               \* Host -> params of its request, or None
  TargetSize,
  Fast,               \* Hosts whose clock is ahead by more than MAX_CLOCK_SKEW_MS
  MaxAttempts,        \* REOFFER_MAX_ATTEMPTS
  Lossy,              \* facts on the wire may be lost
  None,
  \* Bounds of the model.
  MaxSeq,             \* offer_seq
  MaxStarts,          \* Host -> restarts of its daemon and repeated requests
  Withdrawers         \* Hosts whose user may withdraw

Offer == [creator : Creators, seq : 0..MaxSeq, params : Params, era : Nat]

Ticket == [host : Hosts, offer : Offer, rev : 0..1, era : Nat, active : BOOLEAN]

Sessions == [offer : Offer, tickets : SUBSET Ticket]

Rows == [status : {"Prepared", "Committed"}, session : Sessions]

ASSUME NegotiationAssumption ==
  /\ Hosts \subseteq Nat /\ IsFiniteSet(Hosts) /\ Params \subseteq Nat
  /\ Creators \subseteq Hosts /\ Fast \subseteq Hosts
  /\ None \notin Nat /\ None \notin Offer /\ None \notin Ticket
  /\ None \notin Sessions /\ None \notin Rows
  /\ Target \in [Hosts \ Creators -> Creators \cup {None}]
  /\ Pref \in [Hosts -> Params \cup {None}]
  /\ \A c \in Creators : Pref[c] # None
  /\ TargetSize \in Nat \ {0, 1}
  /\ MaxAttempts \in Nat /\ MaxSeq \in Nat /\ MaxStarts \in [Hosts -> Nat]
  /\ Lossy \in BOOLEAN /\ Withdrawers \subseteq Hosts

VARIABLES
  request,    \* durable: [failure, bound] of each Host's request row
  record,     \* durable: each Host's activation record, or None
  drive,      \* each Host's negotiation task
  starts,     \* how often a Host has started over: it dates what it signs
  wire,       \* facts in flight on the topic and on fetch streams
  lapsed,     \* offers whose deadline has passed
  acked       \* Hosts whose user was told that the withdrawal took effect

vars == <<request, record, drive, starts, wire, lapsed, acked>>

IsSession(s) ==
  /\ s.offer \in Offer /\ s.tickets \subseteq Ticket
  /\ Cardinality(s.tickets) = TargetSize
  /\ \A t \in s.tickets : t.active /\ t.offer = s.offer

Members(s) == {t.host : t \in s.tickets}

Phases == {"Waiting", "Driving", "Ending", "Done", "Active", "Ended", "Down"}

TypeOK ==
  /\ request \in [Hosts -> [failure : {None, "Withdrawn", "Failed"},
                            bound : Creators \cup {None}]]
  /\ \A h \in Hosts : record[h] # None =>
       /\ record[h].status \in {"Prepared", "Committed"}
       /\ IsSession(record[h].session)
  /\ \A h \in Hosts :
       LET d == drive[h] IN
       /\ d.phase \in Phases
       /\ d.phase = "Driving" => d.offer \in Offer
       /\ d.listed \subseteq Ticket /\ d.ticket \in Ticket \cup {None}
       /\ \A k \in Hosts : d.book[k] # None => d.book[k] \in Ticket
       /\ d.prepared # None => IsSession(d.prepared)
       /\ d.sigs \subseteq Hosts /\ d.counters \subseteq Hosts
  /\ starts \in [Hosts -> Nat]
  /\ lapsed \subseteq Offer /\ acked \subseteq Hosts

----------------------------------------------------------------------------
(* Facts *)

OfferFact(o, ts) == [kind |-> "Offer", offer |-> o, tickets |-> ts]
TicketFact(t) == [kind |-> "Ticket", ticket |-> t]
SignatureFact(h, s) == [kind |-> "ActivationSignature", host |-> h, session |-> s]
AnnouncementFact(s) == [kind |-> "ActivationAnnouncement", session |-> s]
CounterofferFact(h, c) == [kind |-> "Counteroffer", host |-> h, creator |-> c]
FetchFact(h, s) == [kind |-> "FetchActivationTickets", host |-> h, session |-> s]
TicketsFact(h, s) == [kind |-> "ActivationTickets", host |-> h, session |-> s]

Session(o, ts) == [offer |-> o, tickets |-> ts]

----------------------------------------------------------------------------
(* A drive *)

NoDrive(phase) ==
  [phase |-> phase, reason |-> None, offer |-> None, listed |-> {},
   ticket |-> None, book |-> [k \in Hosts |-> None], prepared |-> None,
   pending |-> None, sigs |-> {}, counters |-> {},
   tried |-> [p \in {} |-> 0], attempts |-> 0]

IssueTicket(h, o) ==
  [host |-> h, offer |-> o, rev |-> 0, era |-> starts[h], active |-> TRUE]

\* create_creator_offer: the offer and the ticket that authenticates it. The
\* deadline dates the offer, so one made after a restart has another hash.
CreatorDrive(c, o) ==
  LET t == [IssueTicket(c, o) EXCEPT !.era = o.era] IN
  [NoDrive("Driving") EXCEPT
     !.offer = o, !.listed = {t}, !.ticket = t, !.book[c] = t,
     !.tried = [p \in {o.params} |-> 0]]

FirstOffer(c, era) ==
  [creator |-> c, seq |-> 0, params |-> Pref[c], era |-> era]

FreshDrive(h, era) ==
  IF h \in Creators THEN CreatorDrive(h, FirstOffer(h, era)) ELSE NoDrive("Waiting")

\* NegotiationStart::Resume: the exact evidence and the ticket in it.
ResumedDrive(h, s) ==
  LET TicketOf(k) == CHOOSE t \in s.tickets : t.host = k IN
  [NoDrive("Driving") EXCEPT
     !.offer = s.offer, !.listed = s.tickets, !.ticket = TicketOf(h),
     !.book = [k \in Hosts |-> IF k \in Members(s) THEN TicketOf(k) ELSE None],
     !.prepared = s]

\* apply_ticket: a higher revision replaces; an Active ticket must bind the
\* tracked offer, a Withdrawn one names only its sequence number.
Verifies(t, o) ==
  /\ t.offer.creator = o.creator /\ t.offer.seq = o.seq
  /\ t.active => t.offer = o

ApplyTicketLastWins(book, t, o) ==
  IF Verifies(t, o) THEN [book EXCEPT ![t.host] = t] ELSE book

ApplyTicket(book, t, o) ==
  IF Verifies(t, o) /\ (book[t.host] # None => t.rev > book[t.host].rev)
    THEN [book EXCEPT ![t.host] = t]
    ELSE book

TicketSet(book) == {t \in {book[k] : k \in Hosts} \ {None} : t.active}

\* ticket_prepare_window_ok. Before an offer's deadline every ticket for it is
\* in its window, except that one dated by a fast clock is not valid yet.
InWindow(h, t) == t.host \in Fast => h \in Fast

\* The creator's ticket first, then ascending PeerId: the first TargetSize.
Selection(h, book) ==
  LET usable == {t \in TicketSet(book) : InWindow(h, t)}
      Before(u, t) == /\ u.host # t.host
                      /\ u.host = h \/ (t.host # h /\ u.host < t.host)
  IN {t \in usable : Cardinality({u \in usable : Before(u, t)}) < TargetSize}

----------------------------------------------------------------------------
(* The store. A step works on s = [drive, record, out]: the Host's task, its *)
(* activation row and the facts it has published so far.                     *)

\* ensure_execution_request_matches
RequestMatches(h, s) ==
  /\ request[h].failure = None
  /\ Pref[h] # None => s.offer.params = Pref[h]
  /\ h \notin Creators => request[h].bound = s.offer.creator

\* prepare_activation: compare and set.
PrepareActivation(h, row, s) ==
  IF row = None /\ RequestMatches(h, s)
    THEN [status |-> "Prepared", session |-> s]
    ELSE row

PreparedAs(row, s) == row # None /\ row.session = s

\* commit_activation, which refuses a session other than the prepared one.
CommitActivation(row) == [row EXCEPT !.status = "Committed"]

Fail(s, reason) == [s EXCEPT !.drive.phase = "Ending", !.drive.reason = reason]

Publish(s, facts) == [s EXCEPT !.out = @ \cup facts]

----------------------------------------------------------------------------
(* Creator *)

FreezeTooSoon(h, s) ==
  LET chosen == Selection(h, s.drive.book)
      session == Session(s.drive.offer, chosen)
      row == PrepareActivation(h, s.record, session)
  IN IF s.drive.phase # "Driving" \/ s.drive.prepared # None \/ ~PreparedAs(row, session)
       THEN s
     ELSE Publish([s EXCEPT !.record = row, !.drive.prepared = session,
                            !.drive.listed = chosen, !.drive.sigs = {h}],
                  {OfferFact(s.drive.offer, chosen), SignatureFact(h, session)})

TryFreeze(h, s) ==
  LET chosen == Selection(h, s.drive.book)
      session == Session(s.drive.offer, chosen)
      row == PrepareActivation(h, s.record, session)
  IN IF \/ s.drive.phase # "Driving" \/ s.drive.prepared # None
        \/ s.drive.offer \in lapsed \/ Cardinality(chosen) < TargetSize
       THEN s
     ELSE IF ~PreparedAs(row, session) THEN Fail(s, "Prepare")
     ELSE Publish([s EXCEPT !.record = row, !.drive.prepared = session,
                            !.drive.listed = chosen, !.drive.sigs = {h}],
                  {OfferFact(s.drive.offer, chosen), SignatureFact(h, session)})

AggregateAny(h, s) ==
  IF s.drive.phase = "Driving" /\ s.drive.prepared # None
       /\ Cardinality(s.drive.sigs) + 1 >= TargetSize
    THEN Publish([s EXCEPT !.record = CommitActivation(@), !.drive.phase = "Active"],
                 {AnnouncementFact(s.drive.prepared)})
    ELSE s

TryAggregate(h, s) ==
  IF s.drive.phase = "Driving" /\ s.drive.prepared # None
       /\ Cardinality(s.drive.sigs) >= TargetSize
    THEN Publish([s EXCEPT !.record = CommitActivation(@), !.drive.phase = "Active"],
                 {AnnouncementFact(s.drive.prepared)})
    ELSE s

\* The counteroffer with most support, the lowest params on a tie, if its
\* support is enough and has grown since those params were last offered.
Support(heard, p) == Cardinality({k \in heard : Pref[k] = p})

Candidate(d, heard) ==
  {p \in {Pref[k] : k \in heard} :
     /\ \A q \in Params : \/ Support(heard, q) < Support(heard, p)
                          \/ Support(heard, q) = Support(heard, p) /\ q >= p
     /\ Support(heard, p) + 1 >= TargetSize
     /\ d.attempts < MaxAttempts
     /\ p \in DOMAIN d.tried => d.tried[p] < Support(heard, p)}

\* try_reoffer, when the renewal time has come; heard are the counteroffers
\* that have not expired.
Reoffer(h, s, heard) ==
  LET d == s.drive
      best == Candidate(d, heard)
      p == IF best = {} THEN d.offer.params ELSE CHOOSE q \in best : TRUE
      o == [d.offer EXCEPT !.seq = @ + 1, !.params = p]
      new == CreatorDrive(h, o)
  IN [s EXCEPT !.drive =
        [new EXCEPT
           !.counters = d.counters,
           !.attempts = IF best = {} THEN d.attempts ELSE d.attempts + 1,
           !.tried = IF best = {} THEN d.tried
                     ELSE [q \in DOMAIN d.tried \cup best |->
                             IF q \in best THEN Support(heard, q) ELSE d.tried[q]]]]

\* creator_emit's facts. Offer::new refuses a list longer than TargetSize.
CreatorFacts(h, s) ==
  LET d == s.drive IN
  IF d.phase # "Driving" THEN s
  ELSE IF d.prepared # None
    THEN Publish([s EXCEPT !.drive.sigs = @ \cup {h}],
                 {OfferFact(d.offer, d.listed), TicketFact(d.ticket),
                  SignatureFact(h, d.prepared)})
  ELSE IF Cardinality(TicketSet(d.book)) > TargetSize THEN Fail(s, "Signing")
  ELSE Publish(s, {OfferFact(d.offer, TicketSet(d.book)), TicketFact(d.ticket)})

CreatorOnTicket(h, s, t) ==
  TryAggregate(h, TryFreeze(h,
    [s EXCEPT !.drive.book = ApplyTicket(@, t, s.drive.offer)]))

OnActivationSignature(h, s, f) ==
  IF s.drive.prepared = f.session /\ f.host \in Members(f.session)
    THEN TryAggregate(h, [s EXCEPT !.drive.sigs = @ \cup {f.host}])
    ELSE s

----------------------------------------------------------------------------
(* Joiner *)

AcceptsTerms(h, o) == Pref[h] # None => o.params = Pref[h]

\* ensure_local_ticket: only an offer that the creator's Active ticket
\* authenticates, on terms the request prefers.
EnsureLocalTicket(h, s) ==
  LET d == s.drive
      t == IssueTicket(h, d.offer)
      c == d.book[d.offer.creator]
  IN IF d.ticket = None /\ AcceptsTerms(h, d.offer) /\ c # None /\ (c # None => c.active)
       THEN Publish([s EXCEPT !.drive.ticket = t], {TicketFact(t)})
       ELSE s

TryFetch(h, s) ==
  LET d == s.drive IN
  IF d.prepared = None /\ d.ticket # None /\ Cardinality(d.listed) = TargetSize
    THEN Publish(s, {FetchFact(h, Session(d.offer, d.listed))})
    ELSE s

\* on_offer: a prepared drive stays with its session; a later offer waits for
\* the creator's ticket; the current one may list more tickets than before.
OnOffer(h, s, f) ==
  LET d == s.drive IN
  IF f.offer.creator # d.offer.creator THEN s
  ELSE IF f.offer.seq # d.offer.seq
    THEN IF d.prepared = None /\ f.offer.seq > d.offer.seq /\ AcceptsTerms(h, f.offer)
           THEN [s EXCEPT !.drive.pending = f] ELSE s
  ELSE IF f.offer # d.offer THEN s
  ELSE TryFetch(h, [s EXCEPT !.drive.listed = f.tickets])

SwitchOffer(h, s, f, t) ==
  [s EXCEPT !.drive =
     [NoDrive("Driving") EXCEPT
        !.offer = f.offer, !.listed = f.tickets,
        !.book[t.host] = t, !.ticket = IssueTicket(h, f.offer)]]

JoinerOnTicket(h, s, t) ==
  LET d == s.drive
      book == ApplyTicket(d.book, t, d.offer)
  IN IF t.host # d.offer.creator THEN TryFetch(h, s)
     ELSE IF t.offer.seq > d.offer.seq
       THEN IF d.pending # None /\ t.active
                 /\ (d.pending # None => d.pending.offer = t.offer)
              THEN TryFetch(h, SwitchOffer(h, s, d.pending, t))
              ELSE TryFetch(h, s)
     ELSE IF book = d.book THEN TryFetch(h, s)
     ELSE TryFetch(h, EnsureLocalTicket(h, [s EXCEPT !.drive.book = book]))

SignBeforePrepare(h, s, f) ==
  LET d == s.drive
      row == PrepareActivation(h, s.record, f.session)
  IN IF d.prepared # None \/ f.session # Session(d.offer, d.listed) \/ d.ticket = None
       THEN s
     ELSE Publish([s EXCEPT !.record = row, !.drive.prepared = f.session],
                  {SignatureFact(h, f.session)})

\* consume_fetch: prepare durably, then sign.
ConsumeFetch(h, s, f) ==
  LET d == s.drive
      row == PrepareActivation(h, s.record, f.session)
  IN IF \/ d.prepared # None \/ f.session # Session(d.offer, d.listed)
        \/ d.ticket = None \/ d.offer \in lapsed
        \/ \E t \in d.listed : ~InWindow(h, t)
       THEN s
     ELSE IF d.ticket \notin d.listed THEN Fail(s, "NotSelected")
     ELSE IF ~PreparedAs(row, f.session) THEN Fail(s, "Prepare")
     ELSE Publish([s EXCEPT !.record = row, !.drive.prepared = f.session],
                  {SignatureFact(h, f.session)})

OnAnnouncement(h, s, f) ==
  IF s.drive.prepared = f.session
    THEN [s EXCEPT !.record = CommitActivation(@), !.drive.phase = "Active"]
    ELSE s

JoinerFacts(h, s) ==
  LET d == s.drive IN
  Publish(s, (IF d.ticket = None THEN {} ELSE {TicketFact(d.ticket)})
        \cup (IF Pref[h] = None THEN {} ELSE {CounterofferFact(h, d.offer.creator)})
        \cup (IF d.prepared = None THEN {} ELSE {SignatureFact(h, d.prepared)}))

----------------------------------------------------------------------------
(* Actions *)

Init ==
  /\ request = [h \in Hosts |->
       [failure |-> None, bound |-> IF h \in Creators THEN None ELSE Target[h]]]
  /\ record = [h \in Hosts |-> None]
  /\ starts = [h \in Hosts |-> 0]
  /\ drive = [h \in Hosts |-> FreshDrive(h, 0)]
  /\ wire = {} /\ lapsed = {} /\ acked = {}

State(h) == [drive |-> drive[h], record |-> record[h], out |-> {}]

\* What a handler of h leaves behind.
Settle(h, s) ==
  /\ drive' = [drive EXCEPT ![h] = s.drive]
  /\ record' = [record EXCEPT ![h] = s.record]
  /\ wire' = wire \cup s.out
  /\ UNCHANGED <<request, starts, lapsed, acked>>

Driving(h) == drive[h].phase = "Driving"

\* emit_periodic, at a cadence tick or when a neighbour appears. The creator
\* renews an unfrozen offer some time before its deadline, and at the latest
\* when it has passed.
CreatorEmit(c) ==
  /\ Driving(c)
  /\ \E s \in
       (IF drive[c].prepared = None /\ drive[c].offer \in lapsed
          THEN {} ELSE {State(c)}) \cup
       {Reoffer(c, State(c), heard) : heard \in
          IF drive[c].prepared = None /\ drive[c].offer.seq < MaxSeq
            THEN SUBSET drive[c].counters ELSE {}} :
       Settle(c, TryAggregate(c, CreatorFacts(c, TryFreeze(c, s))))

ParticipantEmit(h) ==
  /\ Driving(h)
  /\ Settle(h, TryFetch(h, JoinerFacts(h, EnsureLocalTicket(h, State(h)))))

\* on_fact. The topic does not echo a publisher's facts.
CreatorHears(c, f) ==
  /\ Driving(c)
  /\ \/ /\ f.kind = "Ticket" /\ f.ticket.host # c
        /\ Settle(c, CreatorOnTicket(c, State(c), f.ticket))
     \/ /\ f.kind = "ActivationSignature" /\ f.host # c
        /\ Settle(c, OnActivationSignature(c, State(c), f))
     \/ /\ f.kind = "Counteroffer" /\ f.creator = c
        /\ Settle(c, [State(c) EXCEPT !.drive.counters = @ \cup {f.host}])

JoinerHears(h, f) ==
  /\ Driving(h)
  /\ \/ /\ f.kind = "Offer"
        /\ Settle(h, OnOffer(h, State(h), f))
     \/ /\ f.kind = "Ticket" /\ f.ticket.host # h
        /\ f.ticket.offer.creator = drive[h].offer.creator
        /\ Settle(h, JoinerOnTicket(h, State(h), f.ticket))
     \/ /\ f.kind = "ActivationTickets" /\ f.host = h
        /\ f.session.offer.creator = drive[h].offer.creator
        /\ Settle(h, ConsumeFetch(h, State(h), f))
     \/ /\ f.kind = "ActivationAnnouncement"
        /\ Settle(h, OnAnnouncement(h, State(h), f))

\* receive_offer, then bind_join_target: an incomplete offer and the creator's
\* Active ticket it lists first. The binding is durable before anything is
\* signed.
JoinTargetFree(h, f) == request[h].bound \in {None, f.offer.creator}

ReceiveUnbound(h, f) ==
  /\ drive[h].phase = "Waiting"
  /\ f.kind = "Offer" /\ f.offer.creator # h
  /\ Cardinality(f.tickets) < TargetSize /\ f.offer \notin lapsed
  /\ JoinTargetFree(h, f)
  /\ \E t \in f.tickets :
       /\ t.host = f.offer.creator /\ TicketFact(t) \in wire /\ InWindow(h, t)
       /\ drive' = [drive EXCEPT ![h] =
            [NoDrive("Driving") EXCEPT !.offer = f.offer, !.listed = f.tickets,
                                       !.book[t.host] = t]]
  /\ UNCHANGED <<request, record, starts, wire, lapsed, acked>>

ReceiveOffer(h, f) ==
  /\ drive[h].phase = "Waiting"
  /\ f.kind = "Offer" /\ f.offer.creator # h
  /\ Cardinality(f.tickets) < TargetSize /\ f.offer \notin lapsed
  /\ JoinTargetFree(h, f)
  /\ \E t \in f.tickets :
       /\ t.host = f.offer.creator /\ TicketFact(t) \in wire /\ InWindow(h, t)
       /\ drive' = [drive EXCEPT ![h] =
            [NoDrive("Driving") EXCEPT !.offer = f.offer, !.listed = f.tickets,
                                       !.book[t.host] = t]]
  /\ request' = [request EXCEPT ![h].bound = f.offer.creator]
  /\ UNCHANGED <<record, starts, wire, lapsed, acked>>

\* The creator serves a fetch from its frozen evidence, and the relay of a
\* committed session from the activation record.
ServeFetch(c, f) ==
  /\ drive[c].phase \in {"Driving", "Active"}
  /\ f.kind = "FetchActivationTickets"
  /\ PreparedAs(record[c], f.session)
  /\ wire' = wire \cup {TicketsFact(f.host, f.session)}
  /\ UNCHANGED <<request, record, drive, starts, lapsed, acked>>

\* run_session_relay: while the session is live the creator repeats the
\* announcement and its ticket.
RelayNothing(c) ==
  /\ drive[c].phase = "Active"
  /\ UNCHANGED vars

Relay(c) ==
  /\ drive[c].phase = "Active"
  /\ LET s == record[c].session IN
     wire' = wire \cup {AnnouncementFact(s)}
                  \cup {TicketFact(t) : t \in {u \in s.tickets : u.host = c}}
  /\ UNCHANGED <<request, record, drive, starts, lapsed, acked>>

\* The session ends, and the relay with it.
SessionEnds(h) ==
  /\ drive[h].phase = "Active"
  /\ drive' = [drive EXCEPT ![h] = NoDrive("Ended")]
  /\ UNCHANGED <<request, record, starts, wire, lapsed, acked>>

\* exec.withdraw. With a ticket the drive publishes its successor and answers
\* at once; without one it stops, and the caller waits for the row.
Withdraw(h) ==
  /\ h \in Withdrawers /\ drive[h].phase \in {"Waiting", "Driving"}
  /\ record[h] = None
  /\ drive' = [drive EXCEPT ![h].phase = "Ending", ![h].reason = "Withdrawn"]
  /\ IF drive[h].ticket = None
       THEN UNCHANGED <<wire, acked>>
       ELSE /\ wire' = wire \cup {TicketFact([drive[h].ticket EXCEPT
                                                !.rev = @ + 1, !.active = FALSE])}
            /\ acked' = acked \cup {h}
  /\ UNCHANGED <<request, record, starts, lapsed>>

\* A deadline, or a topic that cannot be published to or rejoined.
DriveFails(h) ==
  /\ drive[h].phase \in {"Waiting", "Driving"}
  /\ drive' = [drive EXCEPT ![h].phase = "Ending", ![h].reason = "Failed"]
  /\ UNCHANGED <<request, record, starts, wire, lapsed, acked>>

\* finish_negotiation and record_negotiation_failure: an activation record
\* is resumable evidence and never becomes a failure.
FinishAlwaysFails(h) ==
  /\ drive[h].phase = "Ending"
  /\ request' = [request EXCEPT ![h].failure =
       IF @ # None THEN @
       ELSE IF drive[h].reason = "Withdrawn" THEN "Withdrawn" ELSE "Failed"]
  /\ acked' = IF request'[h].failure = "Withdrawn" THEN acked \cup {h} ELSE acked
  /\ drive' = [drive EXCEPT ![h] = NoDrive("Done")]
  /\ UNCHANGED <<record, starts, wire, lapsed>>

FinishDropsRecord(h) ==
  /\ drive[h].phase = "Ending"
  /\ record' = [record EXCEPT ![h] = None]
  /\ drive' = [drive EXCEPT ![h] = NoDrive("Done")]
  /\ UNCHANGED <<request, starts, wire, lapsed, acked>>

FinishNegotiation(h) ==
  /\ drive[h].phase = "Ending"
  /\ request' = [request EXCEPT ![h].failure =
       IF record[h] # None \/ @ # None THEN @
       ELSE IF drive[h].reason = "Withdrawn" THEN "Withdrawn" ELSE "Failed"]
  /\ acked' = IF request'[h].failure = "Withdrawn" THEN acked \cup {h} ELSE acked
  /\ drive' = [drive EXCEPT ![h] = NoDrive("Done")]
  /\ UNCHANGED <<record, starts, wire, lapsed>>

Crash(h) ==
  /\ drive[h].phase # "Down" /\ starts[h] < MaxStarts[h]
  /\ drive' = [drive EXCEPT ![h] = NoDrive("Down")]
  /\ UNCHANGED <<request, record, starts, wire, lapsed, acked>>

\* resume_durable: no record, drive anew; prepared, resume the exact
\* evidence; committed, straight to the actor and the relay.
Restart(h) ==
  /\ drive[h].phase = "Down"
  /\ starts' = [starts EXCEPT ![h] = @ + 1]
  /\ drive' = [drive EXCEPT ![h] =
       IF record[h] # None
         THEN IF record[h].status = "Committed" THEN NoDrive("Active")
              ELSE ResumedDrive(h, record[h].session)
       ELSE IF request[h].failure # None THEN NoDrive("Done")
       ELSE FreshDrive(h, starts[h] + 1)]
  /\ UNCHANGED <<request, record, wire, lapsed, acked>>

\* exec.new repeated for an execution without a task. A targeted Join matches
\* its request row and starts a fresh drive whatever the other rows say.
NewExecAgain(h) ==
  /\ h \notin Creators /\ drive[h].phase = "Done"
  /\ Target[h] # None \/ request[h].bound = None
  /\ starts[h] < MaxStarts[h]
  /\ starts' = [starts EXCEPT ![h] = @ + 1]
  /\ drive' = [drive EXCEPT ![h] = FreshDrive(h, starts[h] + 1)]
  /\ UNCHANGED <<request, record, wire, lapsed, acked>>

\* The deadline of an offer passes. The last offer within the bound does so
\* only when it is frozen.
Lapse(c) ==
  /\ drive[c].phase = "Driving"
  /\ drive[c].prepared = None => drive[c].offer.seq < MaxSeq
  /\ lapsed' = lapsed \cup {drive[c].offer}
  /\ UNCHANGED <<request, record, drive, starts, wire, acked>>

Lose(f) ==
  /\ Lossy
  /\ wire' = wire \ {f}
  /\ UNCHANGED <<request, record, drive, starts, lapsed, acked>>

Joiners == Hosts \ Creators

HostStep(h) ==
  \/ SessionEnds(h) \/ Withdraw(h) \/ DriveFails(h) \/ FinishNegotiation(h)
  \/ Crash(h) \/ Restart(h)

Next ==
  \/ \E c \in Creators :
       \/ CreatorEmit(c) \/ Relay(c) \/ Lapse(c)
       \/ \E f \in wire : CreatorHears(c, f) \/ ServeFetch(c, f)
  \/ \E h \in Joiners :
       \/ ParticipantEmit(h) \/ NewExecAgain(h)
       \/ \E f \in wire : JoinerHears(h, f) \/ ReceiveOffer(h, f)
  \/ \E h \in Hosts : HostStep(h)
  \/ \E f \in wire : Lose(f)

Spec == Init /\ [][Next]_vars

\* The cadence and the relay tick for ever, a daemon that died is started
\* again, a fact that is repeated for ever is heard in the end, and an offer
\* that nobody repeats leaves the network.
Heard(c, h, f) ==
  /\ \/ f.kind = "Ticket" /\ f.ticket.host = h
     \/ f.kind = "ActivationSignature" /\ f.host = h
  /\ CreatorHears(c, f) /\ drive' # drive

Fairness ==
  /\ \A c \in Creators :
       /\ WF_vars(CreatorEmit(c)) /\ WF_vars(Relay(c))
       /\ WF_vars(FinishNegotiation(c)) /\ WF_vars(Restart(c))
       /\ SF_vars(\E f \in wire : ServeFetch(c, f) /\ wire' # wire)
       /\ \A h \in Joiners : SF_vars(\E f \in wire : Heard(c, h, f))
  /\ \A h \in Joiners :
       /\ WF_vars(ParticipantEmit(h)) /\ WF_vars(FinishNegotiation(h))
       /\ WF_vars(Restart(h))
       /\ \A k \in {"Offer", "Ticket", "ActivationTickets", "ActivationAnnouncement"} :
            SF_vars(\E f \in wire : f.kind = k /\ JoinerHears(h, f) /\ drive' # drive)
  /\ WF_vars(\E f \in wire : /\ f.kind = "Offer" /\ Cardinality(f.tickets) < TargetSize
                             /\ Lose(f))

FairSpec == Spec /\ Fairness

----------------------------------------------------------------------------
(* Properties *)

Committed(h) == record[h] # None /\ (record[h] # None => record[h].status = "Committed")

\* A committed session is unanimous: every Host it names holds a durable record
\* of exactly that session. Whatever is lost, withdrawn, repeated or restarted,
\* no Host starts a session that another selected Host never consented to, and
\* two Hosts of one negotiation never start different sessions.
CommitIsUnanimous ==
  \A h \in Hosts : Committed(h) =>
    \A m \in Members(record[h].session) : PreparedAs(record[m], record[h].session)

\* A signature on the wire belongs to a Host that holds the session durably:
\* prepare precedes sign, and a restart or a repeated request never signs a
\* second session for the same execution.
SignedIsPrepared ==
  \A f \in wire : f.kind = "ActivationSignature" => PreparedAs(record[f.host], f.session)

\* A failed request and an activation record exclude each other: a late
\* withdrawal, a deadline or a second drive cannot fail what was prepared, nor
\* prepare what has failed.
FailureExcludesActivation ==
  \A h \in Hosts : request[h].failure # None => record[h] = None

\* A joiner signs tickets for one negotiation only, the one its request row is
\* durably bound to, across restarts that make it choose an offer again.
TicketsNameTheBoundNegotiation ==
  \A f \in wire : f.kind = "Ticket" /\ f.ticket.host \in Joiners =>
    request[f.ticket.host].bound = f.ticket.offer.creator

\* An activation record is permanent: no step replaces its session or takes a
\* commit back, although a repeated request may drive another session to the
\* same row.
RecordsArePermanent ==
  [][\A h \in Hosts : record[h] # None =>
       /\ PreparedAs(record'[h], record[h].session)
       /\ Committed(h) => record'[h] = record[h]]_vars

\* A withdrawal the creator has seen is not undone by a delayed copy of the
\* ticket it replaced, nor by the first ticket of a restarted joiner.
WithdrawalIsNotUndone ==
  [][\A c \in Creators : \A k \in Joiners :
       (/\ Driving(c) /\ Driving(c)' /\ drive'[c].offer = drive[c].offer
        /\ drive[c].book[k] # None)
         => (drive'[c].book[k].active => drive[c].book[k].active)]_vars

\* What the creator committed reaches the others: a joiner that is prepared and
\* driving commits too, although the announcement is lost any number of times,
\* unless its deadline passes or the creator's session ends first.
CommitSpreads ==
  \A h \in Joiners : \A c \in Creators :
    (/\ record[h] # None /\ Driving(h) /\ drive[h].prepared # None
     /\ Committed(c) /\ PreparedAs(record[h], record[c].session))
      ~> \/ Committed(h) \/ drive[h].phase \in {"Ending", "Done"}
         \/ drive[c].phase \in {"Ended", "Down"}

\* A frozen set is committed unless a selected drive ends or the offer lapses
\* first: a lost fetch, ticket list or signature is repeated until it arrives.
FreezeCompletes ==
  \A c \in Creators :
    (Driving(c) /\ drive[c].prepared # None)
      ~> \/ Committed(c) \/ drive[c].phase \in {"Ending", "Done", "Down"}
         \/ drive[c].offer \in lapsed
         \/ record[c] # None /\ \E m \in Members(record[c].session) \ {c} :
              ~Driving(m) \/ drive[m].ticket \notin record[c].session.tickets
=============================================================================
