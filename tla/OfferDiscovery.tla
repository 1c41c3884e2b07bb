--------------------------- MODULE OfferDiscovery ---------------------------
(***************************************************************************)
(* Discovery of open offers on one Host: the program catalog, the watcher  *)
(* task of every registered program, the pairing of offers with their      *)
(* creators' tickets, and the book of open offers that clients list.       *)
(*                                                                         *)
(* Creators and gossip are the environment: a published fact reaches a     *)
(* watcher any number of times, in any order, or never.  A negotiation     *)
(* belongs to one program and one creator.  A ticket is identified by its  *)
(* offer's sequence number, its signer and its revision; an offer names    *)
(* its creator's ticket by its revision and, when complete, the ticket of  *)
(* the one joiner.  Time is a small counter that never moves during a      *)
(* step; windows and deadlines are points of it.                           *)
(***************************************************************************)
EXTENDS Integers, FiniteSets

CONSTANTS Programs,       \* program hashes
          Bundled,        \* the embedded ones, registered at every start
          Clients,        \* concurrent API callers
          Spares,         \* negotiations per program are 1..Spares
          MaxSeq,         \* bound: offer sequence numbers
          MaxRev,         \* bound: revisions of a creator's ticket
          MaxTime,        \* bound: the clock
          Ends, Untils,   \* deadlines of offers and ends of tickets' windows
          MaxOpenOffers,  \* MAX_OPEN_OFFERS
          PendingFacts,   \* PENDING_FACTS
          MaxTasks,       \* bound: watcher tasks alive at once
          MaxFaults       \* bound: failed subscriptions, lags and restarts

DiscoveryAssumption ==
    /\ Bundled \subseteq Programs /\ Spares \in Nat /\ MaxSeq \in Nat \ {0} /\ MaxRev \in Nat /\ MaxTime \in Nat
    /\ Ends \subseteq Nat /\ Untils \subseteq Nat
    /\ MaxOpenOffers \in Nat \ {0} /\ PendingFacts \in Nat \ {0}
    /\ MaxTasks \in Nat \ {0} /\ MaxFaults \in Nat

VARIABLES registered,  \* the active programs of the store
          requests,    \* what each client's request has done so far
          watchers,    \* the registry of watcher tasks, 0 for none
          tasks,       \* the watcher tasks
          entries,     \* the book of open offers
          observed,    \* negotiations an observer of the events takes for open
          evicted,     \* history: negotiations dropped without an event
          published,   \* facts on the topics
          now, faults
book == <<entries, observed, evicted>>
vars == <<registered, requests, watchers, tasks, book, published, now, faults>>

Negs == Programs \X (1..Spares)
Idle == [op |-> "idle"]
NoEntry == [seq |-> 0]

---------------------------------------------------------------------------
(* Facts *)

OpenOffer(n, s, r, d) == [kind |-> "offer", neg |-> n, seq |-> s, rev |-> r, full |-> FALSE, end |-> d]
FullOffer(o) == [o EXCEPT !.full = TRUE]
ActiveTicket(n, s, signer, r, until) ==
    [kind |-> "ticket", neg |-> n, seq |-> s, signer |-> signer, rev |-> r, until |-> until]

Offers(n) == {f \in published : f.kind = "offer" /\ f.neg = n}
Completed(n) == \E o \in Offers(n) : o.full
Latest(n) == CHOOSE o \in Offers(n) : \A p \in Offers(n) :
                 p.seq < o.seq \/ (p.seq = o.seq /\ p.rev <= o.rev)

\* The creator's ticket still covers the window a Join needs.
HasWindow(ticket) == ticket.until >= now

CreatorTicketMatches(o, t) ==
    t.signer = "creator" /\ t.neg = o.neg /\ t.seq = o.seq /\ t.rev = o.rev /\ HasWindow(t)

\* Every ticket a complete offer lists was seen, the creator's with its window.
CompleteIsProven(o, seen) ==
    /\ \E t \in seen : CreatorTicketMatches(o, t)
    /\ \E t \in seen : t.neg = o.neg /\ t.seq = o.seq /\ t.signer = "joiner"

SameOffer(o, p) == o.neg = p.neg /\ o.seq = p.seq
SameTicket(t, u) == t.neg = u.neg /\ t.seq = u.seq /\ t.signer = u.signer

\* A pending map takes a fact in place of those with the same key; a full one
\* first drops any entry.
Admit(facts, fact, same) ==
    {(kept \ same) \cup {fact} :
        kept \in IF Cardinality(facts) >= PendingFacts
                 THEN {facts \ {f} : f \in facts} ELSE {facts}}

---------------------------------------------------------------------------
(* The book *)

Listed == {n \in Negs : entries[n].seq > 0}

Superseded(n, o) == o.seq < entries[n].seq

Announce(n, o) == IF entries[n].seq = 0 THEN observed \cup {n} ELSE observed

\* Insert or refresh an entry; an overfull book drops its oldest one unsaid.
Insert(o) ==
    LET n == o.neg
        seen == IF entries[n].seq = 0 THEN now ELSE entries[n].seen
        next == [entries EXCEPT ![n] = [seq |-> o.seq, end |-> o.end, seen |-> seen]]
        present == {m \in Negs : next[m].seq > 0}
        oldest == {m \in present : \A k \in present : next[m].seen <= next[k].seen}
    IN  IF Superseded(n, o) THEN UNCHANGED book
        ELSE /\ observed' = Announce(n, o)
             /\ IF Cardinality(present) <= MaxOpenOffers
                THEN entries' = next /\ evicted' = evicted \ {n}
                ELSE \E m \in oldest :
                        /\ entries' = [next EXCEPT ![m] = NoEntry]
                        /\ evicted' = (evicted \ {n}) \cup {m}

\* Remove a set of entries and announce each of them closed.
Remove(gone) ==
    LET present == gone \cap Listed
    IN  /\ entries' = [n \in Negs |-> IF n \in present THEN NoEntry ELSE entries[n]]
        /\ observed' = observed \ present
        /\ UNCHANGED evicted

Close(n) == Remove({n})
Expired == {n \in Listed : entries[n].end <= now}
OfProgram(p) == {n \in Negs : n[1] = p}

\* The periodic sweep; a listing client runs the same expiry first.
Sweep ==
    /\ Expired # {} /\ Remove(Expired)
    /\ UNCHANGED <<registered, requests, watchers, tasks, published, now, faults>>

---------------------------------------------------------------------------
(* Watcher tasks *)

FreeTask == [st |-> "free"]
NewTask(p) == [st |-> "subscribing", prog |-> p, aborted |-> FALSE, fact |-> {},
               offers |-> {}, tickets |-> {}, seen |-> {}, complete |-> {}]
Slots == {k \in 1..MaxTasks : tasks[k].st = "free"}
Running(k) == tasks[k].st \in {"subscribing", "watching", "holding"}
Finished(k) == IF k \in {watchers[p] : p \in Programs} THEN [st |-> "ended"] ELSE FreeTask

\* watch_offers under the task and registry locks.
WatchOffers(p) ==
    IF watchers[p] # 0 THEN UNCHANGED <<watchers, tasks>>
    ELSE \E k \in Slots : /\ \A j \in Slots : k <= j
                          /\ tasks' = [tasks EXCEPT ![k] = NewTask(p)]
                          /\ watchers' = [watchers EXCEPT ![p] = k]

\* unwatch_offers: an abort reaches the task at its next await.
UnwatchOffers(p) ==
    /\ watchers' = [watchers EXCEPT ![p] = 0]
    /\ tasks' = [k \in 1..MaxTasks |->
                    CASE k # watchers[p] -> tasks[k]
                      [] tasks[k].st = "ended" -> FreeTask
                      [] OTHER -> [tasks[k] EXCEPT !.aborted = TRUE]]
    /\ Remove(OfProgram(p))

\* The first subscription, and the one after a lag or a closed topic.
Subscribe(k) ==
    /\ tasks[k].st = "subscribing" /\ ~tasks[k].aborted
    /\ tasks' = [tasks EXCEPT ![k].st = "watching"]
    /\ UNCHANGED <<registered, requests, watchers, book, published, now, faults>>

Lag(k) ==
    /\ tasks[k].st = "watching" /\ ~tasks[k].aborted /\ faults < MaxFaults
    /\ tasks' = [tasks EXCEPT ![k].st = "subscribing"] /\ faults' = faults + 1
    /\ UNCHANGED <<registered, requests, watchers, book, published, now>>

\* A failed or timed out subscription or receive ends the task; its handle
\* stays in the registry.
TaskFails(k) ==
    /\ tasks[k].st \in {"subscribing", "watching"} /\ faults < MaxFaults
    /\ tasks' = [tasks EXCEPT ![k] = Finished(k)] /\ faults' = faults + 1
    /\ UNCHANGED <<registered, requests, watchers, book, published, now>>

\* An aborted task is dropped at an await.
Cancelled(k) ==
    /\ tasks[k].st \in {"subscribing", "watching"} /\ tasks[k].aborted
    /\ tasks' = [tasks EXCEPT ![k] = FreeTask]
    /\ UNCHANGED <<registered, requests, watchers, book, published, now, faults>>

\* A fact is received; the lock for handling it comes next.
Receive(k, fact) ==
    /\ tasks[k].st = "watching" /\ ~tasks[k].aborted /\ fact.neg[1] = tasks[k].prog
    /\ tasks' = [tasks EXCEPT ![k].st = "holding", ![k].fact = {fact}]
    /\ UNCHANGED <<registered, requests, watchers, book, published, now, faults>>

Handled(k, t) == tasks' = [tasks EXCEPT ![k] = [t EXCEPT !.st = "watching", !.fact = {}]]
Purged(t, n) == [t EXCEPT !.offers = {o \in @ : o.neg # n}, !.tickets = {u \in @ : u.neg # n},
                          !.complete = {o \in @ : o.neg # n}]

\* A complete offer closes its entry once every ticket it lists is proven.
OnComplete(k, o) ==
    LET t == tasks[k]
    IN  IF CompleteIsProven(o, t.seen)
        THEN Close(o.neg) /\ Handled(k, Purged(t, o.neg))
        ELSE /\ \E held \in Admit(t.complete, o, {c \in t.complete : c.neg = o.neg}) :
                    Handled(k, [t EXCEPT !.complete = held])
             /\ UNCHANGED book

OnOffer(k, o) ==
    LET t == tasks[k]
        match == {u \in t.tickets : CreatorTicketMatches(o, u)}
    IN  IF match # {} THEN Insert(o) /\ Handled(k, [t EXCEPT !.tickets = @ \ match])
        ELSE /\ \E p \in Admit(t.offers, o, {c \in t.offers : SameOffer(c, o)}) : Handled(k, [t EXCEPT !.offers = p])
             /\ UNCHANGED book

\* A ticket proves complete offers held back for it, then pairs with an open
\* offer of its creator or waits for one.
OnTicket(k, u) ==
    \E seen \in Admit(tasks[k].seen, u, {u}) :
        LET proven == {o \in tasks[k].complete : o.neg = u.neg /\ CompleteIsProven(o, seen)}
            seenIt == [tasks[k] EXCEPT !.seen = seen]
            t == IF proven = {} THEN seenIt ELSE Purged(seenIt, u.neg)
            match == {o \in t.offers : CreatorTicketMatches(o, u)}
        IN  IF match # {}
            THEN \E o \in match : Insert(o) /\ Handled(k, [t EXCEPT !.offers = @ \ match])
            ELSE /\ \E p \in Admit(t.tickets, u, {c \in t.tickets : SameTicket(c, u)}) : Handled(k, [t EXCEPT !.tickets = p])
                 /\ IF proven = {} THEN UNCHANGED book ELSE Close(u.neg)

\* Mutant: an aborted task handles the fact it already holds.
HandleUnchecked(k) ==
    /\ tasks[k].st = "holding"
    /\ \E fact \in tasks[k].fact :
          CASE fact.kind = "ticket" -> OnTicket(k, fact)
            [] fact.full -> OnComplete(k, fact)
            [] OTHER -> OnOffer(k, fact)
    /\ UNCHANGED <<registered, requests, watchers, published, now, faults>>
\* The registry lock is held through the whole mutation.
Handle(k) ==
    /\ tasks[k].st = "holding"
    /\ \E fact \in tasks[k].fact :
          IF watchers[tasks[k].prog] = 0
          THEN tasks' = [tasks EXCEPT ![k] = FreeTask] /\ UNCHANGED book
          ELSE CASE fact.kind = "ticket" -> OnTicket(k, fact)
                 [] fact.full -> OnComplete(k, fact)
                 [] OTHER -> OnOffer(k, fact)
    /\ UNCHANGED <<registered, requests, watchers, published, now, faults>>

---------------------------------------------------------------------------
(* Requests of clients *)

\* The store registers a program or reactivates a removed one.
Register(p) == registered' = registered \cup {p}
Unregister(p) == p \in registered /\ registered' = registered \ {p}

\* program.import: the artifact is validated and registered.
ImportRegisters(c, p) ==
    /\ requests[c].op = "idle"
    /\ Register(p)
    /\ requests' = [requests EXCEPT ![c] = [op |-> "import", prog |-> p]]
    /\ UNCHANGED <<watchers, tasks, book, published, now, faults>>

ImportWatches(c) ==
    /\ requests[c].op = "import" /\ WatchOffers(requests[c].prog)
    /\ requests' = [requests EXCEPT ![c] = Idle]
    /\ UNCHANGED <<registered, book, published, now, faults>>

\* program.remove of an active program; any other reference is an error.
RemoveFromStore(c, p) ==
    /\ requests[c].op = "idle" /\ Unregister(p)
    /\ requests' = [requests EXCEPT ![c] = [op |-> "remove", prog |-> p]]
    /\ UNCHANGED <<watchers, tasks, book, published, now, faults>>

RemoveUnwatches(c) ==
    /\ requests[c].op = "remove" /\ UnwatchOffers(requests[c].prog)
    /\ requests' = [requests EXCEPT ![c] = Idle]
    /\ UNCHANGED <<registered, published, now, faults>>

\* negotiation.offers: expiry and the copy of the entries are two critical
\* sections.
ListExpires(c) ==
    /\ requests[c].op = "idle" /\ Expired # {} /\ Remove(Expired)
    /\ requests' = [requests EXCEPT ![c] = [op |-> "list"]]
    /\ UNCHANGED <<registered, watchers, tasks, published, now, faults>>

ListReads(c) ==
    /\ requests[c].op = "list"
    /\ requests' = [requests EXCEPT ![c] = Idle]
    /\ UNCHANGED <<registered, watchers, tasks, book, published, now, faults>>

---------------------------------------------------------------------------
(* Creators and time *)

Tick == /\ now < MaxTime /\ now' = now + 1
        /\ UNCHANGED <<registered, requests, watchers, tasks, book, published, faults>>

\* A creator opens a negotiation, or offers new terms.
PublishOffer(n, end, until) ==
    LET s == IF Offers(n) = {} THEN 1 ELSE Latest(n).seq + 1
    IN  /\ ~Completed(n) /\ s <= MaxSeq
        /\ published' = published \cup
              {OpenOffer(n, s, 0, end), ActiveTicket(n, s, "creator", 0, until)}
        /\ UNCHANGED <<registered, requests, watchers, tasks, book, now, faults>>

\* A creator renews its ticket under the same terms.
RenewTicket(n, until) ==
    /\ Offers(n) # {} /\ ~Completed(n) /\ Latest(n).rev < MaxRev
    /\ published' = published \cup
          {[Latest(n) EXCEPT !.rev = @ + 1],
           ActiveTicket(n, Latest(n).seq, "creator", Latest(n).rev + 1, until)}
    /\ UNCHANGED <<registered, requests, watchers, tasks, book, now, faults>>

\* A joiner tickets the current terms and the creator completes the offer.
Complete(n) ==
    /\ Offers(n) # {} /\ ~Completed(n)
    /\ published' = published \cup
          {FullOffer(Latest(n)), ActiveTicket(n, Latest(n).seq, "joiner", 0, MaxTime + 1)}
    /\ UNCHANGED <<registered, requests, watchers, tasks, book, now, faults>>

---------------------------------------------------------------------------
\* bootstrap_programs and HostService::prepare: every registered program is
\* watched before clients are served.
Slot(programs) == CHOOSE f \in [programs -> 1..MaxTasks] :
                      \A p, q \in programs : p # q => f[p] # f[q]
PreparedWatchers(programs) ==
    [p \in Programs |-> IF p \in programs THEN Slot(programs)[p] ELSE 0]
PreparedTasks(programs) ==
    [k \in 1..MaxTasks |->
        IF \E p \in programs : Slot(programs)[p] = k
        THEN NewTask(CHOOSE p \in programs : Slot(programs)[p] = k) ELSE FreeTask]

Init ==
    /\ registered = Bundled
    /\ requests = [c \in Clients |-> Idle]
    /\ watchers = PreparedWatchers(Bundled) /\ tasks = PreparedTasks(Bundled)
    /\ entries = [n \in Negs |-> NoEntry] /\ observed = {} /\ evicted = {}
    /\ published = {} /\ now = 0 /\ faults = 0

\* The Host stops and starts again: only the store's programs survive.
Restart ==
    /\ faults < MaxFaults /\ faults' = faults + 1
    /\ registered' = registered \cup Bundled
    /\ watchers' = PreparedWatchers(registered \cup Bundled)
    /\ tasks' = PreparedTasks(registered \cup Bundled)
    /\ requests' = [c \in Clients |-> Idle]
    /\ entries' = [n \in Negs |-> NoEntry] /\ observed' = {} /\ evicted' = {}
    /\ UNCHANGED <<published, now>>

TaskStep(k) ==
    \/ Subscribe(k) \/ Cancelled(k) \/ Handle(k)
    \/ Lag(k) \/ TaskFails(k)
    \/ \E fact \in published : Receive(k, fact)

ClientStep(c) ==
    \/ \E p \in Programs : ImportRegisters(c, p) \/ RemoveFromStore(c, p)
    \/ ImportWatches(c) \/ RemoveUnwatches(c)
    \/ ListExpires(c) \/ ListReads(c)

CreatorStep(n) ==
    \/ \E end \in Ends, until \in Untils : PublishOffer(n, end, until)
    \/ \E until \in Untils : RenewTicket(n, until)
    \/ Complete(n)

Next ==
    \/ \E k \in 1..MaxTasks : TaskStep(k)
    \/ \E c \in Clients : ClientStep(c)
    \/ \E n \in Negs : CreatorStep(n)
    \/ Tick \/ Sweep \/ Restart

Spec == Init /\ [][Next]_vars

---------------------------------------------------------------------------
(* Properties *)

TypeOK ==
    /\ registered \subseteq Programs /\ observed \subseteq Negs /\ evicted \subseteq Negs
    /\ \A c \in Clients : requests[c].op \in {"idle", "import", "remove", "list"}
    /\ watchers \in [Programs -> 0..MaxTasks]
    /\ \A k \in 1..MaxTasks : Running(k) =>
          /\ tasks[k].prog \in Programs /\ tasks[k].aborted \in BOOLEAN
          /\ \A held \in {tasks[k].offers, tasks[k].tickets, tasks[k].seen, tasks[k].complete} :
                held \subseteq published /\ Cardinality(held) <= PendingFacts
    /\ \A n \in Negs : entries[n].seq \in 0..MaxSeq
    /\ Cardinality(Listed) <= MaxOpenOffers
    /\ now \in 0..MaxTime /\ faults \in 0..MaxFaults

\* The book holds offers only of programs the Host watches: once unwatch_offers
\* has closed a removed program's entries, a task that was aborted while it held
\* a fact, or was waiting for the registry lock, cannot add one again.
EntriesWatched == \A n \in Listed : watchers[n[1]] # 0

\* A client that follows the offer events knows the list: every listed
\* negotiation was announced and not closed since, and one that is announced
\* but not listed was dropped by the capacity bound, whatever tasks, sweeps,
\* removals and listings interleave.
ObserversAgree ==
    /\ Listed \subseteq observed
    /\ observed \ Listed \subseteq evicted

\* While a negotiation stays listed, its terms never go back to an earlier
\* round, although offers arrive late, twice and through two tasks, and it
\* keeps the time it was first seen.
TermsNeverGoBack ==
    [][\A n \in Negs : (entries[n].seq > 0 /\ entries'[n].seq > 0) =>
          entries'[n].seq >= entries[n].seq /\ entries'[n].seen = entries[n].seen]_vars

\* An offer is listed, or its terms replaced, only at a time when its creator
\* has a ticket for exactly these terms whose window is still open.
ListedWhileTicketed ==
    [][\A n \in Negs : (entries'[n].seq > 0 /\ entries'[n] # entries[n]) =>
          \E u \in published : /\ u.kind = "ticket" /\ u.signer = "creator" /\ u.neg = n
                               /\ u.seq = entries'[n].seq /\ u.until >= now]_vars

=============================================================================
