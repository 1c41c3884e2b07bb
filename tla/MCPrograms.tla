----------------------------- MODULE MCPrograms -----------------------------
(***************************************************************************)
(* The repository's programs, one of them in each behaviour, with small    *)
(* ensembles and inputs; and the two primitives that no session exercises  *)
(* fully, the ballot and the shuffle, under every sequence of calls. All   *)
(* share the variables of ProgramSession: the ballot keeps its agreement   *)
(* in shared, the shuffle its eight variables under the names below.       *)
(***************************************************************************)
EXTENDS Naturals, Sequences, FiniteSets

CONSTANTS None, Bad, Illegal

VARIABLES
  program,
  log, applied, frozen, shared, local, outgoing, ended, strayed,
  fired, lanes, store     \* of the verified transfer

session == <<log, applied, frozen, shared, local, outgoing, ended, strayed>>
vars == <<program, session, fired, lanes, store>>

CR == INSTANCE CommitReveal

\* A choice other than the committed one, and a second commitment.
BrokenMessages ==
  {CR!Reveal("Defect", <<1, 0>>), CR!Commit(CR!ComputeHash("Defect", <<1, 1>>))}

Rps == INSTANCE ChoiceGame WITH Game <- "RockPaperScissors", TotalRounds <- 3,
  Faulty <- {}, Strays <- {}, MaxStrays <- 0

Dilemma == INSTANCE ChoiceGame WITH Game <- "PrisonerDilemma", TotalRounds <- 2,
  Faulty <- {1}, Strays <- BrokenMessages, MaxStrays <- 2

Auction == INSTANCE VickreyAuction WITH
  Bidders <- {1, 2, 3}, Bids <- {0, 1, 2}, Reserve <- 1, Nonces <- {0, 1}

Counting == INSTANCE SequentialCount WITH N <- 3, CountTo <- 4, Nonces <- {0, 1, 3}

\* Two tasks for carriers and one for painters; valid offers of all capacities
\* and costs that tie, and two invalid ones.
SomeOffers ==
  {[capabilities |-> {"carry", "paint"}, capacity |-> c, bids |-> <<a, 1, 1>>] :
     c \in {1, 2}, a \in {1, 2}}
  \cup {[capabilities |-> {"carry"}, capacity |-> 3, bids |-> <<2, None, None>>],
        [capabilities |-> {}, capacity |-> 0, bids |-> <<None, None, None>>],
        [capabilities |-> {"carry"}, capacity |-> 1, bids |-> <<None, None, 1>>],
        [capabilities |-> {"carry"}, capacity |-> 4, bids |-> <<1, 1, None>>]}

Allocation == INSTANCE ContractNet WITH
  Workers <- {1, 2}, Tasks <- <<"carry", "carry", "paint">>, Offers <- SomeOffers,
  MaxCost <- 2

Game == INSTANCE Chess WITH DrawClock <- 2, Faulty <- {}, MaxStrays <- 0

StrayGame == INSTANCE Chess WITH DrawClock <- 2, Faulty <- {1}, MaxStrays <- 1

Sum == INSTANCE PublicSlots WITH N <- 3, Asked <- FALSE, Values <- {0, 1, 2},
  Modulus <- 8, Faulty <- {1}, Strays <- {7}, MaxStrays <- 2

Choice == INSTANCE PublicSlots WITH N <- 2, Asked <- TRUE, Values <- {1, 2},
  Modulus <- 8, Faulty <- {1}, Strays <- {1}, MaxStrays <- 2

\* Three leaves one way, in two messages of leaf values, and one leaf back.
Honest == INSTANCE VerifiedTransfer WITH InputSender <- 1,
  LeafCount <- [t \in {0, 1} |-> 3 - 2 * t], LeavesPerMessage <- 2, Readable <- {0},
  StoreFails <- FALSE, Faulty <- {}, MaxStrays <- 0

Hostile == INSTANCE VerifiedTransfer WITH InputSender <- 0,
  LeafCount <- [t \in {0, 1} |-> 2 - t], LeavesPerMessage <- 2, Readable <- {0},
  StoreFails <- TRUE, Faulty <- {0}, MaxStrays <- 1

\* Objects of one leaf, which have no leaf values to check.
Single == INSTANCE VerifiedTransfer WITH InputSender <- 1,
  LeafCount <- [t \in {0, 1} |-> 1], LeavesPerMessage <- 2, Readable <- {0, 1},
  StoreFails <- TRUE, Faulty <- {0}, MaxStrays <- 1

Shuffle == INSTANCE JointRandomness WITH Sizes <- 0..5, Width <- 3,
  phase <- log, index <- applied, order <- frozen, drawn <- shared,
  direct <- local, items <- outgoing, start <- ended, current <- strayed

Ballot == INSTANCE Agreement

ASSUME ProgramsAssumption ==
  /\ Rps!ChoiceGameAssumption /\ Dilemma!ChoiceGameAssumption
  /\ Auction!VickreyAssumption /\ Counting!SequentialCountAssumption
  /\ Allocation!ContractNetAssumption
  /\ Game!ChessAssumption /\ StrayGame!ChessAssumption
  /\ Sum!PublicSlotsAssumption /\ Choice!PublicSlotsAssumption
  /\ Honest!VerifiedTransferAssumption /\ Hostile!VerifiedTransferAssumption
  /\ Single!VerifiedTransferAssumption
  /\ Shuffle!JointRandomnessAssumption

----------------------------------------------------------------------------
(* The ballot: an agreed handler calls it with whatever arrives.           *)

Voters == {0, 1, 2, 3}

BallotInit ==
  /\ shared = Ballot!NewAgreement
  /\ log = << >> /\ applied = 0 /\ frozen = {} /\ local = 0 /\ outgoing = 0
  /\ ended = FALSE /\ strayed = 0

BallotNext ==
  /\ \/ \E v \in {"a", "b"}, voters \in SUBSET Voters, t \in 0..5 :
          shared' \in Ballot!Propose(shared, v, voters, t)
     \/ \E p \in Voters, v \in {"a", "b"}, vote \in Ballot!Votes :
          shared' \in Ballot!Vote(shared, p, v, vote)
  /\ UNCHANGED <<log, applied, frozen, local, outgoing, ended, strayed>>

----------------------------------------------------------------------------

Alone == fired = 0 /\ lanes = 0 /\ store = 0

Init ==
  \/ program = "rps" /\ Rps!Init /\ Alone
  \/ program = "dilemma" /\ Dilemma!Init /\ Alone
  \/ program = "auction" /\ Auction!Init /\ Alone
  \/ program = "counting" /\ Counting!Init /\ Alone
  \/ program = "allocation" /\ Allocation!Init /\ Alone
  \/ program = "game" /\ Game!Init /\ Alone
  \/ program = "strayGame" /\ StrayGame!Init /\ Alone
  \/ program = "sum" /\ Sum!Init /\ Alone
  \/ program = "choice" /\ Choice!Init /\ Alone
  \/ program = "shuffle" /\ Shuffle!Init /\ Alone
  \/ program = "ballot" /\ BallotInit /\ Alone
  \/ program = "honest" /\ Honest!Init
  \/ program = "hostile" /\ Hostile!Init
  \/ program = "single" /\ Single!Init

Transfers == {"honest", "hostile", "single"}

Next ==
  /\ UNCHANGED program
  /\ \/ program = "rps" /\ Rps!Next
     \/ program = "dilemma" /\ Dilemma!Next
     \/ program = "auction" /\ Auction!Next
     \/ program = "counting" /\ Counting!Next
     \/ program = "allocation" /\ Allocation!Next
     \/ program = "game" /\ Game!Next
     \/ program = "strayGame" /\ StrayGame!Next
     \/ program = "sum" /\ Sum!Next
     \/ program = "choice" /\ Choice!Next
     \/ program = "shuffle" /\ Shuffle!Next
     \/ program = "ballot" /\ BallotNext
     \/ program = "honest" /\ Honest!Next
     \/ program = "hostile" /\ Hostile!Next
     \/ program = "single" /\ Single!Next
  /\ program \notin Transfers => UNCHANGED <<fired, lanes, store>>

\* What Hosts and agents owe: the steps of a session except stray messages.
Work ==
  /\ UNCHANGED program
  /\ \/ program = "rps" /\ Rps!Work
     \/ program = "dilemma" /\ Dilemma!Work
     \/ program = "auction" /\ Auction!Work
     \/ program = "counting" /\ Counting!Work
     \/ program = "allocation" /\ Allocation!Work
     \/ program = "game" /\ Game!Work
     \/ program = "strayGame" /\ StrayGame!Work
     \/ program = "sum" /\ Sum!Work
     \/ program = "choice" /\ Choice!Work
     \/ program = "shuffle" /\ Shuffle!Next
     \/ program = "honest" /\ Honest!Work
     \/ program = "hostile" /\ Hostile!Work
     \/ program = "single" /\ Single!Work
  /\ program \notin Transfers => UNCHANGED <<fired, lanes, store>>

Spec == Init /\ [][Next]_vars /\ WF_vars(Work)

----------------------------------------------------------------------------
(* Properties of every program.                                            *)

\* The variables of the session that runs have their types.
TypeOK ==
  /\ program = "rps" => Rps!TypeOK
  /\ program = "auction" => Auction!TypeOK
  /\ program = "counting" => Counting!TypeOK
  /\ program = "strayGame" => StrayGame!TypeOK
  /\ program = "honest" => Honest!S!TypeOK

\* Hosts that have applied as many events have the same shared state: no
\* handler writes what only it knows, its own index, its local state or the
\* randomness it draws, into the shared state.
ReplicasAgree ==
  /\ program = "rps" => Rps!ReplicasAgree
  /\ program = "dilemma" => Dilemma!ReplicasAgree
  /\ program = "auction" => Auction!ReplicasAgree
  /\ program = "counting" => Counting!ReplicasAgree
  /\ program = "allocation" => Allocation!ReplicasAgree
  /\ program = "strayGame" => StrayGame!ReplicasAgree
  /\ program = "sum" => Sum!ReplicasAgree
  /\ program = "choice" => Choice!ReplicasAgree
  /\ program = "honest" => Honest!ReplicasAgree
  /\ program = "hostile" => Hostile!ReplicasAgree
  /\ program = "single" => Single!ReplicasAgree

\* What its author accepted, every Host accepts: an agreed event never leaves
\* a Host behind.
NobodyIsLeftBehind ==
  /\ program = "rps" => Rps!NobodyIsLeftBehind
  /\ program = "dilemma" => Dilemma!NobodyIsLeftBehind
  /\ program = "auction" => Auction!NobodyIsLeftBehind
  /\ program = "counting" => Counting!NobodyIsLeftBehind
  /\ program = "allocation" => Allocation!NobodyIsLeftBehind
  /\ program = "strayGame" => StrayGame!NobodyIsLeftBehind
  /\ program = "sum" => Sum!NobodyIsLeftBehind
  /\ program = "choice" => Choice!NobodyIsLeftBehind
  /\ program = "honest" => Honest!S!NobodyIsLeftBehind
  /\ program = "hostile" => Hostile!S!NobodyIsLeftBehind
  /\ program = "single" => Single!S!NobodyIsLeftBehind

\* The sender-order rule: two Hosts never propose different events for the
\* same position, so a program alone never causes a conflict of proposals.
OneAuthor ==
  /\ program = "rps" => Rps!OneAuthor
  /\ program = "dilemma" => Dilemma!OneAuthor
  /\ program = "auction" => Auction!OneAuthor
  /\ program = "counting" => Counting!OneAuthor
  /\ program = "allocation" => Allocation!OneAuthor
  /\ program = "strayGame" => StrayGame!OneAuthor
  /\ program = "sum" => Sum!OneAuthor
  /\ program = "choice" => Choice!OneAuthor
  /\ program = "honest" => Honest!S!OneAuthor
  /\ program = "hostile" => Hostile!S!OneAuthor
  /\ program = "single" => Single!S!OneAuthor

\* Every session ends when the Hosts run and the agents answer: no message
\* that the others wait for is dropped or never queued, no transfer waits for
\* an object that is missing or refused, and the shuffle's loop terminates, also
\* with a participant that sends moves or direct messages of its own. Excluded
\* are the dilemma, in which a player that broke its commitment has nothing to
\* reveal, and the ballot, which is a primitive and not a session.
SessionEnds ==
  <>(CASE program = "shuffle" -> log = "Done"
       [] program \in {"ballot", "dilemma"} -> TRUE
       [] OTHER -> \A p \in DOMAIN ended : ended[p])

\* Replicas of every program stay together: Hosts at one position have one
\* state, none is left behind by an event its author accepted, and a position
\* has one author.
ReplicasStayTogether == TypeOK /\ ReplicasAgree /\ NobodyIsLeftBehind /\ OneAuthor

----------------------------------------------------------------------------
(* Properties of single programs and primitives; the modules explain them. *)

\* The scores of rock-paper-scissors are those of the choices in the log.
ScoresMatchTheLog == program = "rps" => Rps!ScoresMatchTheLog

\* No choice is revealed while the other player can still choose.
ChoicesStaySealed == program = "rps" => Rps!ChoicesStaySealed

\* A faulty player, too, reveals what it committed to.
RevealsMatchCommits == program = "dilemma" => Dilemma!RevealsMatchCommits

\* The settlement is the Vickrey rule's, and truthful bidding is dominant.
SettlementIsTruthful == program = "auction" => Auction!SettlementIsTruthful

\* Everybody counts in turn, round robin.
CountsAreFair == program = "counting" => Counting!CountsAreFair

\* What all accept is the first feasible allocation, and all accepted it.
AllocationIsFirst ==
  program = "allocation" =>
    Allocation!AcceptedPlanIsFirst /\ Allocation!EveryoneAcceptedTheOutcome

\* The turn and the board never part, also with an ill-behaved participant.
MoversAlternate == program = "strayGame" => StrayGame!MoversAlternate

\* A game is won exactly by a mating move of the winner.
WonGamesWereMated == program = "game" => Game!WonGamesWereMated

\* A slot holds what its own participant said, once, and the sum is theirs.
SlotsAreTheirOwners ==
  (program = "sum" => Sum!SlotsAreTheirOwners) /\ (program = "choice" => Choice!SlotsAreTheirOwners)

\* A complete transfer left its receiver with the agreed object, whatever the
\* sender sent, and no byte of another object was stored on the way.
TransfersAreVerified ==
  /\ program = "single" => Single!CompleteMeansReceived
  /\ program = "hostile" => Hostile!CompleteMeansReceived /\ Hostile!OnlyVerifiedLeavesStored

\* An honest sender with its object and a working store never fail, and each
\* direction holds at most two messages of a transfer.
HonestTransfersComplete ==
  program = "honest" => Honest!HonestTransfersComplete /\ Honest!TwoPerDirection

\* The shuffle puts at each position the item that the permutation names, and
\* every permutation is drawn by the same number of generator words.
ShuffleIsUnbiased ==
  program = "shuffle" => Shuffle!ShuffleAppliesOrder /\ Shuffle!ChoiceIsUnbiased

Completions == {f \in [shared.voters -> Ballot!Votes] :
  \A p \in shared.voters : shared.votes[p] # None => f[p] = shared.votes[p]}

Carried(f) == Cardinality({p \in shared.voters : f[p] = "Accept"}) >= shared.threshold

\* The tally is decided exactly when every way to cast the missing votes leads
\* to the same result, and it is that result.
TallyForeseesTheResult ==
  program = "ballot" /\ shared.voters # {} =>
    /\ Ballot!Tally(shared) = "Accepted" <=> \A f \in Completions : Carried(f)
    /\ Ballot!Tally(shared) = "Rejected" <=> \A f \in Completions : ~Carried(f)

\* The outcome of every program is the one its rules give the log, also with
\* an ill-behaved participant: choices stay sealed until all are committed,
\* scores, settlements, allocations, games and sums are those of the log,
\* transfers store only what verifies, and a shuffle favours nobody.
OutcomesAreFair ==
  /\ ScoresMatchTheLog
  /\ ChoicesStaySealed
  /\ RevealsMatchCommits
  /\ SettlementIsTruthful
  /\ CountsAreFair
  /\ AllocationIsFirst
  /\ MoversAlternate
  /\ WonGamesWereMated
  /\ SlotsAreTheirOwners
  /\ TransfersAreVerified
  /\ HonestTransfersComplete
  /\ ShuffleIsUnbiased
  /\ TallyForeseesTheResult
=============================================================================
