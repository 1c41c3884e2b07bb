------------------------------ MODULE MCStore -------------------------------
(***************************************************************************)
(* What one Host keeps and verifies, one part at work in each behaviour    *)
(* (part) and the others in their initial states: the blob store, receipts *)
(* of its own session and of one between strangers, and the resident guest *)
(* instance, with the SDK's glue and with any glue.                        *)
(***************************************************************************)
EXTENDS BlobStore, TLC

CONSTANTS
  MaxImports,                \* of Receipts, for the own session
  MaxEvents                  \* of GuestInstance, with the SDK's glue

VARIABLES
  part,
  \* Receipts
  signed, stops, forged, exec, log, receipts, imports, production, refused, restarts,
  \* GuestInstance
  durable, state, inst, call, up, faults, agreed, released, shown

receiptVars == <<signed, stops, forged, exec, log, receipts, imports, production,
  refused, restarts>>
guestVars == <<durable, state, inst, call, up, faults, agreed, released, shown>>

OneBlob == {<<0, 1>>}

WrongState == <<"wrong">>

Mine == INSTANCE Receipts WITH
  Ensemble <- [own |-> {"host", "peer"}], Data <- {"end", "quit"}, Ends <- {"end"},
  Aborts <- {"quit"}, Rejects <- {}, Host <- "host", Own <- "own", Wrong <- WrongState,
  MaxSteps <- 2, MaxOwnSteps <- 2, MaxForged <- 1, MaxStops <- 1, MaxRestarts <- 1

\* A stranger of the foreign session also sits in the Host's own.
Foreign == INSTANCE Receipts WITH
  Ensemble <- [own |-> {"host", "peer"}, foreign |-> {"peer", "third"}],
  Data <- {"end", "junk"}, Ends <- {"end"}, Aborts <- {}, Rejects <- {"junk"},
  Host <- "host", Own <- "own", Wrong <- WrongState, MaxSteps <- 2, MaxOwnSteps <- 1,
  MaxForged <- 2, MaxStops <- 0, MaxImports <- 2, MaxRestarts <- 0

Guest == INSTANCE GuestInstance WITH
  Capacity <- 2, SharedMax <- 1, MaxOutgoing <- 1, MaxDirect <- 1, MaxCalls <- 4,
  MaxEffects <- 2, Payloads <- {"p", "q"}, Generated <- TRUE, MaxFaults <- 1

AnyGlue == INSTANCE GuestInstance WITH
  Capacity <- 2, SharedMax <- 2, MaxOutgoing <- 1, MaxDirect <- 1, MaxCalls <- 2,
  MaxEffects <- 1, Payloads <- {"p"}, Generated <- FALSE, MaxEvents <- 3, MaxFaults <- 1

ASSUME StoreAssumption ==
  /\ Mine!EnsembleAssumption /\ Mine!DataAssumption /\ Mine!HostAssumption
  /\ Foreign!EnsembleAssumption /\ Foreign!DataAssumption /\ Foreign!HostAssumption
  /\ Guest!BoundsAssumption /\ Guest!NoneAssumption
  /\ AnyGlue!BoundsAssumption /\ AnyGlue!NoneAssumption

\* The executions of the blob store are interchangeable.
ExecSymmetry == Permutations(Execs)

StoreInit ==
  /\ part \in {"blobs", "own", "foreign", "guest", "glue"}
  /\ Init /\ Mine!Init /\ Guest!Init

StoreNext ==
  /\ UNCHANGED part
  /\ \/ part = "blobs" /\ Next /\ UNCHANGED <<receiptVars, guestVars>>
     \/ part = "own" /\ Mine!Next /\ UNCHANGED <<vars, guestVars>>
     \/ part = "foreign" /\ Foreign!Next /\ UNCHANGED <<vars, guestVars>>
     \/ part = "guest" /\ Guest!Next /\ UNCHANGED <<vars, receiptVars>>
     \/ part = "glue" /\ AnyGlue!Next /\ UNCHANGED <<vars, receiptVars>>

StoreSpec == StoreInit /\ [][StoreNext]_<<part, vars, receiptVars, guestVars>>

----------------------------------------------------------------------------
(* Properties. The modules state the parts of each and explain them; what  *)
(* the blobs promise, BlobsSurvive, is stated in BlobStore.                *)

\* The store never takes back what it recorded: recorded bytes and published
\* files are never written again, reopening leaves no file that no row accounts
\* for, and the receipt the Host published stays its answer for the session.
StoreNeverTakesBack ==
  /\ RecordedBytesStay
  /\ PublishedNeverWritten
  /\ OpenLeavesNoOrphans
  /\ Mine!PublicationIsKept

\* A receipt of the Host's session that verifies tells the steps the Host
\* itself signed, is the only one and replays, whatever the others sign, and
\* no import stands in its way; full verification of a session between
\* strangers shows a run of the program, and its row is the only one.
ReceiptsAreGenuine ==
  /\ part = "own" =>
       /\ Mine!TypeOK
       /\ Mine!EvidenceIsWhatTheHostSigned
       /\ Mine!OneReceiptPerSession
       /\ Mine!HonestEvidenceReplays
       /\ Mine!NothingOwnIsRefused
  /\ part = "foreign" =>
       /\ Foreign!TypeOK
       /\ Foreign!FullyVerifiedIsARun
       /\ Foreign!OneCanonicalRow

\* Dispatches do not leak into each other: the resident holds what the actor's
\* state says, every handler starts from the same place, a dispatch persists
\* what its own handler did and signs one payload a position, and a shared
\* image that is held, stored or shown is one that everybody certified.
GuestIsIsolated ==
  /\ part \in {"guest", "glue"} =>
       /\ Guest!ResidentMatchesState
       /\ Guest!CleanEntry
  /\ part = "guest" =>
       /\ Guest!TypeOK
       /\ Guest!PersistsItsOwnCall
       /\ Guest!SignaturesUnique
       /\ Guest!LocalNeverOverflows
       /\ Guest!FramesCanonical
  /\ part = "glue" => AnyGlue!TypeOK /\ AnyGlue!OnlyAgreedImages
=============================================================================
