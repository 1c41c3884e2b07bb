---------------------------- MODULE HostIdentity ----------------------------
(* How a daemon start takes ownership of its Home and of one Host namespace:  *)
(* the Home lease, the MCP signing key, the store reservation, the keystore   *)
(* seed and the SQLite file bound to the identity.  Files live in directories *)
(* whose entries are durable only once synced; a process may crash, an I/O    *)
(* call may fail and the machine may lose power between any two steps.        *)
(*                                                                            *)
(* A secret is the model value it was minted as.  The entry of the Host       *)
(* directory itself is synced by nobody: the namespace may be lost whole.     *)
EXTENDS Naturals, FiniteSets

CONSTANTS
    Procs,          \* daemon processes started on the Home
    Secrets,        \* seeds and keys the operating system may return
    None,
    Torn,           \* the content of a file whose bytes never reached the disk
    Blank,          \* a database without a host_id, a directory, a lock file
    MaxPowerLosses, \* bound on power losses
    MaxFaults       \* bound on process crashes and failed I/O calls

BoundsAreNatural == MaxPowerLosses \in Nat /\ MaxFaults \in Nat

VARIABLES
    disk,       \* name -> the entry the running system sees
    saved,      \* name -> the entry on the platter
    lease,      \* holder of arena0-daemon.lock
    reserved,   \* holder of the store's owner lock
    pc,         \* per process: its step
    file, mine, \* per process: the file it publishes, and its secret
    identity,   \* per process: the keystore's snapshot
    announced,  \* the identity a Host of this namespace was published under
    signing,    \* the key tokens were issued with
    abandoned,  \* secrets whose publication failed or was interrupted
    messy,      \* a crash, a power loss or a failed cleanup may have left a temporary file
    losses, faults

vars == <<disk, saved, lease, reserved, pc, file, mine, identity, announced, signing, abandoned,
          messy, losses, faults>>

Root == {"key", "keyTemp"}
StateDir == {"keys", "lock", "db"}
KeysDir == {"seed", "seedTemp"}
Names == Root \cup StateDir \cup KeysDir
Published == {"key", "seed"}
TempOf(f) == IF f = "key" THEN "keyTemp" ELSE "seedTemp"
DirOf(f) == IF f = "key" THEN Root ELSE KeysDir

File(content, synced) == [content |-> content, synced |-> synced]
Content(name) == Secrets \cup (IF name \in StateDir THEN {Blank} ELSE {Torn})
Entries(name) == [content : Content(name), synced : BOOLEAN] \cup {None}
Exists(name) == disk[name] # None

PublishSteps == {"Create", "Write", "Sync", "Link", "SyncLink", "Unlink", "SyncUnlink"}
Steps == {"Idle", "Key", "Dirs", "Reserve", "SyncLock", "Seed", "Database", "SyncDatabase",
          "Bind", "Ready"} \cup PublishSteps

TypeOK ==
    /\ \A d \in {disk, saved} : DOMAIN d = Names /\ \A n \in Names : d[n] \in Entries(n)
    /\ lease \in Procs \cup {None} /\ reserved \in Procs \cup {None}
    /\ pc \in [Procs -> Steps] /\ file \in [Procs -> Published]
    /\ mine \in [Procs -> Secrets \cup {None}] /\ identity \in [Procs -> Secrets \cup {None}]
    /\ announced \in Secrets \cup {None} /\ signing \in Secrets \cup {None}
    /\ abandoned \subseteq Secrets /\ messy \in BOOLEAN /\ losses \in 0..MaxPowerLosses /\ faults \in 0..MaxFaults

Init ==
    /\ disk = [n \in Names |-> None] /\ saved = [n \in Names |-> None]
    /\ lease = None /\ reserved = None
    /\ pc = [p \in Procs |-> "Idle"] /\ file = [p \in Procs |-> "key"]
    /\ mine = [p \in Procs |-> None] /\ identity = [p \in Procs |-> None]
    /\ announced = None /\ signing = None /\ abandoned = {} /\ messy = FALSE /\ losses = 0 /\ faults = 0

Goto(p, step) == pc' = [pc EXCEPT ![p] = step]
Put(name, entry) == disk' = [disk EXCEPT ![name] = entry]
\* A sync that does not reach the directory.
SyncNoDirectory(dir) == UNCHANGED saved
SyncDirectory(dir) == saved' = [n \in Names |-> IF n \in dir THEN disk'[n] ELSE saved[n]]

quiet == <<lease, reserved, identity, announced, signing, abandoned, messy, losses, faults>>

\* A process that ends gives up its locks; the lock files stay.
Leave(p) ==
    /\ lease' = IF lease = p THEN None ELSE lease
    /\ reserved' = IF reserved = p THEN None ELSE reserved
    /\ Goto(p, "Idle") /\ file' = [file EXCEPT ![p] = "key"]
    /\ mine' = [mine EXCEPT ![p] = None] /\ identity' = [identity EXCEPT ![p] = None]

FailStart(p) ==
    /\ Leave(p)
    /\ UNCHANGED <<disk, saved, announced, signing, abandoned, messy, losses, faults>>

-----------------------------------------------------------------------------
(* The Home lease and the locks                                             *)

AcquireHome(p) ==
    /\ pc[p] = "Idle" /\ lease = None
    /\ lease' = p /\ Goto(p, "Key")
    /\ UNCHANGED <<disk, saved, reserved, file, mine, identity, announced, signing, abandoned, messy, losses,
                   faults>>

EnsureDirs(p) ==
    /\ pc[p] = "Dirs"
    /\ IF Exists("keys") THEN UNCHANGED disk ELSE Put("keys", File(Blank, TRUE))
    /\ Goto(p, "Reserve")
    /\ UNCHANGED <<saved, file, mine, quiet>>

\* Store::reserve: only a lock file it creates makes it sync the directory.
Reserve(p) ==
    /\ pc[p] = "Reserve" /\ reserved = None
    /\ IF Exists("lock")
         THEN reserved' = p /\ Goto(p, "Seed") /\ UNCHANGED disk
         ELSE Put("lock", File(Blank, TRUE)) /\ Goto(p, "SyncLock") /\ UNCHANGED reserved
    /\ UNCHANGED <<saved, lease, file, mine, identity, announced, signing, abandoned, messy, losses, faults>>

SyncLock(p) ==
    /\ pc[p] = "SyncLock" /\ reserved = None
    /\ UNCHANGED disk /\ SyncDirectory(StateDir)
    /\ reserved' = p /\ Goto(p, "Seed")
    /\ UNCHANGED <<lease, file, mine, identity, announced, signing, abandoned, messy, losses, faults>>

-----------------------------------------------------------------------------
(* Loading and minting                                                      *)

Mint(p, f) ==
    \E s \in Secrets \ {mine[q] : q \in Procs} :
      /\ \A n \in Names : Exists(n) => disk[n].content # s
      /\ s \notin {announced, signing} \cup abandoned
      /\ mine' = [mine EXCEPT ![p] = s] /\ file' = [file EXCEPT ![p] = f]
      /\ Goto(p, "Create")

\* McpAuth::load_or_create: the MCP signing key of the Home, which the daemon publishes
\* the way it publishes a Host's seed.
LoadKey(p) ==
    /\ pc[p] = "Key"
    /\ \/ Exists("key") /\ disk["key"].content = Torn /\ FailStart(p)
       \/ /\ Exists("key") /\ disk["key"].content # Torn
          /\ Goto(p, "Dirs")
          /\ UNCHANGED <<disk, saved, file, mine, quiet>>
       \/ ~Exists("key") /\ Mint(p, "key") /\ UNCHANGED <<disk, saved, quiet>>

\* scan_keys_dir: any entry but the seed refuses the Host.
Clean == ~Exists("seedTemp")

\* Keystore::open, and Keystore::create when there is no seed.
LoadSeed(p) ==
    /\ pc[p] = "Seed"
    /\ \/ (~Clean \/ (Exists("seed") /\ disk["seed"].content = Torn)) /\ FailStart(p)
       \/ /\ Clean /\ Exists("seed") /\ disk["seed"].content # Torn
          /\ identity' = [identity EXCEPT ![p] = disk["seed"].content]
          /\ Goto(p, "Database")
          /\ UNCHANGED <<disk, saved, lease, reserved, file, mine, announced, signing, abandoned, messy, losses,
                         faults>>
       \/ Clean /\ ~Exists("seed") /\ Mint(p, "seed") /\ UNCHANGED <<disk, saved, quiet>>

-----------------------------------------------------------------------------
(* publish_new_private                                                      *)

Publish(p, f, from, to) == pc[p] = from /\ file[p] = f /\ Goto(p, to)

CreateTemp(p, f) ==
    /\ Publish(p, f, "Create", "Write") /\ ~Exists(TempOf(f))
    /\ Put(TempOf(f), File(Torn, FALSE))
    /\ UNCHANGED <<saved, file, mine, quiet>>

\* The daemon's temporary files carry the process id, so a leftover does not stop the next.
CreateTempAnew(p, f) ==
    /\ f = "key" /\ Publish(p, f, "Create", "Write") /\ Exists(TempOf(f))
    /\ Put(TempOf(f), File(Torn, FALSE))
    /\ UNCHANGED <<saved, file, mine, quiet>>

WriteTemp(p, f) ==
    /\ Publish(p, f, "Write", "Sync")
    /\ Put(TempOf(f), File(mine[p], FALSE))
    /\ UNCHANGED <<saved, file, mine, quiet>>

SyncTemp(p, f) ==
    /\ Publish(p, f, "Sync", "Link")
    /\ Put(TempOf(f), File(mine[p], TRUE))
    /\ saved' = IF saved[TempOf(f)] = None THEN saved
                ELSE [saved EXCEPT ![TempOf(f)] = File(mine[p], TRUE)]
    /\ UNCHANGED <<file, mine, quiet>>

\* hard_link refuses an existing path.
LinkTemp(p, f) ==
    /\ Publish(p, f, "Link", "SyncLink") /\ ~Exists(f)
    /\ Put(f, disk[TempOf(f)])
    /\ UNCHANGED <<saved, file, mine, quiet>>

SyncLink(p, f) ==
    /\ Publish(p, f, "SyncLink", "Unlink")
    /\ UNCHANGED disk /\ SyncDirectory(DirOf(f))
    /\ UNCHANGED <<file, mine, quiet>>

UnlinkTemp(p, f) ==
    /\ Publish(p, f, "Unlink", "SyncUnlink")
    /\ Put(TempOf(f), None)
    /\ UNCHANGED <<saved, file, mine, quiet>>

SyncUnlink(p, f) ==
    /\ pc[p] = "SyncUnlink" /\ file[p] = f
    /\ UNCHANGED disk /\ SyncDirectory(DirOf(f))
    /\ mine' = [mine EXCEPT ![p] = None]
    /\ IF f = "key"
         THEN Goto(p, "Dirs") /\ UNCHANGED identity
         ELSE Goto(p, "Database") /\ identity' = [identity EXCEPT ![p] = mine[p]]
    /\ UNCHANGED <<lease, reserved, file, announced, signing, abandoned, messy, losses, faults>>

Abandon(p) == abandoned' = abandoned \cup (IF pc[p] \in PublishSteps THEN {mine[p]} ELSE {})

\* cleanup_temp: remove the temporary file and sync; its own failure is ignored.
CleanupTemp(f) ==
    \/ Put(TempOf(f), None) /\ SyncDirectory(DirOf(f)) /\ UNCHANGED messy
    \/ Put(TempOf(f), None) /\ UNCHANGED <<saved, messy>>
    \/ Exists(TempOf(f)) /\ messy' = TRUE /\ UNCHANGED <<disk, saved>>

\* Any I/O call of the publication fails: the start fails.
PublishFails(p, f) ==
    /\ pc[p] \in PublishSteps /\ file[p] = f
    /\ faults < MaxFaults /\ faults' = faults + 1
    /\ CleanupTemp(f) /\ Leave(p)
    /\ UNCHANGED <<announced, signing, losses>> /\ Abandon(p)

-----------------------------------------------------------------------------
(* Opening the database and publishing the Host                             *)

PrepareDatabaseFile(p) ==
    /\ pc[p] = "Database"
    /\ IF Exists("db") THEN Goto(p, "Bind") /\ UNCHANGED disk
       ELSE Goto(p, "SyncDatabase") /\ Put("db", File(Blank, TRUE))
    /\ UNCHANGED <<saved, file, mine, quiet>>

SyncDatabaseFile(p) ==
    /\ pc[p] = "SyncDatabase"
    /\ UNCHANGED disk /\ SyncDirectory(StateDir)
    /\ Goto(p, "Bind")
    /\ UNCHANGED <<file, mine, quiet>>

\* bind_metadata: SQLite's commit syncs the file and the directory of its log.
BindMetadata(p) ==
    /\ pc[p] = "Bind"
    /\ \/ /\ disk["db"].content = Blank
          /\ Put("db", File(identity[p], TRUE)) /\ SyncDirectory(StateDir)
          /\ Goto(p, "Ready") /\ announced' = identity[p] /\ signing' = disk["key"].content
          /\ UNCHANGED <<lease, reserved, file, mine, identity, abandoned, messy, losses,
                         faults>>
       \/ /\ disk["db"].content = identity[p]
          /\ Goto(p, "Ready") /\ announced' = identity[p] /\ signing' = disk["key"].content
          /\ UNCHANGED <<disk, saved, lease, reserved, file, mine, identity, abandoned, messy, losses,
                         faults>>
       \/ disk["db"].content \notin {Blank, identity[p]} /\ FailStart(p)

StopDaemon(p) == pc[p] = "Ready" /\ FailStart(p)

-----------------------------------------------------------------------------
(* Faults                                                                   *)

Interrupts(p) == pc[p] \in PublishSteps

CrashProcess(p) ==
    /\ pc[p] # "Idle" /\ faults < MaxFaults
    /\ faults' = faults + 1 /\ messy' = (messy \/ Interrupts(p))
    /\ Leave(p)
    /\ UNCHANGED <<disk, saved, announced, signing, losses>> /\ Abandon(p)

\* What a file is after the power came back.
Recovered(entry) == IF entry = None \/ entry.synced THEN entry ELSE File(Torn, TRUE)

PowerLoss ==
    /\ losses < MaxPowerLosses /\ losses' = losses + 1
    /\ \E kept \in SUBSET {n \in Names : disk[n] # saved[n]}, whole \in BOOLEAN :
         LET at(n) == Recovered(IF n \in kept THEN disk[n] ELSE saved[n])
             gone(n) == \/ ~whole /\ n \in StateDir \cup KeysDir
                        \/ n \in KeysDir /\ at("keys") = None
             after == [n \in Names |-> IF gone(n) THEN None ELSE at(n)]
         IN /\ disk' = after /\ saved' = after
            /\ announced' = IF whole THEN announced ELSE None
    /\ lease' = None /\ reserved' = None
    /\ pc' = [p \in Procs |-> "Idle"] /\ file' = [p \in Procs |-> "key"]
    /\ mine' = [p \in Procs |-> None] /\ identity' = [p \in Procs |-> None]
    /\ messy' = TRUE
    /\ UNCHANGED <<signing, abandoned, faults>>

-----------------------------------------------------------------------------
PublishStep(p, f) ==
    \/ CreateTemp(p, f) \/ CreateTempAnew(p, f) \/ WriteTemp(p, f) \/ SyncTemp(p, f)
    \/ LinkTemp(p, f) \/ SyncLink(p, f) \/ UnlinkTemp(p, f) \/ SyncUnlink(p, f)

Next ==
    \/ \E p \in Procs :
         \/ AcquireHome(p) \/ LoadKey(p) \/ EnsureDirs(p) \/ Reserve(p) \/ SyncLock(p)
         \/ LoadSeed(p) \/ PrepareDatabaseFile(p) \/ SyncDatabaseFile(p) \/ BindMetadata(p)
         \/ StopDaemon(p) \/ CrashProcess(p)
         \/ \E f \in Published : PublishStep(p, f) \/ PublishFails(p, f)
    \/ PowerLoss

Spec == Init /\ [][Next]_vars

-----------------------------------------------------------------------------
(* Properties                                                               *)

\* A database bound to an identity has that identity's seed beside it: the Host can be opened
\* again under the identity its records name, and does not end in IdentityMismatch at every open
\* (HostConfig::open, Keystore::create, bind_metadata).
SeedBeside == Exists("seed") /\ disk["seed"].content = disk["db"].content
Bound == Exists("db") /\ disk["db"].content # Blank

\* Whatever crashed, failed or lost power, a bound database has its seed, unless the publication
\* of that seed had failed: publish_new_private then removes the temporary file that marks it,
\* and the next open takes a seed whose directory entry may not be on the disk.
BoundDatabaseHasItsSeed == (Bound /\ disk["db"].content \notin abandoned) => SeedBeside

\* "An interrupted publication is rejected on the next open instead of being guessed at"
\* (keystore.rs): whatever failed and lost power, a bound database has the seed beside it.
InterruptedPublicationIsRejected == Bound => SeedBeside

\* A secret that can be read at its path is whole: a power loss never leaves a seed or a signing
\* key whose bytes were not written (publish_new_private syncs before it links).
SecretsAreWhole == \A f \in Published : Exists(f) => disk[f].content # Torn

\* A Host that was published under an identity is never published under another one, as long as
\* its directory exists: "a later on-disk seed change cannot split one Host across two
\* identities", and neither does a restart (Keystore::open, Store::reserve, bind_metadata).
IdentityIsStable == [][announced # None /\ announced' # None => announced' = announced]_vars

\* The key that signed access tokens stays the signing key: tokens handed to agents are still
\* accepted after any crash or power loss, unless the publication of the key had failed or was
\* interrupted and the next start took it before its directory entry was synced
\* (McpAuth::load_or_create, sync_parent_dir).
SigningKeyIsStable == [][signing \notin {None} \cup abandoned => signing' = signing]_vars

\* Without a crash or a failed cleanup no temporary file is left to refuse the Host: a start that
\* fails with an I/O error can be repeated (publish_new_private, scan_keys_dir).
FailedStartsCanBeRepeated ==
    (~messy /\ \A p \in Procs : ~Interrupts(p)) => ~Exists("seedTemp")
=============================================================================
