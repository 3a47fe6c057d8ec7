------------------------------ MODULE Recovery ------------------------------
(***************************************************************************)
(* The two databases of a server on disk and their replicas: what start()  *)
(* restores from the bucket, in which order, and what init, unseal and     *)
(* seal then do to the encrypted pool and to the replication.              *)
(*                                                                         *)
(*   - Litestream runs as a child process for each database, for the       *)
(*     encrypted one from the first unseal on, since it needs the key.  It *)
(*     copies what the database holds to the bucket, some time later;      *)
(*   - every command of Litestream can fail; the server can crash between  *)
(*     any two steps and leaves its child processes behind; the machine    *)
(*     can be lost with the disk.                                          *)
(*                                                                         *)
(* Replication is configured.  The key shares are not followed (see        *)
(* SealLifecycle): whoever unseals has the key of some deal.               *)
(*                                                                         *)
(* StorageProofs extends this module beside Migrations: hence the names    *)
(* RecoveryInit, RecoveryNext and RecoverySpec.                            *)
(***************************************************************************)
EXTENDS Requests, Naturals

CONSTANTS
    MaxKeys,        \* bound: how often a master key is made
    MaxRows         \* bound: writes to the encrypted database

ASSUME RecoveryAssumption ==
    /\ None \notin Nat \cup [key : Nat, rows : Nat]
    /\ MaxKeys \in Nat
    /\ MaxRows \in Nat

VARIABLES
    \* on disk
    seal,           \* seal.db: None, 0 without a configuration, or the number
                    \* of the key that its configuration belongs to
    enc,            \* covert.db: None, or its key and how much was written
    tmp,            \* covert.db.tmp
    \* in the bucket
    sealBackup,     \* like seal
    encBackup,      \* None, or key, the writes in the snapshot and with the WAL
    \* in memory
    phase,          \* the next step of start(), "up" or "down"
    pool,           \* EncryptedPool::state
    child,          \* ChildProcesses: which handles are set
    mine,           \* the Litestream processes that this process has started
    orphans,        \* those of earlier processes that are still running
    handlers,       \* the handlers in progress
    \* history
    keys,           \* master keys made
    overlap         \* this process sealed the pool during an unseal

disk == <<seal, enc, tmp>>
bucket == <<sealBackup, encBackup>>
children == <<child, mine, orphans>>
recoveryHistory == <<keys, overlap>>
recoveryVars == <<disk, bucket, phase, pool, children, handlers, recoveryHistory>>

NoChild == [seal |-> FALSE, enc |-> FALSE]
NoProcess == [seal |-> 0, enc |-> 0]
AtRest == "idle"

RecoveryInit ==
    /\ seal = None
    /\ enc = None
    /\ tmp = None
    /\ sealBackup = None
    /\ encBackup = None
    /\ phase = "down"
    /\ pool = "uninitialized"
    /\ child = NoChild
    /\ mine = NoProcess
    /\ orphans = NoChild
    /\ handlers = [r \in Request |-> AtRest]
    /\ keys = 0
    /\ overlap = FALSE

\* ChildProcesses: a handle is set by the one who started the process.
SetHandle(which) == child' = [seal |-> child.seal \/ which = "seal", enc |-> child.enc \/ which = "enc"]
Started == child.enc

Quiescent == \A r \in Request : handlers[r] = AtRest

-----------------------------------------------------------------------------
(***************************************************************************)
(* start                                                                   *)
(***************************************************************************)

Go(p) == phase' = p /\ UNCHANGED <<pool, children, handlers, recoveryHistory>>

Start == phase = "down" /\ Go("sealdb") /\ UNCHANGED <<disk, bucket>>

\* Mutant: a seal storage that cannot be restored is done without.
RecoverSealOrGoOn ==
    /\ phase = "sealdb"
    /\ \/ Go("snapshot") /\ UNCHANGED seal
       \/ /\ sealBackup # None /\ seal = None
          /\ seal' = sealBackup
          /\ Go("snapshot")
    /\ UNCHANGED <<enc, tmp, bucket>>

\* recover of the seal storage: whichever command fails ends the start.
RecoverSeal ==
    /\ phase = "sealdb"
    /\ \/ Go("down") /\ UNCHANGED seal
       \/ /\ sealBackup = None \/ seal # None
          /\ Go("snapshot")
          /\ UNCHANGED seal
       \/ /\ sealBackup # None /\ seal = None
          /\ seal' = sealBackup
          /\ Go("snapshot")
    /\ UNCHANGED <<enc, tmp, bucket>>

Snapshot == [key |-> encBackup.key, rows |-> encBackup.snapshot]

\* Mutant: local storage is not looked for.
RecoverAnyway ==
    /\ phase = "snapshot"
    /\ \/ Go("rename") /\ UNCHANGED <<enc, tmp>>
       \/ encBackup = None /\ Go("connect") /\ UNCHANGED <<enc, tmp>>
       \/ encBackup # None /\ Go("rename") /\ tmp' = Snapshot /\ UNCHANGED enc
    /\ UNCHANGED <<seal, bucket>>

\* recover_encrypted_storage_snapshot: nothing ends the start.  A restore
\* fails where the key is needed for the WAL, with the snapshot in the
\* temporary file, or before, or it needs no WAL and succeeds.
RecoverSnapshot ==
    /\ phase = "snapshot"
    /\ \/ Go("rename") /\ UNCHANGED <<enc, tmp>>
       \/ /\ encBackup = None \/ enc # None
          /\ Go("connect")
          /\ UNCHANGED <<enc, tmp>>
       \/ /\ encBackup # None /\ enc = None
          /\ \/ Go("rename") /\ tmp' = Snapshot /\ UNCHANGED enc
             \/ /\ encBackup.rows = encBackup.snapshot
                /\ enc' = Snapshot
                /\ tmp' = None
                /\ Go("connect")
    /\ UNCHANGED <<seal, bucket>>

\* After a failure the temporary file, if there is one, becomes the database.
RenameSnapshot ==
    /\ phase = "rename"
    /\ enc' = IF tmp # None THEN tmp ELSE enc
    /\ tmp' = None
    /\ Go("connect")
    /\ UNCHANGED <<seal, bucket>>

\* The seal storage is created if it is missing.
ConnectSeal ==
    /\ phase = "connect"
    /\ seal' = IF seal = None THEN 0 ELSE seal
    /\ Go("replicate")
    /\ UNCHANGED <<enc, tmp, bucket>>

ReplicateSeal ==
    /\ phase = "replicate"
    /\ \/ /\ phase' = "pool"
          /\ mine' = [mine EXCEPT !.seal = @ + 1]
          /\ SetHandle("seal")
       \/ /\ phase' = "down"
          /\ UNCHANGED <<mine, child>>
    /\ UNCHANGED <<disk, bucket, pool, orphans, handlers, recoveryHistory>>

\* EncryptedPool::new, and what start() does before it serves requests
NewPool ==
    /\ phase = "pool"
    /\ pool' = IF enc = None THEN "uninitialized" ELSE "sealed"
    /\ phase' = "up"
    /\ UNCHANGED <<disk, bucket, children, handlers, recoveryHistory>>

-----------------------------------------------------------------------------
(***************************************************************************)
(* The handlers                                                            *)
(***************************************************************************)

Goto(r, pc) == handlers' = [handlers EXCEPT ![r] = pc]

\* OwnedRwLock::write: the state of the pool is taken and put back in one step.
Transition(from, to) == pool = from /\ pool' = to

NewKey == keys + 1
NewFile(k) == [key |-> k, rows |-> 0]

\* A key opens the file that was made with it.
Connects(k) == enc.key = k

\* A request passes the storage state layer.
Begin(r, state, pc) ==
    /\ phase = "up"
    /\ handlers[r] = AtRest
    /\ pool = state
    /\ Goto(r, pc)
    /\ UNCHANGED <<disk, bucket, phase, pool, children, recoveryHistory>>

\* set_config, refused by CONFIG_LOCK if there is a configuration
SetConfig(r) ==
    /\ handlers[r] = "setconfig"
    /\ \/ seal = 0 /\ keys < MaxKeys /\ seal' = NewKey /\ Goto(r, "create")
       \/ seal # 0 /\ Goto(r, AtRest) /\ UNCHANGED seal
    /\ UNCHANGED <<enc, tmp, bucket, phase, pool, children, recoveryHistory>>

\* Storage::initialize makes the key and the file.
Create(r) ==
    /\ handlers[r] = "create"
    /\ Transition("uninitialized", "sealed")
    /\ enc' = NewFile(seal)
    /\ keys' = seal
    /\ Goto(r, AtRest)
    /\ UNCHANGED <<seal, tmp, bucket, phase, children, overlap>>

\* EncryptedPool::unseal with the key of some deal.  Without a configuration
\* there is none; a wrong key, or a pool that is not sealed any more, ends the
\* request.
Open(r) ==
    /\ handlers[r] = "open"
    /\ \/ /\ seal # 0
          /\ \E k \in 1..keys : Connects(k)
          /\ Transition("sealed", "unsealed")
          /\ Goto(r, "check")
       \/ Goto(r, AtRest) /\ UNCHANGED pool
    /\ UNCHANGED <<disk, bucket, phase, children, recoveryHistory>>

\* Mutant: whether replication has started is not asked.
CheckNothing(r) ==
    /\ handlers[r] = "check"
    /\ Goto(r, "spawn")
    /\ UNCHANGED <<disk, bucket, phase, pool, children, recoveryHistory>>

\* encrypted_storage_replication_started
CheckStarted(r) ==
    /\ handlers[r] = "check"
    /\ Goto(r, IF Started THEN "write" ELSE "spawn")
    /\ UNCHANGED <<disk, bucket, phase, pool, children, recoveryHistory>>

\* replicate: a failure is logged.  Litestream now has the key, and may apply
\* the rest of the WAL in the bucket.
SpawnReplication(r) ==
    /\ handlers[r] = "spawn"
    /\ \/ /\ mine' = [mine EXCEPT !.enc = @ + 1]
          /\ Goto(r, "set")
          /\ \/ UNCHANGED enc
             \/ /\ encBackup # None
                /\ encBackup.key = enc.key
                /\ encBackup.rows > enc.rows
                /\ enc' = [enc EXCEPT !.rows = encBackup.rows]
       \/ Goto(r, "write") /\ UNCHANGED <<mine, enc>>
    /\ UNCHANGED <<seal, tmp, bucket, phase, pool, child, orphans, recoveryHistory>>

SetChild(r) ==
    /\ handlers[r] = "set"
    /\ SetHandle("enc")
    /\ Goto(r, "write")
    /\ UNCHANGED <<disk, bucket, phase, pool, mine, orphans, recoveryHistory>>

\* The rest of unseal, and what other requests write later on; it fails if
\* the pool was sealed meanwhile.
Write(r) ==
    /\ handlers[r] = "write"
    /\ Goto(r, AtRest)
    /\ \/ /\ pool = "unsealed"
          /\ enc.rows < MaxRows
          /\ enc' = [enc EXCEPT !.rows = @ + 1]
       \/ UNCHANGED enc
    /\ UNCHANGED <<seal, tmp, bucket, phase, pool, children, recoveryHistory>>

\* An unseal that has opened the pool and is about to start the replication
Replicating(r) == handlers[r] \in {"check", "spawn", "set"}

\* EncryptedPool::seal; the replication goes on.
Seal(r) ==
    /\ handlers[r] = "seal"
    /\ Transition("unsealed", "sealed")
    /\ overlap' = (overlap \/ \E q \in Request : Replicating(q))
    /\ Goto(r, AtRest)
    /\ UNCHANGED <<disk, bucket, phase, children, keys>>

\* A query of the handler fails.
QueryFails(r) ==
    /\ handlers[r] # AtRest
    /\ handlers[r] # "set"
    /\ Goto(r, AtRest)
    /\ UNCHANGED <<disk, bucket, phase, pool, children, recoveryHistory>>

-----------------------------------------------------------------------------
(***************************************************************************)
(* Litestream, shutdown and faults                                         *)
(***************************************************************************)

SyncSeal ==
    /\ mine.seal > 0 \/ orphans.seal
    /\ seal # None
    /\ sealBackup' = seal
    /\ UNCHANGED <<disk, encBackup, phase, pool, children, handlers, recoveryHistory>>

\* The WAL is extended, or a new snapshot taken, which is also done when the
\* database is not the one replicated so far.
SyncEncrypted ==
    /\ mine.enc > 0 \/ orphans.enc
    /\ enc # None
    /\ \/ encBackup' = [key |-> enc.key, snapshot |-> enc.rows, rows |-> enc.rows]
       \/ /\ encBackup # None
          /\ encBackup.key = enc.key
          /\ encBackup.rows < enc.rows
          /\ encBackup' = [encBackup EXCEPT !.rows = enc.rows]
    /\ UNCHANGED <<disk, sealBackup, phase, pool, children, handlers, recoveryHistory>>

\* kill_all; the server then waits for the requests in progress.
KillAll ==
    /\ phase = "up"
    /\ phase' = "closing"
    /\ mine' = [seal |-> IF child.seal THEN mine.seal - 1 ELSE mine.seal,
                enc |-> IF child.enc THEN mine.enc - 1 ELSE mine.enc]
    /\ child' = NoChild
    /\ UNCHANGED <<disk, bucket, pool, orphans, handlers, recoveryHistory>>

\* The process ends and leaves behind what it has not killed.
End ==
    /\ phase' = "down"
    /\ orphans' = [seal |-> orphans.seal \/ mine.seal > 0, enc |-> orphans.enc \/ mine.enc > 0]
    /\ mine' = NoProcess
    /\ child' = NoChild
    /\ handlers' = [r \in Request |-> AtRest]
    /\ overlap' = FALSE
    /\ UNCHANGED <<disk, bucket, pool, keys>>

Exit == phase = "closing" /\ Quiescent /\ End
Crash == phase # "down" /\ End

\* The disk is lost, with the machine.
LoseDisk ==
    /\ phase = "down"
    /\ seal' = None
    /\ enc' = None
    /\ tmp' = None
    /\ orphans' = NoChild
    /\ UNCHANGED <<bucket, phase, pool, child, mine, handlers, recoveryHistory>>

-----------------------------------------------------------------------------
StartStep ==
    Start \/ RecoverSeal \/ RecoverSnapshot \/ RenameSnapshot \/ ConnectSeal \/ ReplicateSeal \/ NewPool

HandlerStep(r) ==
    \/ SetConfig(r) \/ Create(r)
    \/ Open(r) \/ CheckStarted(r) \/ SpawnReplication(r) \/ SetChild(r) \/ Write(r)
    \/ Seal(r) \/ QueryFails(r)

RecoveryNext ==
    \/ StartStep
    \/ \E r \in Request :
          \/ Begin(r, "uninitialized", "setconfig")
          \/ Begin(r, "sealed", "open")
          \/ Begin(r, "unsealed", "write")
          \/ Begin(r, "unsealed", "seal")
          \/ HandlerStep(r)
    \/ SyncSeal \/ SyncEncrypted
    \/ KillAll \/ Exit \/ Crash \/ LoseDisk

RecoverySpec == RecoveryInit /\ [][RecoveryNext]_recoveryVars

-----------------------------------------------------------------------------
(***************************************************************************)
(* Properties                                                              *)
(***************************************************************************)

\* The replicas of both databases belong together.
BackupComplete == encBackup # None /\ sealBackup = encBackup.key

\* Once both databases have reached the bucket, no start makes a new key and
\* a new database in the place of the one replicated, wherever it fails or
\* crashes and whatever was lost; and the server that comes up works with the
\* configuration of that key, so that the shares dealt unseal it (the order
\* of the recoveries in start, set_config before pool.initialize).
BackupIsKept ==
    BackupComplete =>
        /\ enc # None => enc.key = encBackup.key
        /\ phase = "up" => seal = encBackup.key

\* While the disk is there, nothing written to the encrypted database is
\* undone by a snapshot from the bucket ("Local storage should be more up to
\* date, so don't overwrite it").
LocalStorageWins ==
    [][enc # None /\ enc' # None => enc'.key = enc.key /\ enc'.rows >= enc.rows]_recoveryVars

\* However often the server is unsealed, one Litestream at most replicates the
\* encrypted database, and kill_all knows it, unless a seal overtook an unseal
\* that was about to start one ("Replication could have already started if
\* sealed and then unsealed again").
OneReplication ==
    phase = "up" /\ ~ overlap =>
        /\ mine.enc <= 1
        /\ mine.enc = 1 => child.enc \/ \E r \in Request : handlers[r] = "set"
=============================================================================
