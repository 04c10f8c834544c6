-------------------------------- MODULE Startup --------------------------------
(***************************************************************************)
(* How a server starts (cmd/engram/main.go, startup_retry.go) and brings   *)
(* the schema up to date (internal/db/postgres.go): the checks of the      *)
(* configuration, the probe of the embedder, the wait for the database     *)
(* with its capped backoff, the migrations under a database-wide advisory  *)
(* lock, the backfill of vectors, and the pre-warming before /ready.       *)
(*                                                                         *)
(* Several servers start against one database.  The migrations stand for   *)
(* the kinds there are: an ordinary file runs in a transaction with its    *)
(* record; 003 and the concurrent index run outside one; 003 is followed   *)
(* by the backfill and 004 waits for it.  Time is counted in units of the  *)
(* first backoff.                                                          *)
(***************************************************************************)
EXTENDS Naturals, FiniteSets, FiniteSetsExt

CONSTANTS
    Nodes,          \* servers that start
    Legacy,         \* chunks with a BYTEA embedding
    StartupWait,    \* MaxWait
    MaxBackoff,
    GatewayEnabled, \* ENGRAM_EMBED_GW_ENABLED
    MaxBootFaults,  \* bound: connections and statements that fail
    MaxRestarts     \* bound: servers that die and are started again

NoNode == "none"

ASSUME StartupAssumption ==
    StartupWait \in Nat \ {0} /\ MaxBackoff \in Nat \ {0} /\ NoNode \notin Nodes

(* 001_initial, 003_pgvector, 004_pgvector_finalize, 018_vector_resize and *)
(* 023_null_embed_covering_idx, in the order of the directory.             *)
Pgvector == 2
Finalize == 3
CoveringIdx == 5
LastFile == 5
InTransaction(f) == f \notin {Pgvector, CoveringIdx}

VARIABLES
    boot,       \* per server: where it is, its backoff and the time it waited
    mlock,      \* holder of the advisory lock 1986753120
    applied,    \* schema_migrations
    ran,        \* how often the SQL of a file has taken effect
    flag,       \* pgvector_backfill_pending: "unset", "true", "false"
    malformed,  \* chunks whose bytes are no vector
    unconverted,\* chunks with an embedding and no embedding_vec
    index,      \* the concurrent index: "none", "invalid", "valid"
    bfaults, restarts

startupVars == <<boot, mlock, applied, ran, flag, malformed, unconverted, index,
                bfaults, restarts>>
schema == <<applied, ran, flag, malformed, unconverted, index>>

Fresh0 == [at |-> "config", file |-> 1, backoff |-> 1, waited |-> 0,
           stage |-> "shared", phase |-> "starting"]

StartupInit ==
    /\ boot = [n \in Nodes |-> Fresh0]
    /\ mlock = NoNode
    /\ applied = {} /\ ran = [f \in 1 .. LastFile |-> 0]
    /\ malformed \in SUBSET Legacy
    /\ flag = "unset" /\ unconverted = Legacy /\ index = "none"
    /\ bfaults = 0 /\ restarts = 0

BootAt(n, pcs) == boot[n].at \in pcs

Goes(n, pc) == boot' = [boot EXCEPT ![n].at = pc]

BFails == bfaults < MaxBootFaults /\ bfaults' = bfaults + 1
BWorks == UNCHANGED bfaults

Releases(n) == mlock' = IF mlock = n THEN NoNode ELSE mlock

-----------------------------------------------------------------------------
(* Configuration and probe                                                 *)

(* Flags, required variables, the bind interlock and the URLs. *)
CheckConfig(n) ==
    /\ BootAt(n, {"config"})
    /\ \/ BWorks /\ Goes(n, "embedprobe")
       \/ BFails /\ Goes(n, "failed")
    /\ UNCHANGED <<mlock, schema, restarts>>

(* An embedder that does not answer degrades the server; one that answers  *)
(* with the wrong model or size stops a server with the gateway.           *)
EmbedProbe(n) ==
    /\ BootAt(n, {"embedprobe"})
    /\ \/ BWorks /\ Goes(n, "connect")
       \/ BFails /\ Goes(n, IF GatewayEnabled THEN "failed" ELSE "connect")
    /\ UNCHANGED <<mlock, schema, restarts>>

-----------------------------------------------------------------------------
(* The wait for a dependency                                               *)

Left(n) == StartupWait - boot[n].waited

Attempting == {"connect", "lock", "check", "apply", "backfill", "record"}

(* An attempt fails after some of the time that is left, at its deadline   *)
(* at the latest; its pool is closed and with it the session of the lock.  *)
AttemptEnds(n) ==
    \E d \in 0 .. Left(n) :
       boot' = [boot EXCEPT ![n].waited = @ + d,
                            ![n].at = IF d = Left(n) THEN "failed" ELSE "sleep"]

AttemptFails(n) ==
    /\ BootAt(n, Attempting)
    /\ BFails
    /\ AttemptEnds(n)
    /\ Releases(n)
    /\ index' = IF BootAt(n, {"apply"}) /\ boot[n].file = CoveringIdx /\ index = "none"
                THEN "invalid" ELSE index
    /\ UNCHANGED <<applied, ran, flag, malformed, unconverted, restarts>>

(* An attempt that still waits for the lock ends with its deadline. *)
LockTimesOut(n) ==
    /\ BootAt(n, {"lock"}) /\ mlock # NoNode
    /\ boot' = [boot EXCEPT ![n].waited = StartupWait, ![n].at = "failed"]
    /\ UNCHANGED <<mlock, schema, bfaults, restarts>>

(* "invalid DSN" or a default password. *)
PermanentError(n) ==
    /\ BootAt(n, {"connect"})
    /\ BFails
    /\ Goes(n, "failed")
    /\ UNCHANGED <<mlock, schema, restarts>>

(* The sleep is cut to what is left; the next attempt starts with a new    *)
(* pool, if there is time.                                                 *)
RetrySleep(n) ==
    /\ BootAt(n, {"sleep"})
    /\ LET pause == Min({boot[n].backoff, Left(n)})
       IN boot' = [boot EXCEPT ![n].waited = @ + pause,
                               ![n].backoff = Min({2 * @, MaxBackoff}),
                               ![n].at = IF pause = Left(n) THEN "failed" ELSE "connect"]
    /\ UNCHANGED <<mlock, schema, bfaults, restarts>>

-----------------------------------------------------------------------------
(* NewSharedPool and runMigrations                                         *)

Connect(n) ==
    /\ BootAt(n, {"connect"})
    /\ BWorks
    /\ Goes(n, IF boot[n].stage = "shared" THEN "lock" ELSE "rehydrate")
    /\ UNCHANGED <<mlock, schema, restarts>>

(* Mutant: the lock of one project, as it was before. *)
TakeProjectLock(n) ==
    /\ BootAt(n, {"lock"})
    /\ boot' = [boot EXCEPT ![n].at = "check", ![n].file = 1]
    /\ UNCHANGED <<mlock, schema, bfaults, restarts>>

TakeLock(n) ==
    /\ BootAt(n, {"lock"}) /\ mlock = NoNode
    /\ mlock' = n
    /\ boot' = [boot EXCEPT ![n].at = "check", ![n].file = 1]
    /\ UNCHANGED <<schema, bfaults, restarts>>

Skips(f) == f \in applied \/ (f = Finalize /\ flag = "true")

(* Look for the next file: after the last one the lock is released. *)
CheckMigration(n) ==
    /\ BootAt(n, {"check"})
    /\ LET f == boot[n].file
       IN \/ f > LastFile /\ Goes(n, "done") /\ Releases(n)
          \/ f =< LastFile /\ Skips(f)
             /\ boot' = [boot EXCEPT ![n].file = f + 1] /\ UNCHANGED mlock
          \/ f =< LastFile /\ ~Skips(f) /\ Goes(n, "apply") /\ UNCHANGED mlock
    /\ UNCHANGED <<schema, bfaults, restarts>>

(* 004 drops the BYTEA column, and so does 018: what is not converted then *)
(* is lost.                                                                *)
Dropped == ran[Finalize] > 0

(* A file and its record in one transaction. *)
ApplyInTx(n) ==
    /\ BootAt(n, {"apply"}) /\ InTransaction(boot[n].file)
    /\ ran' = [ran EXCEPT ![boot[n].file] = @ + 1]
    /\ applied' = applied \cup {boot[n].file}
    /\ boot' = [boot EXCEPT ![n].at = "check", ![n].file = @ + 1]
    /\ UNCHANGED <<mlock, flag, malformed, unconverted, index, bfaults, restarts>>

(* A file that must run outside a transaction: its statements say IF NOT   *)
(* EXISTS and ON CONFLICT DO NOTHING.                                      *)
ApplyOutsideTx(n) ==
    /\ BootAt(n, {"apply"}) /\ ~InTransaction(boot[n].file)
    /\ LET f == boot[n].file
       IN /\ ran' = [ran EXCEPT ![f] = @ + 1]
          /\ flag' = IF f = Pgvector /\ flag = "unset" THEN "true" ELSE flag
          /\ index' = IF f = CoveringIdx /\ index = "none" THEN "valid" ELSE index
          /\ Goes(n, IF f = Pgvector THEN "backfill" ELSE "record")
    /\ UNCHANGED <<mlock, applied, malformed, unconverted, bfaults, restarts>>

(* The conversion goes row by row and skips bytes that are no vector; only *)
(* when nothing remains is the flag cleared.                               *)
BackfillVectors(n) ==
    /\ BootAt(n, {"backfill"})
    /\ unconverted' = unconverted \cap malformed
    /\ flag' = IF unconverted' = {} THEN "false" ELSE flag
    /\ Goes(n, "record")
    /\ UNCHANGED <<mlock, applied, ran, malformed, index, bfaults, restarts>>

RecordMigration(n) ==
    /\ BootAt(n, {"record"})
    /\ applied' = applied \cup {boot[n].file}
    /\ boot' = [boot EXCEPT ![n].at = "check", ![n].file = @ + 1]
    /\ UNCHANGED <<mlock, ran, flag, malformed, unconverted, index, bfaults, restarts>>

-----------------------------------------------------------------------------
(* The rest of runServer                                                   *)

(* With the gateway a second pool is waited for, with a wait of its own. *)
SharedPoolOpen(n) ==
    /\ BootAt(n, {"done"})
    /\ boot' = [boot EXCEPT ![n].at = IF GatewayEnabled THEN "connect" ELSE "rehydrate",
                            ![n].stage = "gateway", ![n].waited = 0, ![n].backoff = 1]
    /\ UNCHANGED <<mlock, schema, bfaults, restarts>>

(* Mutant: the phase only moves when there is something to warm. *)
ServeUnwarmed(n) ==
    /\ BootAt(n, {"rehydrate"})
    /\ Goes(n, "serving")
    /\ UNCHANGED <<mlock, schema, bfaults, restarts>>

(* The workers start, sessions are rehydrated, the pre-warm goroutine is   *)
(* started and the server listens.                                         *)
Serve(n) ==
    /\ BootAt(n, {"rehydrate"})
    /\ boot' = [boot EXCEPT ![n].at = "serving", ![n].phase = "warming"]
    /\ UNCHANGED <<mlock, schema, bfaults, restarts>>

(* WarmProjects: engines that cannot be made, or not in 30 seconds, are    *)
(* logged.                                                                 *)
Prewarm(n) ==
    /\ BootAt(n, {"serving"}) /\ boot[n].phase = "warming"
    /\ boot' = [boot EXCEPT ![n].phase = "warm"]
    /\ UNCHANGED <<mlock, schema, bfaults, restarts>>

(* The process is killed; its session, and the lock, end with it. *)
Dies(n) ==
    /\ ~BootAt(n, {"dead"}) /\ restarts < MaxRestarts
    /\ restarts' = restarts + 1
    /\ Goes(n, "dead")
    /\ Releases(n)
    /\ index' = IF BootAt(n, {"apply"}) /\ boot[n].file = CoveringIdx /\ index = "none"
                THEN "invalid" ELSE index
    /\ UNCHANGED <<applied, ran, flag, malformed, unconverted, bfaults>>

StartAgain(n) ==
    /\ BootAt(n, {"dead"})
    /\ boot' = [boot EXCEPT ![n] = Fresh0]
    /\ UNCHANGED <<mlock, schema, bfaults, restarts>>

-----------------------------------------------------------------------------

StartupStep(n) ==
    \/ CheckConfig(n) \/ EmbedProbe(n)
    \/ AttemptFails(n) \/ LockTimesOut(n) \/ PermanentError(n) \/ RetrySleep(n)
    \/ Connect(n) \/ TakeLock(n) \/ CheckMigration(n)
    \/ ApplyInTx(n) \/ ApplyOutsideTx(n) \/ BackfillVectors(n) \/ RecordMigration(n)
    \/ SharedPoolOpen(n) \/ Serve(n) \/ Prewarm(n)
    \/ StartAgain(n)

StartupNext == \E n \in Nodes : StartupStep(n) \/ Dies(n)

(* A server goes on starting: every step of it ends or is timed out. *)
StartupFairness == \A n \in Nodes : WF_startupVars(StartupStep(n))

StartupSpec == StartupInit /\ [][StartupNext]_startupVars /\ StartupFairness

-----------------------------------------------------------------------------

(* However many servers start, die and start again at once, a file that    *)
(* runs in a transaction takes effect once: the advisory lock and the record in  *)
(* the same transaction see to it.                                         *)
MigratedOnce ==
    \A f \in 1 .. LastFile :
       InTransaction(f) => ran[f] = (IF f \in applied THEN 1 ELSE 0)

(* The old column is dropped by 004 only when every vector in it that can  *)
(* be converted has been.                                                  *)
VectorsConverted == Dropped => unconverted = {}

(* No dependency is waited for longer than the window the deployment's     *)
(* startup probe allows.                                                   *)
WaitBounded == \A n \in Nodes : boot[n].waited =< StartupWait

(* Whatever nodes start, race, die and restart, the migrations leave a     *)
(* schema every file shaped once, no vector was lost on the way and no     *)
(* wait outlived its window.                                               *)
StartupSound == MigratedOnce /\ VectorsConverted /\ WaitBounded

(* A server that starts decides: it serves and becomes ready, or it fails. *)
StartupDecides ==
    \A n \in Nodes :
       []<>(BootAt(n, {"failed"}) \/ boot[n].phase = "warm")

(* A backfill that left rows behind is tried again by the next start       *)
(* ("leave the flag set so the next startup retries the conversion"): no   *)
(* start passes the migrations with the flag set and 003 out of its way.   *)
BackfillRetried ==
    \A n \in Nodes :
       (BootAt(n, {"check"}) /\ boot[n].file = Pgvector /\ flag = "true")
         => Pgvector \notin applied
=============================================================================
