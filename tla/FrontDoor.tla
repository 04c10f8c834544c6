------------------------------- MODULE FrontDoor -------------------------------
(***************************************************************************)
(* What a request meets before a tool (internal/mcp/server.go): the rate   *)
(* limiters with their eviction, the bearer check, the one token handed    *)
(* out without it, and the two views of the embedder's health, the flag    *)
(* behind /health and /ready and the cache of internal/mcp/                *)
(* embedder_health.go.                                                     *)
(*                                                                         *)
(* A unit of time is the refill of one setup token (100 seconds).  The     *)
(* limiters and the health views share nothing; a behaviour shows one of   *)
(* them.                                                                   *)
(***************************************************************************)
EXTENDS Naturals, FiniteSets, FiniteSetsExt

CONSTANTS
    Peers,          \* physical addresses
    Local,          \* the loopback addresses among them
    ClientBurst,    \* burst of the general limiter, refilled within a unit
    SetupBurst,     \* burst of the setup limiter
    EvictAfter,     \* idle time after which evict drops an entry
    Probers,        \* concurrent /health requests
    Readers,        \* concurrent Snapshot calls
    MaxGrants,      \* bound: grants counted
    MaxFlips        \* bound: how often the embedder goes up or down

(* A setup bucket is full again by the time its entry may be dropped. *)
ASSUME DoorAssumption ==
    /\ ClientBurst \in Nat \ {0} /\ SetupBurst \in Nat \ {0}
    /\ EvictAfter \in Nat /\ SetupBurst =< EvictAfter
    /\ MaxGrants \in Nat

VARIABLES
    part,       \* "limits" or "health"
    bucket,     \* clients and setupClients: tokens and idle time, or NoBucket
    ledger,     \* what a limiter that evicts nothing would hold
    granted,    \* tofuGranted
    grants,     \* tokens handed out without a bearer
    embUp,      \* the embedder answers
    flips,
    embedFlag,       \* embedDegraded
    prober,     \* /health handlers
    cache,      \* cachedOK, and whether lastCheck is within the TTL
    reader      \* Snapshot calls; one at a time holds mu

limitVars == <<bucket, ledger, granted, grants>>
healthVars == <<embUp, flips, embedFlag, prober, cache, reader>>
doorVars == <<part, limitVars, healthVars>>

Limiters == {"clients", "setup"}
Burst == [clients |-> ClientBurst, setup |-> SetupBurst]
Refill == [clients |-> ClientBurst, setup |-> 1]

(* Every bucket and every ledger belongs to a limiter and a peer. *)
Keys == Limiters \X Peers
NoBucket == [tokens |-> SetupBurst + ClientBurst, idle |-> 0]

DoorInit ==
    /\ part \in {"limits", "health"}
    /\ bucket = [k \in Keys |-> NoBucket]
    /\ ledger = [k \in Keys |-> Burst[k[1]]]
    /\ granted = FALSE /\ grants = 0
    /\ embUp \in BOOLEAN /\ flips = 0
    /\ embedFlag = ~embUp
    /\ prober = [c \in Probers |-> [at |-> "idle"]]
    /\ cache = [ok |-> TRUE, fresh |-> FALSE]
    /\ reader = [c \in Readers |-> "idle"]

-----------------------------------------------------------------------------
(* Rate limits and the setup token                                         *)

Spent(n) == IF n > 0 THEN n - 1 ELSE 0

(* allow and allowSetupToken: an unknown peer starts with a full bucket;   *)
(* lastSeen is renewed whether or not a token is left.                     *)
Tokens(k) == IF bucket[k] = NoBucket THEN Burst[k[1]] ELSE bucket[k].tokens

Allow(k) ==
    /\ bucket' = [bucket EXCEPT ![k] = [tokens |-> Spent(Tokens(k)), idle |-> 0]]
    /\ ledger' = [ledger EXCEPT ![k] = Spent(@)]

(* The middleware: loopback peers are not limited; what passes meets the   *)
(* bearer check, which changes nothing.                                    *)
Admit(p) ==
    /\ part = "limits" /\ p \notin Local
    /\ Allow(<<"clients", p>>)
    /\ UNCHANGED <<part, granted, grants, healthVars>>

(* /setup-token: limited by the physical peer; the first loopback request  *)
(* of the process gets the token, the others need the bearer.              *)
SetupToken(p) ==
    /\ part = "limits"
    /\ Allow(<<"setup", p>>)
    /\ LET first == Tokens(<<"setup", p>>) > 0 /\ p \in Local /\ ~granted
       IN /\ granted' = (granted \/ first)
          /\ grants' = IF first THEN Min({grants + 1, MaxGrants}) ELSE grants
    /\ UNCHANGED <<part, healthVars>>

TimePasses ==
    /\ part = "limits"
    /\ bucket' = [k \in Keys |->
         IF bucket[k] = NoBucket THEN NoBucket
         ELSE [tokens |-> Min({bucket[k].tokens + Refill[k[1]], Burst[k[1]]}),
               idle |-> Min({bucket[k].idle + 1, EvictAfter + 1})]]
    /\ ledger' = [k \in Keys |-> Min({ledger[k] + Refill[k[1]], Burst[k[1]]})]
    /\ UNCHANGED <<part, granted, grants, healthVars>>

(* Mutant: an entry is dropped one unit too early. *)
EvictEarly ==
    /\ part = "limits"
    /\ bucket' = [k \in Keys |-> IF bucket[k].idle + 1 >= EvictAfter THEN NoBucket ELSE bucket[k]]
    /\ UNCHANGED <<part, ledger, granted, grants, healthVars>>

(* evict, every five minutes. *)
Evict ==
    /\ part = "limits"
    /\ bucket' = [k \in Keys |-> IF bucket[k].idle > EvictAfter THEN NoBucket ELSE bucket[k]]
    /\ UNCHANGED <<part, ledger, granted, grants, healthVars>>

-----------------------------------------------------------------------------
(* Health                                                                  *)

EmbedderFlips ==
    /\ part = "health" /\ flips < MaxFlips
    /\ flips' = flips + 1
    /\ embUp' = ~embUp
    /\ UNCHANGED <<part, limitVars, embedFlag, prober, cache, reader>>

(* handleHealth: the queue check, ... *)
HealthProbe(c) ==
    /\ part = "health" /\ prober[c].at = "idle"
    /\ prober' = [prober EXCEPT ![c] = [at |-> "probed", ok |-> embUp]]
    /\ UNCHANGED <<part, limitVars, embUp, flips, embedFlag, cache, reader>>

(* ... the flag as it was, ... *)
HealthLoad(c) ==
    /\ part = "health" /\ prober[c].at = "probed"
    /\ prober' = [prober EXCEPT ![c] = [at |-> "loaded", ok |-> @.ok, was |-> embedFlag]]
    /\ UNCHANGED <<part, limitVars, embUp, flips, embedFlag, cache, reader>>

Status(ok, was) == IF ok THEN "ok" ELSE IF was THEN "degraded" ELSE "error"

(* Mutant: the flag stays once it is set. *)
HealthStoreDown(c) ==
    /\ part = "health" /\ prober[c].at = "loaded"
    /\ embedFlag' = (embedFlag \/ ~prober[c].ok)
    /\ prober' = [prober EXCEPT ![c] = [at |-> "idle"]]
    /\ UNCHANGED <<part, limitVars, embUp, flips, cache, reader>>

(* ... and the flag as it is from now on.  The answer is 503 for "error"   *)
(* and 200 otherwise.                                                      *)
HealthStore(c) ==
    /\ part = "health" /\ prober[c].at = "loaded"
    /\ embedFlag' = ~prober[c].ok
    /\ prober' = [prober EXCEPT ![c] = [at |-> "idle"]]
    /\ UNCHANGED <<part, limitVars, embUp, flips, cache, reader>>

Probing == \E c \in Readers : reader[c] = "probing"

(* Snapshot: the mutex is held during the check.  A fresh result is        *)
(* returned as it is; lastCheck will be the time before the check.         *)
SnapshotProbe(c) ==
    /\ part = "health" /\ reader[c] = "idle" /\ ~Probing /\ ~cache.fresh
    /\ reader' = [reader EXCEPT ![c] = "probing"]
    /\ cache' = [cache EXCEPT !.fresh = TRUE]
    /\ UNCHANGED <<part, limitVars, embUp, flips, embedFlag, prober>>

(* The check uses the context of the caller: when its request is cancelled *)
(* the check fails, and its failure is what everyone reads from the cache. *)
SnapshotStore(c) ==
    /\ part = "health" /\ reader[c] = "probing"
    /\ \E ok \in {embUp, FALSE} : cache' = [cache EXCEPT !.ok = ok]
    /\ reader' = [reader EXCEPT ![c] = IF cache'.ok THEN "idle" ELSE "degraded"]
    /\ UNCHANGED <<part, limitVars, embUp, flips, embedFlag, prober>>

(* The caller has put the result into its answer. *)
SnapshotUsed(c) ==
    /\ part = "health" /\ reader[c] = "degraded"
    /\ reader' = [reader EXCEPT ![c] = "idle"]
    /\ UNCHANGED <<part, limitVars, embUp, flips, embedFlag, prober, cache>>

TtlPasses ==
    /\ part = "health" /\ cache.fresh
    /\ cache' = [cache EXCEPT !.fresh = FALSE]
    /\ UNCHANGED <<part, limitVars, embUp, flips, embedFlag, prober, reader>>

-----------------------------------------------------------------------------

ProberStep(c) == HealthProbe(c) \/ HealthLoad(c) \/ HealthStore(c)
ReaderStep(c) == SnapshotProbe(c) \/ SnapshotStore(c) \/ SnapshotUsed(c)

DoorNext ==
    \/ \E p \in Peers : Admit(p) \/ SetupToken(p)
    \/ TimePasses \/ Evict
    \/ EmbedderFlips \/ TtlPasses
    \/ \E c \in Probers : ProberStep(c)
    \/ \E c \in Readers : ReaderStep(c)

(* The orchestrator keeps polling /health. *)
DoorFairness == \A c \in Probers : WF_doorVars(ProberStep(c))

DoorSpec == DoorInit /\ [][DoorNext]_doorVars /\ DoorFairness

-----------------------------------------------------------------------------

(* Dropping idle entries changes no decision: a peer whose entry was       *)
(* dropped has by then earned the full bucket it will be given, also in    *)
(* the setup limiter, which refills within exactly the time after which    *)
(* entries are dropped; and the token is given without a bearer once.      *)
EvictionInvisible ==
    /\ \A k \in Keys : Tokens(k) = ledger[k]
    /\ grants =< 1

(* Once the embedder stays up, the flag behind /ready and /health is       *)
(* cleared for good, whatever order concurrent probes read and store in.   *)
HealthRecovers == <>[](part = "health" /\ embUp) => <>[](~embedFlag)

(* /health answers 503 as long as an embedder that was there at the start  *)
(* is away ("503 ... Ollama failure when EmbedDegraded=false").            *)
DownIsUnavailable ==
    \A c \in Probers : prober[c].at = "loaded" => Status(prober[c].ok, prober[c].was) # "degraded"

(* A Snapshot tells a caller that the embedder is down only when it is. *)
SnapshotTruthful == [](\A c \in Readers : reader[c] = "degraded" => flips > 0 \/ ~embUp)
=============================================================================
