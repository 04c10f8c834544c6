----------------------------- MODULE EnginePool -----------------------------
(***************************************************************************)
(* The pool of project engines (internal/mcp/pool.go): Get with its        *)
(* double-checked fast path, the singleflight initialization shared by the *)
(* concurrent callers of one project, LRU eviction at maxPoolSize and      *)
(* Close.  A critical section of p.mu is one action; the factory and the   *)
(* time between the closed test, the lookup, the join of a flight and the  *)
(* delivery of its result are where callers interleave.                    *)
(*                                                                         *)
(* An engine is <<project, k>>, the k-th one the factory made for it.  The *)
(* lastAccess times are kept as the order they induce: `lru` lists the     *)
(* cached projects, least recently used first.  Project names are already  *)
(* trimmed and lower-cased, so `Blank` is what a blank name becomes; it is *)
(* a legal key (POST /atoms tests the name before Get trims it).           *)
(***************************************************************************)
EXTENDS Naturals, FiniteSets, Sequences, SequencesExt

CONSTANTS
    Projects,
    Blank,          \* the project name "", in Projects or not
    Callers,        \* concurrent Get calls (tool handlers, WarmProjects)
    MaxPoolSize,    \* maxPoolSize
    MaxMade         \* bound: engines the factory makes per project

ASSUME PoolAssumption == MaxPoolSize \in Nat \ {0} /\ MaxMade \in Nat \ {0}

VARIABLES
    engines,    \* p.engines: project -> k of the cached engine, 0 if none
    lru,        \* the keys of p.engines by lastAccess
    closed,     \* p.closed
    swept,      \* Close has stopped the cached engines and returned
    made,       \* engines made so far per project
    closes,     \* calls of Engine.Close per engine
    flight,     \* per project, the singleflight call in progress
    result,     \* its engine, 0 for an error or none yet
    pc, proj,   \* where each caller is and for which project, if any
    handle      \* the engine a caller was handed, 0 if none

poolVars == <<engines, lru, closed, swept, made, closes, flight, result, pc, proj, handle>>

Engines == Projects \X (1 .. MaxMade)
NoProject == "none"

PoolTypeOK ==
    /\ engines \in [Projects -> 0 .. MaxMade]
    /\ lru \in Seq(Projects) /\ IsInjective(lru)
    /\ ToSet(lru) = {p \in Projects : engines[p] # 0}
    /\ closed \in BOOLEAN /\ swept \in BOOLEAN
    /\ made \in [Projects -> 0 .. MaxMade]
    /\ closes \in [Engines -> Nat]
    /\ flight \in [Projects -> {"none", "recheck", "factory", "insert", "evicting", "deliver"}]
    /\ result \in [Projects -> 0 .. MaxMade]
    /\ pc \in [Callers -> {"idle", "lookup", "join", "waiting", "using"}]
    /\ proj \in [Callers -> Projects \cup {NoProject}]
    /\ handle \in [Callers -> 0 .. MaxMade]

PoolInit ==
    /\ engines = [p \in Projects |-> 0]
    /\ lru = <<>>
    /\ closed = FALSE /\ swept = FALSE
    /\ made = [p \in Projects |-> 0]
    /\ closes = [e \in Engines |-> 0]
    /\ flight = [p \in Projects |-> "none"]
    /\ result = [p \in Projects |-> 0]
    /\ pc = [c \in Callers |-> "idle"]
    /\ proj = [c \in Callers |-> NoProject]
    /\ handle = [c \in Callers |-> 0]

-----------------------------------------------------------------------------
Cached(p) == engines[p] # 0

Position(p) == CHOOSE i \in 1 .. Len(lru) : lru[i] = p

\* lastAccess.Store(time.Now().UnixNano()) of a cached project's entry.
Touched(p) == Append(RemoveAt(lru, Position(p)), p)

\* p.mu is free: nobody is stuck in the eviction loop.  The other critical
\* sections are single actions.
Unlocked == \A p \in Projects : flight[p] # "evicting"

\* Engine.Close on each of a set of engines.
Stop(S) == closes' = [e \in Engines |-> closes[e] + (IF e \in S THEN 1 ELSE 0)]

-----------------------------------------------------------------------------
(* Get, as seen by the caller.                                             *)

\* A closed pool refuses at once.
GetStart(c, p) ==
    /\ pc[c] = "idle" /\ ~closed
    /\ pc' = [pc EXCEPT ![c] = "lookup"]
    /\ proj' = [proj EXCEPT ![c] = p]
    /\ UNCHANGED <<engines, lru, closed, swept, made, closes, flight, result, handle>>

\* The fast path under RLock.
GetFast(c) ==
    /\ Unlocked /\ pc[c] = "lookup" /\ Cached(proj[c])
    /\ lru' = Touched(proj[c])
    /\ pc' = [pc EXCEPT ![c] = "using"]
    /\ handle' = [handle EXCEPT ![c] = engines[proj[c]]]
    /\ UNCHANGED <<engines, closed, swept, made, closes, flight, result, proj>>

GetMiss(c) ==
    /\ Unlocked /\ pc[c] = "lookup" /\ ~Cached(proj[c])
    /\ pc' = [pc EXCEPT ![c] = "join"]
    /\ UNCHANGED <<engines, lru, closed, swept, made, closes, flight, result, proj, handle>>

\* sfg.DoChan: start the flight of this project or join the one in progress.
GetJoin(c) ==
    /\ pc[c] = "join"
    /\ pc' = [pc EXCEPT ![c] = "waiting"]
    /\ flight' = [flight EXCEPT ![proj[c]] = IF @ = "none" THEN "recheck" ELSE @]
    /\ UNCHANGED <<engines, lru, closed, swept, made, closes, result, proj, handle>>

\* ctx.Done() while waiting: the flight goes on without this caller.
GetCancel(c) ==
    /\ pc[c] = "waiting"
    /\ pc' = [pc EXCEPT ![c] = "idle"]
    /\ proj' = [proj EXCEPT ![c] = NoProject]
    /\ UNCHANGED <<engines, lru, closed, swept, made, closes, flight, result, handle>>

\* The caller is done with the engine; handles are not counted.
Release(c) ==
    /\ pc[c] = "using"
    /\ pc' = [pc EXCEPT ![c] = "idle"]
    /\ proj' = [proj EXCEPT ![c] = NoProject]
    /\ handle' = [handle EXCEPT ![c] = 0]
    /\ UNCHANGED <<engines, lru, closed, swept, made, closes, flight, result>>

-----------------------------------------------------------------------------
(* The function of a flight.                                               *)

\* Mutant of Recheck: the second look at the cache is dropped.
RecheckSkipped(p) ==
    /\ Unlocked /\ flight[p] = "recheck"
    /\ flight' = [flight EXCEPT ![p] = "factory"]
    /\ UNCHANGED <<engines, lru, closed, swept, made, closes, result, pc, proj, handle>>

\* The second look, under RLock again.
Recheck(p) ==
    /\ Unlocked /\ flight[p] = "recheck"
    /\ flight' = [flight EXCEPT ![p] = IF Cached(p) THEN "deliver" ELSE "factory"]
    /\ result' = [result EXCEPT ![p] = engines[p]]
    /\ UNCHANGED <<engines, lru, closed, swept, made, closes, pc, proj, handle>>

FactoryOk(p) ==
    /\ flight[p] = "factory" /\ made[p] < MaxMade
    /\ made' = [made EXCEPT ![p] = @ + 1]
    /\ result' = [result EXCEPT ![p] = made[p] + 1]
    /\ flight' = [flight EXCEPT ![p] = "insert"]
    /\ UNCHANGED <<engines, lru, closed, swept, closes, pc, proj, handle>>

\* Mutant of FactoryFail: the flight ends and tells nobody.
FactoryFailSilent(p) ==
    /\ flight[p] = "factory"
    /\ flight' = [flight EXCEPT ![p] = "none"]
    /\ UNCHANGED <<engines, lru, closed, swept, made, closes, result, pc, proj, handle>>

\* The factory failed or ran into its 10 s timeout.
FactoryFail(p) ==
    /\ flight[p] = "factory"
    /\ flight' = [flight EXCEPT ![p] = "deliver"]
    /\ UNCHANGED <<engines, lru, closed, swept, made, closes, result, pc, proj, handle>>

Full == Len(lru) >= MaxPoolSize

\* What evictLRULocked removes to make room.  A full cache never holds more
\* than maxPoolSize engines, so the loop around it runs at most once.
Evicted == IF Full THEN {Head(lru)} ELSE {}

CacheNew(p) ==
    /\ Stop({<<q, engines[q]>> : q \in Evicted})
    /\ engines' = [q \in Projects |-> IF q = p THEN result[p]
                                      ELSE IF q \in Evicted THEN 0 ELSE engines[q]]
    /\ lru' = Append(IF Full THEN Tail(lru) ELSE lru, p)

\* Under p.mu.Lock.  An entry that appeared meanwhile wins and the new engine is
\* discarded; otherwise room is made and the new engine is cached.
Insert(p) ==
    /\ Unlocked /\ flight[p] = "insert" /\ (Cached(p) \/ Blank \notin Evicted)
    /\ IF Cached(p)
       THEN /\ Stop({<<p, result[p]>>})
            /\ lru' = Touched(p)
            /\ result' = [result EXCEPT ![p] = engines[p]]
            /\ UNCHANGED engines
       ELSE CacheNew(p) /\ UNCHANGED result
    /\ flight' = [flight EXCEPT ![p] = "deliver"]
    /\ UNCHANGED <<closed, swept, made, pc, proj, handle>>

\* evictLRULocked takes the key "" for "no entry" and returns: when it is the
\* oldest one, the loop goes round for ever with p.mu held.
InsertSpins(p) ==
    /\ Unlocked /\ flight[p] = "insert" /\ ~Cached(p) /\ Blank \in Evicted
    /\ flight' = [flight EXCEPT ![p] = "evicting"]
    /\ UNCHANGED <<engines, lru, closed, swept, made, closes, result, pc, proj, handle>>

\* singleflight forgets the key and sends the result to every waiter.
Deliver(p) ==
    /\ flight[p] = "deliver"
    /\ LET waiters == {c \in Callers : pc[c] = "waiting" /\ proj[c] = p}
       IN  /\ pc' = [c \in Callers |-> IF c \notin waiters THEN pc[c]
                                       ELSE IF result[p] = 0 THEN "idle" ELSE "using"]
           /\ proj' = [c \in Callers |-> IF c \in waiters /\ result[p] = 0
                                         THEN NoProject ELSE proj[c]]
           /\ handle' = [c \in Callers |-> IF c \in waiters THEN result[p] ELSE handle[c]]
    /\ flight' = [flight EXCEPT ![p] = "none"]
    /\ result' = [result EXCEPT ![p] = 0]
    /\ UNCHANGED <<engines, lru, closed, swept, made, closes>>

-----------------------------------------------------------------------------
(* Close, deferred by main; the entries stay in the map.                   *)

CloseMark ==
    /\ ~closed
    /\ closed' = TRUE
    /\ UNCHANGED <<engines, lru, swept, made, closes, flight, result, pc, proj, handle>>

CloseEngines ==
    /\ Unlocked /\ closed /\ ~swept
    /\ Stop({<<p, engines[p]>> : p \in {q \in Projects : Cached(q)}})
    /\ swept' = TRUE
    /\ UNCHANGED <<engines, lru, closed, made, flight, result, pc, proj, handle>>

-----------------------------------------------------------------------------
CallerStep(c) ==
    \/ \E p \in Projects : GetStart(c, p)
    \/ GetFast(c) \/ GetMiss(c) \/ GetJoin(c) \/ GetCancel(c) \/ Release(c)

FlightStep(p) ==
    Recheck(p) \/ FactoryOk(p) \/ FactoryFail(p)
    \/ Insert(p) \/ InsertSpins(p) \/ Deliver(p)

PoolNext ==
    \/ \E c \in Callers : CallerStep(c)
    \/ \E p \in Projects : FlightStep(p)
    \/ CloseMark \/ CloseEngines

PoolSpec == PoolInit /\ [][PoolNext]_poolVars

\* A flight is a goroutine of its own and its factory is bounded by a timeout;
\* a caller between two statements of Get goes on.  Nothing makes a caller
\* cancel, release its engine or come back.
PoolFairness ==
    /\ \A p \in Projects : WF_poolVars(FlightStep(p))
    /\ \A c \in Callers : WF_poolVars(GetFast(c) \/ GetMiss(c) \/ GetJoin(c))

PoolFairSpec == PoolSpec /\ PoolFairness

-----------------------------------------------------------------------------
(* Properties.                                                             *)

Made == {e \in Engines : e[2] =< made[e[1]]}
RunningEngines == {e \in Made : closes[e] = 0}
Initializing(e) == flight[e[1]] \in {"insert", "evicting"} /\ result[e[1]] = e[2]

\* "enforces a maximum pool size": the cache never outgrows maxPoolSize, also
\* with several projects being initialized at the limit.
PoolBounded == Cardinality({p \in Projects : Cached(p)}) =< MaxPoolSize

\* "preventing TOCTOU races and duplicate backend connection pools": a project
\* never has two running engines, not even while one is being made.
OneEnginePerProject == \A e, f \in RunningEngines : e[1] = f[1] => e = f

\* No engine escapes: until somebody stops it, a running engine is cached or is
\* about to be, so that Close or an eviction can still reach it.
NoOrphan == \A e \in RunningEngines : engines[e[1]] = e[2] \/ Initializing(e)

\* Whatever callers, flights, evictions and Close interleave, the cache stays
\* within maxPoolSize, a project has one running engine and the pool can reach it.
EnginesAccounted == PoolTypeOK /\ PoolBounded /\ OneEnginePerProject /\ NoOrphan

\* Every Get that waits for an initialization returns, whatever becomes of the
\* factory, of the other callers and of the pool, as long as the pool evicts the
\* least recently used engine whichever it is (EnginePool's doc comment).
WaitersReturn ==
    []Unlocked => \A c \in Callers : pc[c] = "waiting" ~> pc[c] # "waiting"

\* "If the pool is at capacity, the least-recently-used engine is evicted first"
\* (pool.go:60): an engine that was made for a project gets its place.
EvictionMakesRoom == \A p \in Projects : flight[p] = "insert" ~> Cached(p)
=============================================================================
