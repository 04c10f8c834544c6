------------------------------- MODULE Sessions -------------------------------
(***************************************************************************)
(* MCP sessions of the server (internal/mcp/server.go), their rows in the  *)
(* database (internal/db/postgres_session.go, cleanup.go) and the episodes *)
(* opened for them (internal/db/postgres_episode.go).                      *)
(*                                                                         *)
(* A session lives in the memory of the server: its registration with the  *)
(* transport, its fingerprint, its entry of sessionEpisodes.  The database *)
(* learns of it through goroutines, one for each insert, delete and touch, *)
(* which may run in any order or fail.  After a restart the rows of the    *)
(* last hours become sessions again.  Time passes in units that stand for  *)
(* hours; ages stop growing at MaxAge.                                     *)
(***************************************************************************)
EXTENDS Naturals, FiniteSets, FiniteSetsExt

CONSTANTS
    SIds,           \* session ids; every SSE connection gets a new one
    RehydrateWindow,\* SessionRehydrateWindow
    Retention,      \* the interval of deleteOldSessions
    EpisodeTTL,
    MaxSCrashes,    \* bound: crashes of the server
    MaxSFaults      \* bound: database calls that fail

ASSUME SessionsAssumption ==
    {RehydrateWindow, Retention, EpisodeTTL, MaxSCrashes, MaxSFaults} \subseteq Nat

MaxAge == Max({RehydrateWindow, Retention, EpisodeTTL}) + 1

VARIABLES
    conn,       \* the client's connection: "new", "open", "closed" (cleanly), "lost"
    live,       \* ids registered with the transport, each with its fingerprint
    touched,    \* sessionTouchTimes: ids touched within the last 30 seconds
    srow,       \* mcp_sessions: age of last_seen_at, or NoRow
    scalls,     \* goroutines with a database call to make
    episode,    \* "none", "open" or "ended", with the age of started_at
    keeper,     \* sessionEpisodes: ids whose episode this process will end
    up,
    scrashes, sfaults

sessionVars == <<conn, live, touched, srow, scalls, episode, keeper, up, scrashes, sfaults>>

NoRow == MaxAge + 1

SessionsInit ==
    /\ conn = [s \in SIds |-> "new"]
    /\ live = {} /\ touched = {}
    /\ srow = [s \in SIds |-> NoRow]
    /\ scalls = {}
    /\ episode = [s \in SIds |-> [st |-> "none", age |-> 0]]
    /\ keeper = {}
    /\ up = TRUE
    /\ scrashes = 0 /\ sfaults = 0

SFails == sfaults < MaxSFaults /\ sfaults' = sfaults + 1
SWorks == UNCHANGED sfaults

-----------------------------------------------------------------------------

(* OnRegisterSession: the fingerprint, the goroutine that inserts the row, *)
(* and an episode when the URL asked for one; a failing StartEpisode is    *)
(* logged.                                                                 *)
RegisterSession(s) ==
    /\ up /\ conn[s] = "new"
    /\ conn' = [conn EXCEPT ![s] = "open"]
    /\ live' = live \cup {s}
    /\ scalls' = scalls \cup {<<"insert", s>>}
    /\ \/ /\ SWorks
          /\ episode' = [episode EXCEPT ![s].st = "open"]
          /\ keeper' = keeper \cup {s}
       \/ (SWorks \/ SFails) /\ UNCHANGED <<episode, keeper>>
    /\ UNCHANGED <<touched, srow, up, scrashes>>

(* OnUnregisterSession: the row is deleted by another goroutine; the       *)
(* episode ends, unless its entry is gone or the call fails.               *)
UnregisterSession(s) ==
    /\ up /\ conn[s] = "open"
    /\ conn' = [conn EXCEPT ![s] = "closed"]
    /\ live' = live \ {s}
    /\ touched' = touched \ {s}
    /\ scalls' = scalls \cup {<<"delete", s>>}
    /\ keeper' = keeper \ {s}
    /\ \/ SWorks /\ s \in keeper /\ episode' = [episode EXCEPT ![s].st = "ended"]
       \/ SWorks /\ s \notin keeper /\ UNCHANGED episode
       \/ SFails /\ s \in keeper /\ UNCHANGED episode
    /\ UNCHANGED <<srow, up, scrashes>>

(* withSessionFingerprint: a message of a known session touches its row,   *)
(* at most once in 30 seconds, also when the touch then fails.             *)
PostMessage(s) ==
    /\ up /\ conn[s] \in {"open", "lost"}
    /\ s \in live /\ s \notin touched
    /\ touched' = touched \cup {s}
    /\ scalls' = scalls \cup {<<"touch", s>>}
    /\ UNCHANGED <<conn, live, srow, episode, keeper, up, scrashes, sfaults>>

(* What a statement leaves: an insert is an upsert that renews last_seen,  *)
(* a touch updates a row that is there and inserts none.                   *)
RowAfter(op, age) ==
    CASE op = "insert" -> 0
      [] op = "delete" -> NoRow
      [] op = "touch"  -> IF age = NoRow THEN NoRow ELSE 0

SessionCall(c) ==
    /\ up /\ c \in scalls
    /\ scalls' = scalls \ {c}
    /\ \/ SWorks /\ srow' = [srow EXCEPT ![c[2]] = RowAfter(c[1], @)]
       \/ SFails /\ UNCHANGED srow
    /\ UNCHANGED <<conn, live, touched, episode, keeper, up, scrashes>>

(* The retention worker, at the start and then every day. *)
DeleteOldSessions ==
    /\ up /\ \E s \in SIds : srow[s] # NoRow /\ srow[s] > Retention
    /\ srow' = [s \in SIds |-> IF srow[s] > Retention THEN NoRow ELSE srow[s]]
    /\ UNCHANGED <<conn, live, touched, scalls, episode, keeper, up, scrashes, sfaults>>

Stale(s) == episode[s].st = "open" /\ episode[s].age > EpisodeTTL

CloseStale(S) == [s \in SIds |-> IF s \in S THEN [episode[s] EXCEPT !.st = "ended"] ELSE episode[s]]

(* Mutant: the sweep keeps to the episodes this process has opened. *)
SweepKept ==
    /\ up /\ \E s \in keeper : Stale(s)
    /\ episode' = CloseStale({s \in keeper : Stale(s)})
    /\ UNCHANGED <<conn, live, touched, srow, scalls, keeper, up, scrashes, sfaults>>

(* runEpisodeSweep, every hour: whoever opened them. *)
RunEpisodeSweep ==
    /\ up /\ \E s \in SIds : Stale(s)
    /\ episode' = CloseStale({s \in SIds : Stale(s)})
    /\ UNCHANGED <<conn, live, touched, srow, scalls, keeper, up, scrashes, sfaults>>

HourPasses ==
    /\ touched' = {}
    /\ srow' = [s \in SIds |-> IF srow[s] < MaxAge THEN srow[s] + 1 ELSE srow[s]]
    /\ episode' = [s \in SIds |->
         IF episode[s].st = "open" THEN [episode[s] EXCEPT !.age = Min({@ + 1, MaxAge})]
                                   ELSE episode[s]]
    /\ <<touched', srow', episode'>> # <<touched, srow, episode>>
    /\ UNCHANGED <<conn, live, scalls, keeper, up, scrashes, sfaults>>

(* Everything but the database is lost; so are the calls not made yet.     *)
SCrash ==
    /\ up /\ scrashes < MaxSCrashes
    /\ scrashes' = scrashes + 1
    /\ up' = FALSE
    /\ live' = {} /\ touched' = {} /\ scalls' = {} /\ keeper' = {}
    /\ conn' = [s \in SIds |-> IF conn[s] = "open" THEN "lost" ELSE conn[s]]
    /\ UNCHANGED <<srow, episode, sfaults>>

Rehydratable == {s \in SIds : srow[s] < RehydrateWindow}

(* The server starts: rows within the window become sessions again, before *)
(* the hooks are installed; a failing query leaves the clients to          *)
(* reconnect.                                                              *)
RehydrateSessions ==
    /\ ~up
    /\ up' = TRUE
    /\ \/ SWorks /\ live' = Rehydratable
       \/ SFails /\ live' = {}
    /\ UNCHANGED <<conn, touched, srow, scalls, episode, keeper, scrashes>>

SessionsNext ==
    \/ \E s \in SIds : RegisterSession(s) \/ UnregisterSession(s) \/ PostMessage(s)
    \/ \E c \in scalls : SessionCall(c)
    \/ DeleteOldSessions \/ RunEpisodeSweep \/ HourPasses
    \/ SCrash \/ RehydrateSessions

(* Goroutines run or time out, tickers fire, time passes and a stopped     *)
(* server is restarted.  No client is made to connect, post or leave.      *)
SessionsFairness ==
    /\ \A s \in SIds, op \in {"insert", "delete", "touch"} :
          WF_sessionVars(SessionCall(<<op, s>>))
    /\ WF_sessionVars(DeleteOldSessions)
    /\ WF_sessionVars(RunEpisodeSweep)
    /\ WF_sessionVars(HourPasses)
    /\ WF_sessionVars(RehydrateSessions)

SessionsSpec == SessionsInit /\ [][SessionsNext]_sessionVars /\ SessionsFairness

-----------------------------------------------------------------------------

(* A session that was closed leaves no trace for good: whatever order its  *)
(* insert, touches and delete reach the database in, and whichever of them *)
(* fails or dies with the server, its row is gone in the end and no        *)
(* restart brings it back.                                                 *)
GhostsVanish ==
    \A s \in SIds : [](conn[s] = "closed" => <>[](srow[s] = NoRow))

(* The retention worker never takes a row that a restart would still turn  *)
(* into a session (comment of deleteOldSessions).                          *)
RehydratableKept ==
    [][\A s \in Rehydratable :
          srow'[s] = NoRow => <<"delete", s>> \in scalls \ scalls']_sessionVars

(* Every episode opened for a session ends: with the session, or by the    *)
(* sweep after crashes and failing calls.                                  *)
EpisodesClose == \A s \in SIds : [](episode[s].st = "open" => <>(episode[s].st = "ended"))

(* Neither a row nor an open episode outlives its session for ever.        *)
NothingLeftBehind == GhostsVanish /\ EpisodesClose

(* A restart brings back no session that was cleanly closed ("Remove from  *)
(* DB on clean disconnect").                                               *)
ClosedStaysClosed == \A s \in live : conn[s] # "closed"
=============================================================================
