-------------------------------- MODULE Instinct --------------------------------
(***************************************************************************)
(* The tool-call consolidator (cmd/instinct) between the hook that fills   *)
(* its buffer (hooks/post-tool-use.sh) and the sessionless endpoints of    *)
(* the server it writes to (/quick-store and /quick-recall of internal/    *)
(* mcp/server.go, memory_correct).                                         *)
(*                                                                         *)
(* The hook appends a line per tool call and starts a consolidator now and *)
(* then; nothing keeps two of them apart.  A consolidator reads the        *)
(* buffer, renames it, writes its events and upserts the pattern the model *)
(* found.  One pattern (tag signature) is followed; a confidence is its    *)
(* place in confidenceSteps, 0 when the server returned none.  That a      *)
(* retry of a request whose answer was lost stores a second copy is not    *)
(* told apart, nor are the lines that do not parse.                        *)
(***************************************************************************)
EXTENDS Naturals, FiniteSets, FiniteSetsExt

CONSTANTS
    ToolEvents,     \* tool calls
    ProjectOf,      \* their projects
    DefaultProject, \* the project a tool assumes when it is given none
    Consolidators,  \* processes that may run at the same time
    MinBatch,       \* minEvents
    MaxRuns,        \* bound: consolidators started
    MaxIFaults      \* bound: failing calls and crashes

VARIABLES
    uncaptured, \* tool calls still to come
    bufferFile, \* events of buffer.jsonl, or NoFile
    archive,    \* events of the .processed files
    consol,     \* the consolidators
    runsMade, ifaults,
    written,    \* <<run, event>>: events stored by a run
    pattern     \* the pattern's memory in every project

instinctVars == <<uncaptured, bufferFile, archive, consol, runsMade, ifaults, written, pattern>>

NoFile == {"none"}
Absent == [stored |-> FALSE, conf |-> 0]
Global == "global"
PatternProjects == {ProjectOf[e] : e \in ToolEvents} \cup {Global}
Waiting == [at |-> "idle", run |-> 0, snap |-> {}, file |-> {}, todo |-> {}, old |-> Absent, conf |-> 0]

InstinctInit ==
    /\ uncaptured = ToolEvents /\ bufferFile = NoFile /\ archive = {}
    /\ consol = [p \in Consolidators |-> Waiting]
    /\ runsMade = 0 /\ ifaults = 0 /\ written = {}
    /\ pattern = [q \in PatternProjects |-> Absent]

Lines == IF bufferFile = NoFile THEN {} ELSE bufferFile

(* The hook appends an event, creating the file. *)
Capture(e) ==
    /\ e \in uncaptured
    /\ uncaptured' = uncaptured \ {e}
    /\ bufferFile' = Lines \cup {e}
    /\ UNCHANGED <<archive, consol, runsMade, ifaults, written, pattern>>

-----------------------------------------------------------------------------
(* Taking the buffer                                                       *)

Stands(p, s) == consol[p].at = s
Becomes(p, rec) == consol' = [consol EXCEPT ![p] = rec]
MovesTo(p, s) == Becomes(p, [consol[p] EXCEPT !.at = s])

(* loadAndRotate reads the file; too few events are left for a later run. *)
ReadBuffer(p) ==
    /\ Stands(p, "idle") /\ runsMade < MaxRuns
    /\ Cardinality(Lines) >= MinBatch
    /\ runsMade' = runsMade + 1
    /\ Becomes(p, [Waiting EXCEPT !.at = "read", !.run = runsMade + 1, !.snap = Lines])
    /\ UNCHANGED <<uncaptured, bufferFile, archive, ifaults, written, pattern>>

(* It renames what is there now, by then perhaps another file. *)
RotateBuffer(p) ==
    /\ Stands(p, "read")
    /\ IF bufferFile = NoFile
       THEN Becomes(p, Waiting) /\ UNCHANGED <<bufferFile, archive>>
       ELSE /\ bufferFile' = NoFile
            /\ archive' = archive \cup bufferFile
            /\ Becomes(p, [consol[p] EXCEPT !.at = "connect", !.file = bufferFile,
                                            !.todo = consol[p].snap])
    /\ UNCHANGED <<uncaptured, runsMade, ifaults, written, pattern>>

Faulty == ifaults < MaxIFaults /\ ifaults' = ifaults + 1
Sound == UNCHANGED ifaults

(* Building the client or connecting fails before anything was written. *)
ConnectEngram(p) ==
    /\ Stands(p, "connect")
    /\ \/ MovesTo(p, "write") /\ Sound
       \/ MovesTo(p, "requeue") /\ Faulty
    /\ UNCHANGED <<uncaptured, bufferFile, archive, runsMade, written, pattern>>

(* requeue: the file is given back only when the hook has not begun a new  *)
(* one; otherwise it stays .processed.                                     *)
RequeueCheck(p) ==
    /\ Stands(p, "requeue")
    /\ IF bufferFile = NoFile THEN MovesTo(p, "rename") ELSE Becomes(p, Waiting)
    /\ UNCHANGED <<uncaptured, bufferFile, archive, runsMade, ifaults, written, pattern>>

RequeueRename(p) ==
    /\ Stands(p, "rename")
    /\ bufferFile' = consol[p].file
    /\ archive' = archive \ consol[p].file
    /\ Becomes(p, Waiting)
    /\ UNCHANGED <<uncaptured, runsMade, ifaults, written, pattern>>

-----------------------------------------------------------------------------
(* Writing                                                                 *)

(* Mutant: a failed write puts the whole batch back into the buffer. *)
WriteEventRequeues(p, e) ==
    /\ Stands(p, "write") /\ e \in consol[p].todo
    /\ \/ /\ written' = written \cup {<<consol[p].run, e>>}
          /\ Becomes(p, [consol[p] EXCEPT !.todo = @ \ {e}])
          /\ Sound
       \/ MovesTo(p, "requeue") /\ Faulty /\ UNCHANGED written
    /\ UNCHANGED <<uncaptured, bufferFile, archive, runsMade, pattern>>

(* writeEpisode: a failing ingest is logged and skipped. *)
WriteEvent(p, e) ==
    /\ Stands(p, "write") /\ e \in consol[p].todo
    /\ \/ written' = written \cup {<<consol[p].run, e>>} /\ Sound
       \/ Faulty /\ UNCHANGED written
    /\ Becomes(p, [consol[p] EXCEPT !.todo = @ \ {e}])
    /\ UNCHANGED <<uncaptured, bufferFile, archive, runsMade, pattern>>

(* A session whose episode cannot be started is skipped. *)
SkipEpisode(p) ==
    /\ Stands(p, "write") /\ consol[p].todo # {}
    /\ \E q \in PatternProjects :
         Becomes(p, [consol[p] EXCEPT !.todo = {e \in @ : ProjectOf[e] # q}])
    /\ Faulty
    /\ UNCHANGED <<uncaptured, bufferFile, archive, runsMade, written, pattern>>

(* Detect: the pattern is in the model's answer or not; an unavailable     *)
(* backend, an error and an answer that does not parse find nothing.       *)
DetectPatterns(p) ==
    /\ Stands(p, "write") /\ consol[p].todo = {}
    /\ \/ MovesTo(p, "recall")
       \/ Becomes(p, Waiting)
    /\ UNCHANGED <<uncaptured, bufferFile, archive, runsMade, ifaults, written, pattern>>

-----------------------------------------------------------------------------
(* The pattern                                                             *)

(* The projects primaryProject may choose: ties fall to the map's order. *)
Primary(evs) ==
    {q \in {ProjectOf[e] : e \in evs} :
       \A r \in PatternProjects : Cardinality({e \in evs : ProjectOf[e] = r})
                                    =< Cardinality({e \in evs : ProjectOf[e] = q})}

(* The place in confidenceSteps, off the ladder the last or first one. *)
NextConfidence(c) == IF c \in 1 .. 3 THEN c + 1 ELSE 4
PrevConfidence(c) == IF c \in 2 .. 4 THEN c - 1 ELSE 1

(* confidence * 10 as the importance of /quick-store, which takes 0 to 4. *)
Importance(c) == 2 * c + 1
Accepted(c) == Importance(c) =< 4

(* /quick-store stores the pattern without a confidence of its own. *)
QuickStore(q, c) == IF Accepted(c) THEN [pattern EXCEPT ![q].stored = TRUE] ELSE pattern

(* /quick-recall returns id, summary, content, tags and score: whatever    *)
(* the memory holds, the caller reads no confidence.                       *)
WireConfidence(mem) == 0

UpsertRecall(p) ==
    /\ Stands(p, "recall")
    /\ \/ /\ \E q \in Primary(consol[p].snap) :
               Becomes(p, [consol[p] EXCEPT !.at = "upsert", !.old = pattern[q], !.file = {q}])
          /\ Sound
       \/ Becomes(p, Waiting) /\ Faulty
    /\ UNCHANGED <<uncaptured, bufferFile, archive, runsMade, written, pattern>>

(* memory_correct is called without a project: it finds the memory only in *)
(* the default one.                                                        *)
Corrected(q, c) ==
    IF q = DefaultProject /\ pattern[q].stored THEN [pattern EXCEPT ![q].conf = c] ELSE pattern

(* A new pattern is stored; a known one moves on the ladder from what was  *)
(* read.                                                                   *)
UpsertWrite(p) ==
    /\ Stands(p, "upsert")
    /\ \E q \in consol[p].file, correction \in BOOLEAN :
         LET old == consol[p].old
             read == WireConfidence(old)
             new == IF ~old.stored THEN 1
                    ELSE IF correction THEN PrevConfidence(read) ELSE NextConfidence(read)
         IN /\ \/ /\ pattern' = IF ~old.stored THEN QuickStore(q, new)
                                ELSE IF new # read THEN Corrected(q, new) ELSE pattern
                  /\ Sound
               \/ Faulty /\ UNCHANGED pattern
            /\ Becomes(p, [consol[p] EXCEPT !.at = "promote", !.conf = new])
    /\ UNCHANGED <<uncaptured, bufferFile, archive, runsMade, written>>

(* A confident pattern seen in two projects is copied to the global one,   *)
(* with an importance /quick-store refuses.                                *)
Promote(p) ==
    /\ Stands(p, "promote")
    /\ pattern' = IF /\ consol[p].conf = 4
                     /\ Cardinality({ProjectOf[e] : e \in consol[p].snap}) >= 2
                     /\ ~pattern[Global].stored
                  THEN QuickStore(Global, consol[p].conf) ELSE pattern
    /\ Becomes(p, Waiting)
    /\ UNCHANGED <<uncaptured, bufferFile, archive, runsMade, ifaults, written>>

(* The process dies; its .processed file is never read again. *)
Killed(p) ==
    /\ ~Stands(p, "idle") /\ Faulty
    /\ Becomes(p, Waiting)
    /\ UNCHANGED <<uncaptured, bufferFile, archive, runsMade, written, pattern>>

-----------------------------------------------------------------------------

ConsolidatorStep(p) ==
    \/ ReadBuffer(p) \/ RotateBuffer(p) \/ ConnectEngram(p)
    \/ RequeueCheck(p) \/ RequeueRename(p)
    \/ \E e \in ToolEvents : WriteEvent(p, e)
    \/ SkipEpisode(p) \/ DetectPatterns(p)
    \/ UpsertRecall(p) \/ UpsertWrite(p) \/ Promote(p)

InstinctNext ==
    \/ \E e \in ToolEvents : Capture(e)
    \/ \E p \in Consolidators : ConsolidatorStep(p) \/ Killed(p)

InstinctSpec == InstinctInit /\ [][InstinctNext]_instinctVars

-----------------------------------------------------------------------------

(* An event is stored by one run only, however many runs gave their batch  *)
(* back or were killed: a batch is given back only before its first write. *)
WrittenByOneRun ==
    \A x, y \in written : x[2] = y[2] => x[1] = y[1]

(* "New pattern: store at 0.3", "Existing: step up (non-correction) or     *)
(* step down": one step of the ladder at a time.                           *)
Level(mem) == IF mem.conf = 0 THEN 1 ELSE mem.conf
LadderStep(q) ==
    pattern[q].stored =>
      Level(pattern'[q]) \in {Level(pattern[q]), NextConfidence(Level(pattern[q])),
                              PrevConfidence(Level(pattern[q]))}
OneStepAtATime == [][\A q \in PatternProjects : LadderStep(q)]_pattern

(* The events a run works on are those of the file it renamed ("On success *)
(* renames to .processed and returns events").                             *)
RotatedIsRead == \A p \in Consolidators : Stands(p, "connect") => consol[p].file = consol[p].snap
=============================================================================
