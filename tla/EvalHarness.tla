---------------------------- MODULE EvalHarness ----------------------------
(***************************************************************************)
(* The LongMemEval harness (cmd/longmemeval): commands that ingest         *)
(* questions, run them against the server and score the answers, each with *)
(* a pool of workers, a channel, one goroutine that appends rows to a      *)
(* checkpoint file, and a restart that skips what the file says is done.   *)
(*                                                                         *)
(* Every reader of a checkpoint looks at it question by question, so a     *)
(* file is, per question, the number of "done" rows and the last row.      *)
(***************************************************************************)
EXTENDS Naturals, FiniteSets

CONSTANTS
    Questions,      \* numbered as their project names sort
    EvalWorkers,    \* --workers
    ChanCap,        \* capacity of a checkpoint channel: Workers*2
    MaxSample,      \* ingestProjectCheckMaxSample
    MaxStarts,      \* bound: commands started
    MaxCrashes,     \* bound: processes killed
    MaxWriteFaults, \* bound: failing opens and writes of a checkpoint
    MaxMissing      \* bound: items a batch leaves without a result

ASSUME HarnessAssumption == IsFiniteSet(Questions) /\ MaxSample \in Nat

VARIABLES
    cmd,        \* the command that runs, its stage and its flags
    work,       \* the work channel
    owed,       \* queued questions without a row in the file yet
    at,         \* per worker: where it is, its question and its row
    inner,      \* rows the run stage has not counted yet
    ckpt,       \* rows on their way to the writer
    room,       \* capacity of ckpt
    writer,     \* "writing" or, when the file could not be opened, "draining"
    writeErr,   \* WriteCheckpoint will return an error
    tally,      \* attempted > 0, and one attempt succeeded
    file,       \* the checkpoints
    torn,       \* a checkpoint holds a line that does not parse
    stored,     \* per question: its project has memories
    result,     \* how the last stage ended
    used        \* starts, crashes and faults so far

harnessVars == <<cmd, work, owed, at, inner, ckpt, room, writer, writeErr,
                 tally, file, torn, stored, result, used>>

Files == {"ingest", "run", "score"}
FileOf(s) == IF s \in {"efficient", "batch"} THEN "score" ELSE s
(* score labels: all that are not CORRECT are treated alike *)
Judgements == {"CORRECT", "other"}
Idle == [pc |-> "idle", q |-> 0, row |-> "none"]
NoCommand == [stage |-> "none", phase |-> "off", all |-> FALSE, force |-> FALSE,
              clean |-> FALSE, allow |-> FALSE, bypass |-> FALSE]

HarnessInit ==
    /\ cmd = NoCommand
    /\ work = {} /\ owed = {} /\ inner = {} /\ ckpt = {} /\ room = 0
    /\ at = [w \in EvalWorkers |-> Idle]
    /\ writer = "writing" /\ writeErr = FALSE
    /\ tally = [tried |-> FALSE, good |-> FALSE]
    /\ file = [f \in Files |-> [q \in Questions |-> [done |-> 0, last |-> "none"]]]
    /\ torn = [f \in Files |-> FALSE]
    /\ stored = [q \in Questions |-> FALSE]
    /\ result = [code |-> 0, owed |-> {}]
    /\ used = [starts |-> 0, crashes |-> 0, faults |-> 0]

-----------------------------------------------------------------------------
(* dispatch and runAllWithStages; a flag that no code of the command reads is
   left FALSE *)
Launch(s, all) ==
    /\ cmd.phase = "off" /\ used.starts < MaxStarts
    /\ all => s = "ingest"
    /\ \E force, clean, allow, bypass \in BOOLEAN :
          /\ force => s \in {"efficient", "batch"}
          /\ (clean \/ allow \/ bypass) => (s = "run" \/ all)
          /\ bypass => ~clean /\ ~allow
          /\ cmd' = [stage |-> s, phase |-> "enter", all |-> all, force |-> force,
                     clean |-> clean, allow |-> allow, bypass |-> bypass]
    /\ used' = [used EXCEPT !.starts = @ + 1]
    /\ result' = [code |-> 0, owed |-> {}]
    /\ UNCHANGED <<work, owed, at, inner, ckpt, room, writer, writeErr, tally,
                   file, torn, stored>>

(* ReadSkipSet: any row with status "done" *)
SkipSet(f) == {q \in Questions : file[f][q].done > 0}

(* mutant: a preserved answer is judged again *)
PreserveSkipNone == {}

(* ReadScoredLabels and buildPreserveSkipSet: the last row decides *)
PreserveSkip ==
    IF cmd.force THEN {} ELSE {q \in Questions : file["score"][q].last = "CORRECT"}

(* what each stage puts into its work channel *)
IngestWork == Questions \ SkipSet("ingest")
RunWork == (IF cmd.bypass THEN Questions ELSE SkipSet("ingest")) \ SkipSet("run")
ScoreWork == SkipSet("run") \ SkipSet("score")
RescoreWork == SkipSet("run") \ PreserveSkip

Queue(s) ==
    CASE s = "ingest" -> IngestWork
      [] s = "run" -> RunWork
      [] s = "score" -> ScoreWork
      [] OTHER -> RescoreWork

(* readAll and the skip sets fail on a line that does not parse *)
Unreadable(s) ==
    \/ torn[FileOf(s)]
    \/ s = "run" /\ ~cmd.bypass /\ torn["ingest"]
    \/ FileOf(s) = "score" /\ (torn["run"] \/ torn["ingest"])

(* sampleIngestProjectsForCheck: at most MaxSample, evenly spaced by name *)
Sample(S) ==
    LET n == Cardinality(S)
        rank(q) == Cardinality({x \in S : x < q})
    IN  IF n =< MaxSample THEN S
        ELSE IF MaxSample = 1 THEN {q \in S : rank(q) = 0}
        ELSE {q \in S : \E i \in 0 .. MaxSample - 1 :
                           rank(q) = (i * (n - 1)) \div (MaxSample - 1)}

ProjectsAlive(S) == cmd.allow \/ \A q \in Sample(S) : stored[q]

Quiet ==
    /\ work' = {} /\ inner' = {} /\ ckpt' = {} /\ room' = 0
    /\ at' = [w \in EvalWorkers |-> Idle]
    /\ writer' = "writing" /\ writeErr' = FALSE
    /\ tally' = [tried |-> FALSE, good |-> FALSE]

EndStage(code, rest) ==
    /\ result' = [code |-> code, owed |-> owed]
    /\ owed' = {}
    /\ cmd' = IF code = 0 /\ cmd.all /\ cmd.stage # "score"
              THEN [cmd EXCEPT !.phase = "enter",
                               !.stage = IF @ = "ingest" THEN "run" ELSE "score"]
              ELSE NoCommand
    /\ Quiet /\ UNCHANGED rest

(* the part of runIngest, runRun, runScore and runScoreEfficient before the
   workers start; the backend lock may be taken, a preflight may fail *)
Refuse ==
    /\ cmd.phase = "enter"
    /\ \/ Unreadable(cmd.stage)
       \/ cmd.stage = "run" /\ ~cmd.bypass /\ ~ProjectsAlive(Queue("run"))
       \/ cmd.stage \in {"run", "efficient", "batch"}
    /\ EndStage(IF cmd.stage = "run" THEN 75 ELSE 1, <<file, torn, stored, used>>)

Fault == used.faults < MaxWriteFaults /\ used' = [used EXCEPT !.faults = @ + 1]

Enter ==
    /\ cmd.phase = "enter" /\ cmd.stage # "batch"
    /\ ~Unreadable(cmd.stage)
    /\ (cmd.stage = "run" /\ ~cmd.bypass) => ProjectsAlive(Queue("run"))
    /\ work' = Queue(cmd.stage) /\ owed' = Queue(cmd.stage)
    /\ \/ writer' = "writing" /\ writeErr' = FALSE /\ UNCHANGED used
       \/ writer' = "draining" /\ writeErr' = TRUE /\ Fault
    /\ room' = ChanCap
    /\ cmd' = [cmd EXCEPT !.phase = "work"]
    /\ UNCHANGED <<at, inner, ckpt, tally, file, torn, stored, result>>

-----------------------------------------------------------------------------
TakeItem(w, q) ==
    /\ cmd.phase = "work" /\ q \in work /\ at[w].pc = "idle"
    /\ work' = work \ {q}
    /\ at' = [at EXCEPT ![w] = [pc |-> "do", q |-> q, row |-> "none"]]
    /\ UNCHANGED <<cmd, owed, inner, ckpt, room, writer, writeErr, tally, file,
                   torn, stored, result, used>>

Made(w, row) == at' = [at EXCEPT ![w] = [pc |-> "send", q |-> @.q, row |-> row]]

(* QuickStore of every session; the first error gives up with what is stored,
   and a retried request may have been stored before *)
IngestOne(w) ==
    /\ cmd.stage = "ingest" /\ at[w].pc = "do"
    /\ \/ Made(w, "done") /\ stored' = [stored EXCEPT ![at[w].q] = TRUE]
       \/ Made(w, "error") /\ \E some \in BOOLEAN :
             stored' = [stored EXCEPT ![at[w].q] = @ \/ some]
    /\ UNCHANGED <<cmd, work, owed, inner, ckpt, room, writer, writeErr, tally,
                   file, torn, result, used>>

(* runWorker and runOne: connect, recall, generate.  An answer is remembered
   with what it was made from *)
RunOne(w) ==
    /\ cmd.stage = "run" /\ at[w].pc = "do"
    /\ \/ Made(w, "error")
       \/ Made(w, IF cmd.bypass THEN "bypass"
                  ELSE IF stored[at[w].q] THEN "grounded"
                  ELSE IF cmd.allow THEN "override" ELSE "empty")
    /\ UNCHANGED <<cmd, work, owed, inner, ckpt, room, writer, writeErr, tally,
                   file, torn, stored, result, used>>

(* an answer of the judge that names no label is a done row, not CORRECT *)
ScoreOne(w) ==
    /\ cmd.stage = "score" /\ at[w].pc = "do"
    /\ \E row \in {"error"} \cup Judgements : Made(w, row)
    /\ UNCHANGED <<cmd, work, owed, inner, ckpt, room, writer, writeErr, tally,
                   file, torn, stored, result, used>>

(* here it is an error row, as a judge that does not answer *)
ScoreEfficientOne(w) ==
    /\ cmd.stage = "efficient" /\ at[w].pc = "do"
    /\ \/ Made(w, "error")
       \/ \E row \in Judgements : Made(w, row)
    /\ UNCHANGED <<cmd, work, owed, inner, ckpt, room, writer, writeErr, tally,
                   file, torn, stored, result, used>>

Row(w) == [q |-> at[w].q, row |-> at[w].row]
Attempt(row) == [tried |-> TRUE, good |-> tally.good \/ row # "error"]

(* out <- entry; the run stage counts its rows on the way to the writer *)
SendRow(w) ==
    /\ at[w].pc = "send"
    /\ IF cmd.stage = "run"
       THEN /\ Cardinality(inner) < ChanCap
            /\ inner' = inner \cup {Row(w)}
            /\ at' = [at EXCEPT ![w].pc = IF cmd.clean THEN "clean" ELSE "idle"]
            /\ UNCHANGED <<ckpt, tally>>
       ELSE /\ Cardinality(ckpt) < room
            /\ ckpt' = ckpt \cup {Row(w)}
            /\ at' = [at EXCEPT ![w] = Idle]
            /\ tally' = Attempt(at[w].row)
            /\ UNCHANGED inner
    /\ UNCHANGED <<cmd, work, owed, room, writer, writeErr, file, torn, stored,
                   result, used>>

CountRow(r) ==
    /\ r \in inner /\ Cardinality(ckpt) < room
    /\ inner' = inner \ {r} /\ ckpt' = ckpt \cup {r}
    /\ tally' = Attempt(r.row)
    /\ UNCHANGED <<cmd, work, owed, at, room, writer, writeErr, file, torn,
                   stored, result, used>>

(* shouldCleanupProject and DeleteProject, whatever became of the row *)
Cleanup(w) ==
    /\ at[w].pc = "clean"
    /\ stored' \in {stored, [stored EXCEPT ![at[w].q] = FALSE]}
    /\ at' = [at EXCEPT ![w] = Idle]
    /\ UNCHANGED <<cmd, work, owed, inner, ckpt, room, writer, writeErr, tally,
                   file, torn, result, used>>

Appended(r) ==
    file' = [file EXCEPT ![FileOf(cmd.stage)][r.q] =
               [done |-> @.done + (IF r.row = "error" THEN 0 ELSE 1),
                last |-> r.row]]

(* mutant: a writer that could not open its file returns at once *)
WriteRowUndrained(r) ==
    /\ r \in ckpt /\ cmd.phase = "work" /\ writer = "writing"
    /\ ckpt' = ckpt \ {r} /\ Appended(r) /\ owed' = owed \ {r.q}
    /\ UNCHANGED <<writeErr, torn, used, cmd, work, at, inner, room, writer,
                   tally, stored, result>>

(* WriteCheckpoint: a failed Encode loses the row and may leave half a line *)
WriteRow(r) ==
    /\ r \in ckpt /\ cmd.phase = "work"
    /\ ckpt' = ckpt \ {r}
    /\ \/ /\ writer = "writing"
          /\ Appended(r) /\ owed' = owed \ {r.q}
          /\ UNCHANGED <<writeErr, torn, used>>
       \/ /\ writer = "writing"
          /\ Fault /\ writeErr' = TRUE
          /\ \E half \in BOOLEAN :
                torn' = [torn EXCEPT ![FileOf(cmd.stage)] = @ \/ half]
          /\ UNCHANGED <<file, owed>>
       \/ writer = "draining" /\ UNCHANGED <<writeErr, torn, used, file, owed>>
    /\ UNCHANGED <<cmd, work, at, inner, room, writer, tally, stored, result>>

(* mutant: the writer's error is only logged *)
ExitCodeIgnoresWriter ==
    IF cmd.stage \in {"run", "score"} /\ tally.tried /\ ~tally.good THEN 1 ELSE 0

(* exitCodeForRunOutcome; the score stages read their file back *)
ExitCode ==
    IF \/ writeErr
       \/ cmd.stage \in {"run", "score"} /\ tally.tried /\ ~tally.good
       \/ FileOf(cmd.stage) = "score" /\ torn["score"]
    THEN 1 ELSE 0

Finish ==
    /\ cmd.phase = "work"
    /\ work = {} /\ inner = {} /\ ckpt = {}
    /\ \A w \in EvalWorkers : at[w].pc = "idle"
    /\ EndStage(ExitCode, <<file, torn, stored, used>>)

-----------------------------------------------------------------------------
(* runScoreBatch: ScoreBatch answers for some of the items, then the whole
   channel is filled before WriteCheckpoint reads from it *)
BatchAnswered ==
    /\ cmd.phase = "enter" /\ cmd.stage = "batch" /\ ~Unreadable("batch")
    /\ LET S == Queue("batch") IN
       /\ work' = S /\ owed' = S
       /\ \E n \in 0 .. Cardinality(S) :
             /\ Cardinality(S) - n =< MaxMissing
             /\ room' = n + 1
    /\ cmd' = [cmd EXCEPT !.phase = "fill"]
    /\ UNCHANGED <<at, inner, ckpt, writer, writeErr, tally, file, torn, stored,
                   result, used>>

BatchRow(q) ==
    /\ cmd.phase = "fill" /\ q \in work /\ Cardinality(ckpt) < room
    /\ \E row \in Judgements \cup {"error"} :
          ckpt' = ckpt \cup {[q |-> q, row |-> row]}
    /\ work' = work \ {q}
    /\ UNCHANGED <<cmd, owed, at, inner, room, writer, writeErr, tally, file,
                   torn, stored, result, used>>

BatchWrites ==
    /\ cmd.phase = "fill" /\ work = {}
    /\ \/ writer' = "writing" /\ writeErr' = FALSE /\ UNCHANGED used
       \/ writer' = "draining" /\ writeErr' = TRUE /\ Fault
    /\ cmd' = [cmd EXCEPT !.phase = "work"]
    /\ UNCHANGED <<work, owed, at, inner, ckpt, room, tally, file, torn, stored,
                   result>>

-----------------------------------------------------------------------------
(* the process is killed; a write under way leaves half a line *)
KillHarness ==
    /\ cmd.phase # "off" /\ used.crashes < MaxCrashes
    /\ used' = [used EXCEPT !.crashes = @ + 1]
    /\ \E half \in BOOLEAN :
          /\ half => ckpt # {} /\ cmd.phase = "work" /\ writer = "writing"
          /\ torn' = [torn EXCEPT ![FileOf(cmd.stage)] = @ \/ half]
    /\ cmd' = NoCommand /\ owed' = {}
    /\ Quiet /\ UNCHANGED <<file, stored, result>>

HarnessStep ==
    \/ Refuse \/ Enter \/ Finish \/ BatchAnswered \/ BatchWrites
    \/ \E q \in Questions : BatchRow(q)
    \/ \E w \in EvalWorkers :
          \/ \E q \in Questions : TakeItem(w, q)
          \/ IngestOne(w) \/ RunOne(w) \/ ScoreOne(w) \/ ScoreEfficientOne(w)
          \/ SendRow(w) \/ Cleanup(w)
    \/ \E r \in inner : CountRow(r)
    \/ \E r \in ckpt : WriteRow(r)

HarnessNext ==
    \/ \E s \in Files \cup {"efficient", "batch"}, all \in BOOLEAN : Launch(s, all)
    \/ HarnessStep
    \/ KillHarness

(* goroutines of a running command are scheduled and remote calls time out *)
HarnessFairness == WF_harnessVars(HarnessStep)

HarnessSpec == HarnessInit /\ [][HarnessNext]_harnessVars /\ HarnessFairness

-----------------------------------------------------------------------------
(* Properties *)

(* A command that exits 0 has a row in its checkpoint for every question it
   queued: no answer paid for is lost silently (#670). *)
ExitZeroMeansRecorded == result.code = 0 => result.owed = {}

(* However often commands are killed and restarted, a question is ingested,
   run and scored by `score` to "done" once. *)
OnceDone == \A q \in Questions, f \in {"ingest", "run"} : file[f][q].done =< 1

(* No answer is recorded that was generated after its project had been
   deleted, unless --allow-empty-projects asked for it.  The check samples,
   so this needs at most MaxSample pending questions. *)
GroundedAnswers ==
    Cardinality(Questions) =< MaxSample =>
       \A q \in Questions : file["run"][q].last # "empty"

(* What the checkpoint files and the exit code say of a command can be relied
   on, across crashes, restarts, failing writes and deleted projects. *)
ResultsTrustworthy == ExitZeroMeansRecorded /\ OnceDone /\ GroundedAnswers

(* Only --force-rescore judges a question again that the score file calls
   CORRECT. *)
CorrectKept ==
    [][\A q \in Questions :
          file["score"][q].last = "CORRECT" /\ ~cmd.force
             => file'["score"][q].last = "CORRECT"]_harnessVars

(* Every command ends, also when its checkpoint cannot be written. *)
StageEnds == cmd.phase # "off" ~> cmd.phase = "off"
=============================================================================
