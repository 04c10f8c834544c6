--------------------------- MODULE HarnessProofs ---------------------------
(* Proofs about the LongMemEval harness: the lock on the generator, for    *)
(* every set of processes, and the stages with their checkpoint files, for *)
(* every set of questions and workers, channel capacity and number of      *)
(* crashes and faults, and the answer to one question, for every recall.   *)
EXTENDS EvalHarness, BackendLock, EvalQuestion, SequenceLemmas

-----------------------------------------------------------------------------
(* The lock on the generator.                                              *)

LockPcs == {"start", "try", "truncate", "write", "held", "read", "reopen", "block",
            "remove", "refused", "done", "dead"}

\* A process has the lock file open from its OpenFile to its Close.
HasOpen == {"try", "read", "block", "truncate", "write", "held"}

\* A process owns the flock of the inode it has open from the flock call on.
OwnsFlock == {"truncate", "write", "held"}

\* The strengthening that makes OneRunPerBackend inductive: an inode has one
\* owner, and a further inode exists only because a removal unlinked the one
\* before it.
LockInv ==
    /\ made \in 0 .. MaxInodes /\ path \in 0 .. made /\ removals \in Nat
    /\ made = removals + (IF path = 0 THEN 0 ELSE 1)
    /\ holder \in [Inodes -> Procs \cup {0}]
    /\ lockPc \in [Procs -> LockPcs]
    /\ fd \in [Procs -> 0 .. made]
    /\ \A p \in Procs : lockPc[p] \in HasOpen => fd[p] # 0
    /\ \A p \in Procs : lockPc[p] \in OwnsFlock => holder[fd[p]] = p

LEMMA LockInitially == LockInit => LockInv
BY LockAssumption DEF LockInit, LockInv, Inodes, LockPcs, HasOpen, OwnsFlock

LEMMA LockStepPreserves == LockInv /\ [LockNext]_lockVars => LockInv'
<1> SUFFICES ASSUME LockInv, [LockNext]_lockVars PROVE LockInv'
  OBVIOUS
<1> USE LockAssumption DEF LockInv, LockPcs, HasOpen, OwnsFlock, Inodes, Goes
<1>1. ASSUME NEW p \in Procs, OpenLock(p) PROVE LockInv'
  <2>1. /\ \/ made' = made /\ path' = path /\ path # 0
           \/ made' = made + 1 /\ path' = made' /\ path = 0 /\ made < MaxInodes
        /\ fd' = [fd EXCEPT ![p] = path'] /\ path' \in 1 .. made'
        /\ holder' = holder /\ removals' = removals
    BY <1>1 DEF OpenLock
  <2>2. /\ lockPc' \in [Procs -> LockPcs]
        /\ lockPc'[p] \notin OwnsFlock
        /\ \A q \in Procs \ {p} : lockPc'[q] = lockPc[q]
    BY <1>1 DEF OpenLock
  <2>3. fd' \in [Procs -> 0 .. made'] /\ fd'[p] # 0
    BY <2>1
  <2>4. \A q \in Procs \ {p} : fd'[q] = fd[q]
    BY <2>1
  <2>5. made' \in 0 .. MaxInodes /\ made' = removals' + (IF path' = 0 THEN 0 ELSE 1)
    BY <2>1
  <2> QED
    BY <2>1, <2>2, <2>3, <2>4, <2>5
<1>2. ASSUME NEW p \in Procs, TryLock(p) PROVE LockInv'
  <2>1. CASE holder[fd[p]] = 0
    <3>1. lockPc' = [lockPc EXCEPT ![p] = "truncate"] /\ lockPc[p] = "try"
      BY <1>2, <2>1 DEF TryLock
    <3>2. holder' = [holder EXCEPT ![fd[p]] = p] /\ UNCHANGED <<path, made, fd, removals>>
      BY <1>2, <2>1 DEF TryLock
    <3> QED
      BY <3>1, <3>2, <2>1
  <2>2. CASE holder[fd[p]] # 0
    <3>1. lockPc' = [lockPc EXCEPT ![p] = "read"] /\ lockPc[p] = "try"
      BY <1>2, <2>2 DEF TryLock
    <3>2. UNCHANGED <<holder, path, made, fd, removals>>
      BY <1>2, <2>2 DEF TryLock
    <3> QED
      BY <3>1, <3>2
  <2> QED BY <2>1, <2>2
<1>3. ASSUME NEW p \in Procs, BlockLock(p) PROVE LockInv'
  BY <1>3 DEF BlockLock
<1>4. ASSUME NEW p \in Procs, Record(p) PROVE LockInv'
  BY <1>4 DEF Record
<1>5. ASSUME NEW p \in Procs, RecordFails(p) PROVE LockInv'
  BY <1>5 DEF RecordFails, Unlocked
<1>6. ASSUME NEW p \in Procs, RemoveLock(p) PROVE LockInv'
  BY <1>6 DEF RemoveLock
<1>7. ASSUME NEW p \in Procs, ReadRecord(p) PROVE LockInv'
  <2>1. \E to \in {"refused", "reopen"} : lockPc' = [lockPc EXCEPT ![p] = to]
    BY <1>7 DEF ReadRecord
  <2>2. fd' = [fd EXCEPT ![p] = 0] /\ UNCHANGED <<holder, path, made, removals>>
    BY <1>7 DEF ReadRecord
  <2> QED
    BY <2>1, <2>2
<1>8. ASSUME NEW p \in Procs, Release(p) PROVE LockInv'
  BY <1>8 DEF Release, Unlocked
<1>9. ASSUME NEW p \in Procs, Die(p) PROVE LockInv'
  BY <1>9 DEF Die
<1>10. CASE UNCHANGED lockVars
  BY <1>10 DEF lockVars
<1> QED
  BY <1>1, <1>2, <1>3, <1>4, <1>5, <1>6, <1>7, <1>8, <1>9, <1>10
  DEF LockNext, LockStep

\* The runs that use the generator have different inodes open, and there are
\* at most 1 + removals of them.
LEMMA LockCounts == LockInv => OneRunPerBackend
<1> SUFFICES ASSUME LockInv PROVE OneRunPerBackend
  OBVIOUS
<1> DEFINE inode == [p \in InUse |-> fd[p]]
<1>1. \A p \in InUse : p \in Procs /\ fd[p] \in 1 .. made /\ holder[fd[p]] = p
  BY DEF InUse, LockInv, HasOpen, OwnsFlock
<1>2. inode \in Injection(InUse, 1 .. made)
  BY <1>1 DEF Injection, IsInjective
<1>3. made \in Nat /\ made =< 1 + removals
  BY LockAssumption DEF LockInv
<1>4. IsFiniteSet(1 .. made) /\ Cardinality(1 .. made) = made
  BY <1>3, FS_Interval
<1>5. Cardinality(InUse) =< made /\ IsFiniteSet(InUse)
  BY <1>2, <1>4, FS_Injection
<1> QED
  BY <1>3, <1>5, FS_CardinalityType DEF OneRunPerBackend, LockInv

\* acquireBackendLock: one run at a time uses the generator, plus one for each
\* time the lock file was removed under those who had it open.
THEOREM GeneratorExclusive == LockSpec => []OneRunPerBackend
BY LockInitially, LockStepPreserves, LockCounts, PTL DEF LockSpec

-----------------------------------------------------------------------------
(* The stages and their checkpoints.                                       *)

Stages == Files \cup {"efficient", "batch"}
Labels == {"done", "error", "grounded", "override", "bypass", "empty"} \cup Judgements
RowSet == [q : Questions, row : Labels]

HarnessTypeOK ==
    /\ cmd \in [stage : Stages \cup {"none"}, phase : {"off", "enter", "fill", "work"},
                all : BOOLEAN, force : BOOLEAN, clean : BOOLEAN, allow : BOOLEAN,
                bypass : BOOLEAN]
    /\ cmd.phase # "off" => cmd.stage \in Stages
    /\ work \in SUBSET Questions /\ owed \in SUBSET Questions
    /\ at \in [EvalWorkers -> [pc : {"idle", "do", "send", "clean"},
                               q : Questions \cup {0}, row : Labels \cup {"none"}]]
    /\ \A w \in EvalWorkers : at[w].pc # "idle" => at[w].q \in Questions
    /\ \A w \in EvalWorkers : at[w].pc = "send" => at[w].row \in Labels
    /\ inner \in SUBSET RowSet /\ ckpt \in SUBSET RowSet
    /\ writer \in {"writing", "draining"} /\ writeErr \in BOOLEAN
    /\ file \in [Files -> [Questions -> [done : Nat, last : Labels \cup {"none"}]]]
    /\ stored \in [Questions -> BOOLEAN]

\* A worker is at a question until its row is sent.
AtQuestion(w) == at[w].pc \in {"do", "send"}

\* A question of the stage that has no row in the file yet is in the work
\* channel, with a worker, or in a row on its way to the writer.
Pending(q) ==
    \/ q \in work
    \/ \E w \in EvalWorkers : AtQuestion(w) /\ at[w].q = q
    \/ \E r \in inner \cup ckpt : r.q = q

\* Between commands nothing is under way; a batch has no workers.
QuietBetween ==
    /\ cmd.phase # "work" =>
          inner = {} /\ ~writeErr /\ \A w \in EvalWorkers : at[w].pc = "idle"
    /\ cmd.phase \in {"off", "enter"} => work = {} /\ ckpt = {} /\ owed = {}

\* A question is in one place at a time.
OnePlace ==
    /\ \A w \in EvalWorkers : at[w].pc # "idle" => at[w].q \notin work
    /\ \A v, w \in EvalWorkers :
          v # w /\ at[v].pc # "idle" /\ at[w].pc # "idle" => at[v].q # at[w].q
    /\ \A r \in inner \cup ckpt : r.q \notin work
    /\ \A r \in inner \cup ckpt, w \in EvalWorkers : AtQuestion(w) => r.q # at[w].q
    /\ \A r, s \in inner \cup ckpt : r.q = s.q => r = s
    /\ inner \cap ckpt = {}

\* The writer goes without its file only after an error it will report.
DrainsKnown == writer = "draining" => writeErr

\* No queued question is forgotten, unless a write failed.
OwedPending == writeErr \/ \A q \in owed : Pending(q)

\* What a pending question's file said when the stage queued it, it still says.
PendingFresh ==
    \A q \in Questions : Pending(q) =>
        /\ cmd.stage \in {"ingest", "run"} => file[cmd.stage][q].done = 0
        /\ cmd.stage \in {"score", "efficient", "batch"} /\ ~cmd.force
              => file["score"][q].last # "CORRECT"

CorrectIsDone ==
    \A q \in Questions : file["score"][q].last = "CORRECT" => file["score"][q].done > 0

\* While the sample of the check covers the questions, those that are still to
\* be answered have their project, and no answer was made without one.
Grounded ==
    Cardinality(Questions) =< MaxSample =>
        /\ \A w \in EvalWorkers : at[w].row # "empty"
        /\ \A r \in inner \cup ckpt : r.row # "empty"
        /\ cmd.phase = "work" /\ cmd.stage = "run" /\ ~cmd.bypass /\ ~cmd.allow =>
              /\ \A q \in work : stored[q]
              /\ \A w \in EvalWorkers : at[w].pc = "do" => stored[at[w].q]

\* The strengthening that makes ResultsTrustworthy inductive.
HarnessInv ==
    /\ HarnessTypeOK /\ QuietBetween /\ OnePlace /\ DrainsKnown
    /\ OwedPending /\ PendingFresh /\ CorrectIsDone /\ Grounded
    /\ ResultsTrustworthy

LEMMA HarnessInitially == HarnessInit => HarnessInv
<1> SUFFICES ASSUME HarnessInit PROVE HarnessInv
  OBVIOUS
<1> USE DEF HarnessInit, NoCommand, Idle, Files, Stages, Labels
<1>1. HarnessTypeOK
  BY DEF HarnessTypeOK
<1>2. \A q \in Questions : ~Pending(q)
  BY DEF Pending, AtQuestion
<1>3. QuietBetween /\ OnePlace /\ DrainsKnown /\ OwedPending
  BY DEF QuietBetween, OnePlace, DrainsKnown, OwedPending, AtQuestion
<1>4. PendingFresh /\ CorrectIsDone
  BY <1>2 DEF PendingFresh, CorrectIsDone
<1>5. Grounded
  BY DEF Grounded
<1>6. ResultsTrustworthy
  BY DEF ResultsTrustworthy, ExitZeroMeansRecorded, OnceDone, GroundedAnswers
<1> QED
  BY <1>1, <1>2, <1>3, <1>4, <1>5, <1>6 DEF HarnessInv

\* A command that ends, is refused or is killed leaves nothing under way.
LEMMA EndPreserves ==
    ASSUME HarnessInv, Quiet, owed' = {}, UNCHANGED <<file, stored>>,
           cmd' \in [stage : Stages \cup {"none"}, phase : {"off", "enter"},
                     all : BOOLEAN, force : BOOLEAN, clean : BOOLEAN, allow : BOOLEAN,
                     bypass : BOOLEAN],
           cmd'.phase # "off" => cmd'.stage \in Stages,
           ExitZeroMeansRecorded'
    PROVE  HarnessInv'
<1> USE DEF HarnessInv, Quiet
<1>1. \A w \in EvalWorkers : at'[w] = Idle
  OBVIOUS
<1>2. HarnessTypeOK'
  BY <1>1 DEF HarnessTypeOK, Idle, Labels
<1>3. \A q \in Questions : ~Pending(q)'
  BY <1>1 DEF Pending, AtQuestion, Idle
<1>4. QuietBetween' /\ OnePlace' /\ DrainsKnown'
  BY <1>1 DEF QuietBetween, OnePlace, DrainsKnown, AtQuestion, Idle
<1>5. OwedPending' /\ PendingFresh' /\ CorrectIsDone'
  BY <1>3 DEF OwedPending, PendingFresh, CorrectIsDone
<1>6. Grounded'
  BY <1>1 DEF Grounded, Idle
<1>7. ResultsTrustworthy'
  BY DEF ResultsTrustworthy, OnceDone, GroundedAnswers
<1> QED
  BY <1>2, <1>3, <1>4, <1>5, <1>6, <1>7

\* What EndStage makes of the command: the next stage of `all`, or nothing.
LEMMA EndStageCommand ==
    ASSUME HarnessTypeOK, cmd.phase # "off", NEW code,
           cmd' = IF code = 0 /\ cmd.all /\ cmd.stage # "score"
                  THEN [cmd EXCEPT !.phase = "enter",
                                   !.stage = IF @ = "ingest" THEN "run" ELSE "score"]
                  ELSE NoCommand
    PROVE  /\ cmd' \in [stage : Stages \cup {"none"}, phase : {"off", "enter"},
                        all : BOOLEAN, force : BOOLEAN, clean : BOOLEAN,
                        allow : BOOLEAN, bypass : BOOLEAN]
           /\ cmd'.phase # "off" => cmd'.stage \in Stages
BY DEF HarnessTypeOK, NoCommand, Stages, Files

LEMMA RefusePreserves == HarnessInv /\ Refuse => HarnessInv'
<1> SUFFICES ASSUME HarnessInv, Refuse PROVE HarnessInv'
  OBVIOUS
<1> DEFINE code == IF cmd.stage = "run" THEN 75 ELSE 1
<1>1. cmd.phase # "off" /\ EndStage(code, <<file, torn, stored, used>>)
  BY DEF Refuse
<1>2. Quiet /\ owed' = {} /\ UNCHANGED <<file, stored>> /\ result'.code # 0
  BY <1>1 DEF EndStage
<1>3. ExitZeroMeansRecorded'
  BY <1>2 DEF ExitZeroMeansRecorded
<1> QED
  BY <1>1, <1>2, <1>3, EndPreserves, EndStageCommand DEF EndStage, HarnessInv

\* When nothing is left to do and no write failed, every queued question has
\* its row.
LEMMA FinishPreserves == HarnessInv /\ Finish => HarnessInv'
<1> SUFFICES ASSUME HarnessInv, Finish PROVE HarnessInv'
  OBVIOUS
<1>1. cmd.phase # "off" /\ EndStage(ExitCode, <<file, torn, stored, used>>)
  BY DEF Finish
<1>2. /\ Quiet /\ owed' = {} /\ UNCHANGED <<file, stored>>
      /\ result' = [code |-> ExitCode, owed |-> owed]
  BY <1>1 DEF EndStage
<1>3. \A q \in Questions : ~Pending(q)
  BY DEF Finish, Pending, AtQuestion
<1>4. ExitCode = 0 => owed = {}
  BY <1>3 DEF ExitCode, HarnessInv, OwedPending, HarnessTypeOK
<1>5. ExitZeroMeansRecorded'
  BY <1>2, <1>4 DEF ExitZeroMeansRecorded
<1> QED
  BY <1>1, <1>2, <1>5, EndPreserves, EndStageCommand DEF EndStage, HarnessInv

LEMMA KillPreserves == HarnessInv /\ KillHarness => HarnessInv'
<1> SUFFICES ASSUME HarnessInv, KillHarness PROVE HarnessInv'
  OBVIOUS
<1>1. Quiet /\ owed' = {} /\ UNCHANGED <<file, stored, result>> /\ cmd' = NoCommand
  BY DEF KillHarness
<1>2. ExitZeroMeansRecorded'
  BY <1>1 DEF ExitZeroMeansRecorded, HarnessInv, ResultsTrustworthy
<1> QED
  BY <1>1, <1>2, EndPreserves DEF NoCommand, Stages, Files

LEMMA LaunchPreserves ==
    ASSUME HarnessInv, NEW s \in Stages, NEW all \in BOOLEAN, Launch(s, all)
    PROVE  HarnessInv'
<1> USE DEF HarnessInv
<1>1. /\ cmd.phase = "off"
      /\ cmd' \in [stage : Stages \cup {"none"}, phase : {"enter"},
                   all : BOOLEAN, force : BOOLEAN, clean : BOOLEAN, allow : BOOLEAN,
                   bypass : BOOLEAN]
      /\ cmd'.stage \in Stages
      /\ result' = [code |-> 0, owed |-> {}]
      /\ UNCHANGED <<work, owed, at, inner, ckpt, writer, writeErr, file, stored>>
  BY DEF Launch
<1>2. HarnessTypeOK'
  BY <1>1 DEF HarnessTypeOK
<1>3. QuietBetween' /\ OnePlace' /\ DrainsKnown'
  BY <1>1 DEF QuietBetween, OnePlace, DrainsKnown, AtQuestion
<1>4. \A q \in Questions : ~Pending(q)'
  BY <1>1 DEF Pending, AtQuestion, QuietBetween
<1>5. OwedPending' /\ PendingFresh' /\ CorrectIsDone'
  BY <1>1, <1>4 DEF OwedPending, PendingFresh, CorrectIsDone, QuietBetween
<1>6. Grounded'
  BY <1>1 DEF Grounded
<1>7. ResultsTrustworthy'
  BY <1>1 DEF ResultsTrustworthy, OnceDone, GroundedAnswers, ExitZeroMeansRecorded
<1> QED
  BY <1>2, <1>3, <1>4, <1>5, <1>6, <1>7

\* What a stage queues has not been done by it, and is not CORRECT already.
LEMMA QueueFresh ==
    ASSUME HarnessInv, cmd.stage \in Stages, NEW q \in Queue(cmd.stage)
    PROVE  /\ q \in Questions
           /\ cmd.stage \in {"ingest", "run"} => file[cmd.stage][q].done = 0
           /\ cmd.stage \in {"score", "efficient", "batch"} /\ ~cmd.force
                 => file["score"][q].last # "CORRECT"
<1> USE DEF HarnessInv, HarnessTypeOK, Queue, SkipSet, Stages, Files
<1>1. CASE cmd.stage = "ingest"
  BY <1>1 DEF IngestWork
<1>2. CASE cmd.stage = "run"
  BY <1>2 DEF RunWork
<1>3. CASE cmd.stage = "score"
  BY <1>3 DEF ScoreWork, CorrectIsDone
<1>4. CASE cmd.stage \in {"efficient", "batch"}
  BY <1>4 DEF RescoreWork, PreserveSkip
<1> QED
  BY <1>1, <1>2, <1>3, <1>4

\* The check before the run stage looks at every project when the sample is
\* large enough.
LEMMA SampleCovers ==
    ASSUME Cardinality(Questions) =< MaxSample, NEW S \in SUBSET Questions
    PROVE  Sample(S) = S
<1>1. Cardinality(S) =< Cardinality(Questions) /\ IsFiniteSet(S)
  BY HarnessAssumption, FS_Subset
<1>2. Cardinality(S) \in Nat /\ Cardinality(Questions) \in Nat
  BY <1>1, HarnessAssumption, FS_CardinalityType
<1>3. Cardinality(S) =< MaxSample
  BY <1>1, <1>2, HarnessAssumption
<1> QED
  BY <1>3 DEF Sample

\* A stage starts with its queue: by Enter with workers, by BatchAnswered
\* without.
LEMMA QueuePreserves ==
    ASSUME HarnessInv, cmd.phase = "enter", NEW ph \in {"work", "fill"},
           cmd' = [cmd EXCEPT !.phase = ph],
           work' = Queue(cmd.stage), owed' = Queue(cmd.stage),
           writer' \in {"writing", "draining"}, writeErr' \in BOOLEAN, DrainsKnown',
           ph = "fill" => ~writeErr',
           ph = "work" /\ cmd.stage = "run" /\ ~cmd.bypass => ProjectsAlive(Queue("run")),
           UNCHANGED <<at, inner, ckpt, file, stored, result>>
    PROVE  HarnessInv'
<1> USE DEF HarnessInv
<1>1. /\ cmd.stage \in Stages /\ cmd'.stage = cmd.stage /\ cmd'.force = cmd.force
      /\ cmd'.phase = ph /\ cmd'.bypass = cmd.bypass /\ cmd'.allow = cmd.allow
  BY DEF HarnessTypeOK
<1>2. /\ \A w \in EvalWorkers : at'[w].pc = "idle"
      /\ inner' = {} /\ ckpt' = {}
  BY DEF QuietBetween
<1>3. HarnessTypeOK'
  BY <1>1, QueueFresh DEF HarnessTypeOK
<1>4. QuietBetween' /\ OnePlace'
  BY <1>1, <1>2 DEF QuietBetween, OnePlace, AtQuestion
<1>5. \A q \in Questions : Pending(q)' <=> q \in Queue(cmd.stage)
  BY <1>2 DEF Pending, AtQuestion
<1>6. OwedPending'
  BY <1>5, <1>1, QueueFresh DEF OwedPending
<1>7. PendingFresh' /\ CorrectIsDone'
  BY <1>5, <1>1, QueueFresh DEF PendingFresh, CorrectIsDone
<1>8. Grounded'
  <2> SUFFICES ASSUME Cardinality(Questions) =< MaxSample,
                      ph = "work", cmd.stage = "run", ~cmd.bypass, ~cmd.allow
               PROVE  \A q \in work' : stored[q]
    BY <1>1, <1>2 DEF Grounded
  <2>1. Queue("run") \in SUBSET Questions
    BY <1>1, QueueFresh
  <2>2. \A q \in Sample(Queue("run")) : stored[q]
    BY DEF ProjectsAlive
  <2> QED
    BY <2>1, <2>2, SampleCovers
<1>9. ResultsTrustworthy'
  BY DEF ResultsTrustworthy, OnceDone, GroundedAnswers, ExitZeroMeansRecorded
<1> QED
  BY <1>3, <1>4, <1>6, <1>7, <1>8, <1>9

LEMMA EnterPreserves == HarnessInv /\ Enter => HarnessInv'
<1> SUFFICES ASSUME HarnessInv, Enter PROVE HarnessInv'
  OBVIOUS
<1>1. /\ writer' \in {"writing", "draining"} /\ writeErr' \in BOOLEAN
      /\ DrainsKnown'
  BY DEF Enter, DrainsKnown
<1>2. /\ cmd.phase = "enter" /\ cmd' = [cmd EXCEPT !.phase = "work"]
      /\ work' = Queue(cmd.stage) /\ owed' = Queue(cmd.stage)
      /\ (cmd.stage = "run" /\ ~cmd.bypass) => ProjectsAlive(Queue("run"))
      /\ UNCHANGED <<at, inner, ckpt, file, stored, result>>
  BY DEF Enter
<1> QED
  BY <1>1, <1>2, QueuePreserves

LEMMA BatchAnsweredPreserves == HarnessInv /\ BatchAnswered => HarnessInv'
<1> SUFFICES ASSUME HarnessInv, BatchAnswered PROVE HarnessInv'
  OBVIOUS
<1>1. /\ writer' \in {"writing", "draining"} /\ writeErr' \in BOOLEAN
      /\ DrainsKnown' /\ ~writeErr'
  BY DEF BatchAnswered, DrainsKnown, HarnessInv, HarnessTypeOK, QuietBetween
<1>2. /\ cmd.phase = "enter" /\ cmd' = [cmd EXCEPT !.phase = "fill"]
      /\ work' = Queue(cmd.stage) /\ owed' = Queue(cmd.stage)
      /\ UNCHANGED <<at, inner, ckpt, file, stored, result>>
  BY DEF BatchAnswered
<1> QED
  BY <1>1, <1>2, QueuePreserves

\* The steps that move a question on, and leave the files alone, keep what is
\* said of pending questions and of the files.
LEMMA MoveKeeps ==
    ASSUME HarnessInv, UNCHANGED <<cmd, owed, writer, writeErr, file, result>>,
           \A q \in Questions : Pending(q)' <=> Pending(q)
    PROVE  /\ DrainsKnown' /\ OwedPending' /\ PendingFresh' /\ CorrectIsDone'
           /\ ResultsTrustworthy'
<1> USE DEF HarnessInv
<1>1. OwedPending' /\ DrainsKnown'
  BY DEF OwedPending, DrainsKnown, HarnessTypeOK
<1>2. PendingFresh' /\ CorrectIsDone'
  BY DEF PendingFresh, CorrectIsDone
<1>3. ResultsTrustworthy'
  BY DEF ResultsTrustworthy, OnceDone, GroundedAnswers, ExitZeroMeansRecorded
<1> QED
  BY <1>1, <1>2, <1>3

LEMMA TakeItemPreserves ==
    ASSUME HarnessInv, NEW w \in EvalWorkers, NEW q \in Questions, TakeItem(w, q)
    PROVE  HarnessInv'
<1> USE DEF HarnessInv
<1>1. /\ cmd.phase = "work" /\ q \in work /\ at[w].pc = "idle"
      /\ work' = work \ {q}
      /\ at' = [at EXCEPT ![w] = [pc |-> "do", q |-> q, row |-> "none"]]
      /\ UNCHANGED <<cmd, owed, inner, ckpt, writer, writeErr, file, stored, result>>
  BY DEF TakeItem
<1>2. /\ at'[w] = [pc |-> "do", q |-> q, row |-> "none"]
      /\ \A v \in EvalWorkers \ {w} : at'[v] = at[v]
  BY <1>1 DEF HarnessTypeOK
<1>3. HarnessTypeOK'
  BY <1>1, <1>2 DEF HarnessTypeOK
<1>4. QuietBetween'
  BY <1>1 DEF QuietBetween
<1>5. OnePlace'
  BY <1>1, <1>2 DEF OnePlace, AtQuestion
<1>6. \A x \in Questions : Pending(x)' <=> Pending(x)
  BY <1>1, <1>2 DEF Pending, AtQuestion
<1>7. Grounded'
  BY <1>1, <1>2 DEF Grounded
<1> QED
  BY <1>1, <1>3, <1>4, <1>5, <1>6, <1>7, MoveKeeps

\* A worker has made its row: whatever the stage, the project may only have
\* gained memories, and no row says "empty" while the check covers everything.
LEMMA MadePreserves ==
    ASSUME HarnessInv, NEW w \in EvalWorkers, NEW row \in Labels, Made(w, row),
           at[w].pc = "do",
           Cardinality(Questions) =< MaxSample => row # "empty",
           stored' \in [Questions -> BOOLEAN],
           \A q \in Questions : stored[q] => stored'[q],
           UNCHANGED <<cmd, work, owed, inner, ckpt, writer, writeErr, file, result>>
    PROVE  HarnessInv'
<1> USE DEF HarnessInv
<1>1. at' = [at EXCEPT ![w] = [pc |-> "send", q |-> at[w].q, row |-> row]]
  BY DEF Made
<1>a. /\ at'[w] = [pc |-> "send", q |-> at[w].q, row |-> row]
      /\ \A v \in EvalWorkers \ {w} : at'[v] = at[v]
  BY <1>1 DEF HarnessTypeOK
<1>2. HarnessTypeOK'
  BY <1>1, <1>a DEF HarnessTypeOK
<1>3. QuietBetween'
  BY <1>a DEF QuietBetween, HarnessTypeOK
<1>4. OnePlace'
  BY <1>a DEF OnePlace, AtQuestion
<1>5. \A x \in Questions : Pending(x)' <=> Pending(x)
  BY <1>a DEF Pending, AtQuestion
<1>6. Grounded'
  <2> SUFFICES ASSUME Cardinality(Questions) =< MaxSample
               PROVE  /\ \A v \in EvalWorkers : at'[v].row # "empty"
                      /\ \A r \in inner \cup ckpt : r.row # "empty"
                      /\ cmd.phase = "work" /\ cmd.stage = "run" /\ ~cmd.bypass /\ ~cmd.allow =>
                           /\ \A q \in work : stored'[q]
                           /\ \A v \in EvalWorkers : at'[v].pc = "do" => stored'[at'[v].q]
    BY DEF Grounded
  <2>1. \A v \in EvalWorkers : at[v].pc = "do" => at[v].q \in Questions
    BY DEF HarnessTypeOK
  <2>2. work \subseteq Questions
    BY DEF HarnessTypeOK
  <2> QED
    BY <1>a, <2>1, <2>2 DEF Grounded
<1> QED
  BY <1>2, <1>3, <1>4, <1>5, <1>6, MoveKeeps

LEMMA IngestOnePreserves ==
    ASSUME HarnessInv, NEW w \in EvalWorkers, IngestOne(w)
    PROVE  HarnessInv'
<1>1. PICK row \in {"done", "error"} : Made(w, row)
  BY DEF IngestOne
<1>2. /\ stored' \in [Questions -> BOOLEAN]
      /\ \A q \in Questions : stored[q] => stored'[q]
  BY DEF IngestOne, HarnessInv, HarnessTypeOK
<1> QED
  BY <1>1, <1>2, MadePreserves DEF IngestOne, Labels

LEMMA RunOnePreserves ==
    ASSUME HarnessInv, NEW w \in EvalWorkers, RunOne(w)
    PROVE  HarnessInv'
<1> DEFINE answer == IF cmd.bypass THEN "bypass"
                     ELSE IF stored[at[w].q] THEN "grounded"
                     ELSE IF cmd.allow THEN "override" ELSE "empty"
<1>1. cmd.stage = "run" /\ at[w].pc = "do" /\ cmd.phase = "work"
  BY DEF RunOne, HarnessInv, QuietBetween, HarnessTypeOK
<1>2. Cardinality(Questions) =< MaxSample => answer # "empty"
  BY <1>1 DEF HarnessInv, Grounded
<1>3. answer \in Labels /\ "error" \in Labels
  BY DEF Labels
<1>4. PICK row \in {"error", answer} : Made(w, row)
  BY DEF RunOne
<1>5. /\ UNCHANGED <<cmd, work, owed, inner, ckpt, writer, writeErr, file, result, stored>>
      /\ stored' \in [Questions -> BOOLEAN]
  BY DEF RunOne, HarnessInv, HarnessTypeOK
<1> HIDE DEF answer
<1> QED
  BY <1>1, <1>2, <1>3, <1>4, <1>5, MadePreserves

LEMMA ScorePreserves ==
    ASSUME HarnessInv, NEW w \in EvalWorkers, ScoreOne(w) \/ ScoreEfficientOne(w)
    PROVE  HarnessInv'
<1>1. PICK row \in {"error"} \cup Judgements : Made(w, row)
  BY DEF ScoreOne, ScoreEfficientOne
<1>2. /\ at[w].pc = "do"
      /\ UNCHANGED <<cmd, work, owed, inner, ckpt, writer, writeErr, file, result, stored>>
      /\ stored' \in [Questions -> BOOLEAN]
  BY DEF ScoreOne, ScoreEfficientOne, HarnessInv, HarnessTypeOK
<1>3. row \in Labels /\ row # "empty"
  BY DEF Labels, Judgements
<1> QED
  BY <1>1, <1>2, <1>3, MadePreserves

\* A row leaves its worker for a channel: the question stays in one place.
LEMMA SendRowPreserves ==
    ASSUME HarnessInv, NEW w \in EvalWorkers, SendRow(w)
    PROVE  HarnessInv'
<1> USE DEF HarnessInv
<1>0. /\ at[w].pc = "send"
      /\ UNCHANGED <<cmd, work, owed, writer, writeErr, file, stored, result>>
  BY DEF SendRow
<1>1. at[w].q \in Questions /\ at[w].row \in Labels /\ Row(w) \in RowSet
  BY <1>0 DEF HarnessTypeOK, Row, RowSet
<1>2. /\ inner' \cup ckpt' = (inner \cup ckpt) \cup {Row(w)}
      /\ inner' \in SUBSET RowSet /\ ckpt' \in SUBSET RowSet
  BY <1>1 DEF SendRow, HarnessTypeOK
<1>3. Row(w).q = at[w].q /\ Row(w).row = at[w].row
  BY DEF Row
<1>4. \A r \in inner \cup ckpt : r.q # at[w].q
  BY <1>0 DEF OnePlace, AtQuestion
<1>5. inner' \cap ckpt' = {}
  BY <1>3, <1>4 DEF SendRow, OnePlace
<1>6. /\ at' \in [EvalWorkers -> [pc : {"idle", "do", "send", "clean"},
                                  q : Questions \cup {0}, row : Labels \cup {"none"}]]
      /\ \A v \in EvalWorkers \ {w} : at'[v] = at[v]
      /\ \/ at'[w] = Idle
         \/ \E pc \in {"clean", "idle"} : at'[w] = [at[w] EXCEPT !.pc = pc]
  <2>1. \/ at' = [at EXCEPT ![w] = Idle]
        \/ \E pc \in {"clean", "idle"} : at' = [at EXCEPT ![w].pc = pc]
    BY DEF SendRow
  <2>2. CASE at' = [at EXCEPT ![w] = Idle]
    BY <2>2 DEF HarnessTypeOK, Idle
  <2>3. ASSUME NEW pc \in {"clean", "idle"}, at' = [at EXCEPT ![w].pc = pc]
        PROVE  /\ at' \in [EvalWorkers -> [pc : {"idle", "do", "send", "clean"},
                                  q : Questions \cup {0}, row : Labels \cup {"none"}]]
               /\ \A v \in EvalWorkers \ {w} : at'[v] = at[v]
               /\ at'[w] = [at[w] EXCEPT !.pc = pc]
    <3> DEFINE rest == [at[w] EXCEPT !.pc = pc]
    <3>1. rest \in [pc : {"idle", "do", "send", "clean"},
                    q : Questions \cup {0}, row : Labels \cup {"none"}]
      <4>1. at[w] \in [pc : {"idle", "do", "send", "clean"},
                       q : Questions \cup {0}, row : Labels \cup {"none"}]
        BY DEF HarnessTypeOK
      <4> HIDE DEF HarnessInv
      <4> QED
        BY <4>1
    <3>2. at' = [at EXCEPT ![w] = rest]
      BY <2>3
    <3> HIDE DEF rest
    <3>3. at'[w] = rest
      BY <3>2 DEF HarnessTypeOK
    <3> QED
      BY <3>1, <3>2, <3>3 DEF HarnessTypeOK, rest
  <2> QED
    BY <2>1, <2>2, <2>3
<1>7. /\ at'[w].pc \in {"clean", "idle"}
      /\ at'[w].pc = "clean" => at'[w].q = at[w].q
      /\ at'[w].row \in {"none", at[w].row}
  BY <1>6 DEF HarnessTypeOK, Idle
<1>8. HarnessTypeOK'
  BY <1>0, <1>1, <1>2, <1>6, <1>7, ZenonT(60) DEF HarnessTypeOK
<1>9. QuietBetween'
  BY <1>0 DEF QuietBetween, HarnessTypeOK
<1>10. OnePlace'
  <2>1. /\ \A v \in EvalWorkers : at'[v].pc # "idle" => at'[v].q \notin work'
        /\ \A u, v \in EvalWorkers :
             u # v /\ at'[u].pc # "idle" /\ at'[v].pc # "idle" => at'[u].q # at'[v].q
    BY <1>0, <1>6, <1>7 DEF OnePlace
  <2>2. \A r \in inner' \cup ckpt' : r.q \notin work'
    BY <1>0, <1>2, <1>3 DEF OnePlace
  <2>3. \A r \in inner' \cup ckpt', v \in EvalWorkers : AtQuestion(v)' => r.q # at'[v].q
    BY <1>0, <1>2, <1>3, <1>6, <1>7 DEF OnePlace, AtQuestion
  <2>4. \A r, s \in inner' \cup ckpt' : r.q = s.q => r = s
    BY <1>2, <1>3, <1>4 DEF OnePlace
  <2> QED
    BY <2>1, <2>2, <2>3, <2>4, <1>5 DEF OnePlace
<1>11. \A x \in Questions : Pending(x)' <=> Pending(x)
  <2>1. \A v \in EvalWorkers : AtQuestion(v)' <=> AtQuestion(v) /\ v # w
    BY <1>6, <1>7 DEF AtQuestion
  <2>2. AtQuestion(w)
    BY <1>0 DEF AtQuestion
  <2> QED
    BY <1>0, <1>2, <1>3, <1>6, <2>1, <2>2 DEF Pending
<1>12. Grounded'
  BY <1>0, <1>2, <1>3, <1>6, <1>7 DEF Grounded
<1> QED
  BY <1>0, <1>8, <1>9, <1>10, <1>11, <1>12, MoveKeeps

LEMMA CountRowPreserves ==
    ASSUME HarnessInv, NEW r \in inner, CountRow(r)
    PROVE  HarnessInv'
<1> USE DEF HarnessInv
<1>1. /\ inner' = inner \ {r} /\ ckpt' = ckpt \cup {r}
      /\ inner' \cup ckpt' = inner \cup ckpt
      /\ UNCHANGED <<cmd, work, owed, at, writer, writeErr, file, stored, result>>
  BY DEF CountRow
<1>2. HarnessTypeOK'
  BY <1>1 DEF HarnessTypeOK
<1>3. QuietBetween'
  BY <1>1 DEF QuietBetween
<1>4. OnePlace'
  BY <1>1 DEF OnePlace, AtQuestion
<1>5. \A x \in Questions : Pending(x)' <=> Pending(x)
  BY <1>1 DEF Pending, AtQuestion
<1>6. Grounded'
  BY <1>1 DEF Grounded
<1> QED
  BY <1>1, <1>2, <1>3, <1>4, <1>5, <1>6, MoveKeeps

\* DeleteProject takes the memories of a question that is answered; nobody
\* else is at it.
LEMMA CleanupPreserves ==
    ASSUME HarnessInv, NEW w \in EvalWorkers, Cleanup(w)
    PROVE  HarnessInv'
<1> USE DEF HarnessInv
<1>1. /\ at[w].pc = "clean" /\ at' = [at EXCEPT ![w] = Idle]
      /\ UNCHANGED <<cmd, work, owed, inner, ckpt, writer, writeErr, file, result>>
  BY DEF Cleanup
<1>2. /\ at'[w] = Idle
      /\ \A v \in EvalWorkers \ {w} : at'[v] = at[v]
  BY <1>1 DEF HarnessTypeOK
<1>3. /\ stored' \in [Questions -> BOOLEAN]
      /\ \A q \in Questions : q # at[w].q => stored'[q] = stored[q]
  BY DEF Cleanup, HarnessTypeOK
<1>4. HarnessTypeOK'
  BY <1>1, <1>2, <1>3 DEF HarnessTypeOK, Idle
<1>5. QuietBetween'
  BY <1>1, <1>2 DEF QuietBetween, Idle
<1>6. OnePlace'
  BY <1>1, <1>2 DEF OnePlace, AtQuestion, Idle
<1>7. \A x \in Questions : Pending(x)' <=> Pending(x)
  BY <1>1, <1>2 DEF Pending, AtQuestion, Idle
<1>8. Grounded'
  <2>1. \A q \in work : stored[q] => stored'[q]
    BY <1>1, <1>3 DEF OnePlace, HarnessTypeOK
  <2>2. \A v \in EvalWorkers : v # w /\ at[v].pc = "do" =>
           (stored[at[v].q] => stored'[at[v].q])
    BY <1>1, <1>3 DEF OnePlace, HarnessTypeOK
  <2> QED
    BY <1>1, <1>2, <2>1, <2>2 DEF Grounded, Idle
<1> QED
  BY <1>1, <1>4, <1>5, <1>6, <1>7, <1>8, MoveKeeps

LEMMA BatchRowPreserves ==
    ASSUME HarnessInv, NEW q \in Questions, BatchRow(q)
    PROVE  HarnessInv'
<1> USE DEF HarnessInv
<1>1. /\ cmd.phase = "fill" /\ q \in work /\ work' = work \ {q}
      /\ UNCHANGED <<cmd, owed, at, inner, writer, writeErr, file, stored, result>>
  BY DEF BatchRow
<1>2. PICK row \in Judgements \cup {"error"} : ckpt' = ckpt \cup {[q |-> q, row |-> row]}
  BY DEF BatchRow
<1>3. inner = {} /\ \A w \in EvalWorkers : at[w].pc = "idle"
  BY <1>1 DEF QuietBetween
<1>4. [q |-> q, row |-> row] \in RowSet /\ row # "empty"
  BY DEF RowSet, Labels, Judgements
<1>5. HarnessTypeOK'
  BY <1>1, <1>2, <1>4 DEF HarnessTypeOK
<1>6. QuietBetween'
  BY <1>1 DEF QuietBetween
<1>7. OnePlace'
  BY <1>1, <1>2, <1>3 DEF OnePlace, AtQuestion
<1>8. \A x \in Questions : Pending(x)' <=> Pending(x)
  <2>1. \A x \in Questions : Pending(x) <=> x \in work \/ \E r \in ckpt : r.q = x
    BY <1>3 DEF Pending, AtQuestion
  <2>2. \A x \in Questions : Pending(x)' <=> x \in work' \/ \E r \in ckpt' : r.q = x
    BY <1>1, <1>3 DEF Pending, AtQuestion
  <2> QED
    <3> DEFINE new == [q |-> q, row |-> row]
    <3>1. new.q = q /\ ckpt' = ckpt \cup {new}
      BY <1>2
    <3> HIDE DEF new
    <3> QED
      BY <1>1, <2>1, <2>2, <3>1
<1>9. Grounded'
  BY <1>1, <1>2, <1>4 DEF Grounded
<1> QED
  BY <1>1, <1>5, <1>6, <1>7, <1>8, <1>9, MoveKeeps

LEMMA BatchWritesPreserves == HarnessInv /\ BatchWrites => HarnessInv'
<1> SUFFICES ASSUME HarnessInv, BatchWrites PROVE HarnessInv'
  OBVIOUS
<1> USE DEF HarnessInv
<1>1. /\ cmd.phase = "fill" /\ work = {} /\ cmd' = [cmd EXCEPT !.phase = "work"]
      /\ writer' \in {"writing", "draining"} /\ writeErr' \in BOOLEAN
      /\ UNCHANGED <<work, owed, at, inner, ckpt, file, stored, result>>
  BY DEF BatchWrites
<1>2. /\ cmd'.phase = "work" /\ cmd'.stage = cmd.stage /\ cmd'.force = cmd.force
      /\ ~writeErr
      /\ \A w \in EvalWorkers : at[w].pc = "idle"
  BY <1>1 DEF HarnessTypeOK, QuietBetween
<1>3. HarnessTypeOK'
  BY <1>1 DEF HarnessTypeOK
<1>4. QuietBetween' /\ OnePlace'
  BY <1>1, <1>2 DEF QuietBetween, OnePlace, AtQuestion
<1>5. DrainsKnown'
  BY DEF BatchWrites, DrainsKnown
<1>6. \A x \in Questions : Pending(x)' <=> Pending(x)
  BY <1>1 DEF Pending, AtQuestion
<1>7. OwedPending'
  BY <1>1, <1>2, <1>6 DEF OwedPending, HarnessTypeOK
<1>8. PendingFresh' /\ CorrectIsDone'
  BY <1>1, <1>2, <1>6 DEF PendingFresh, CorrectIsDone
<1>9. Grounded'
  BY <1>1, <1>2 DEF Grounded
<1>10. ResultsTrustworthy'
  BY <1>1 DEF ResultsTrustworthy, OnceDone, GroundedAnswers, ExitZeroMeansRecorded
<1> QED
  BY <1>3, <1>4, <1>5, <1>7, <1>8, <1>9, <1>10

\* What appending a row does to the files.
LEMMA AppendedFile ==
    ASSUME HarnessTypeOK, cmd.stage \in Stages, NEW r \in RowSet, Appended(r)
    PROVE  /\ file' \in [Files -> [Questions -> [done : Nat, last : Labels \cup {"none"}]]]
           /\ \A f \in Files, q \in Questions :
                 f # FileOf(cmd.stage) \/ q # r.q => file'[f][q] = file[f][q]
           /\ file'[FileOf(cmd.stage)][r.q].last = r.row
           /\ file'[FileOf(cmd.stage)][r.q].done =
                 file[FileOf(cmd.stage)][r.q].done + (IF r.row = "error" THEN 0 ELSE 1)
<1> DEFINE f == FileOf(cmd.stage)
           old == file[f]
           cell == [done |-> old[r.q].done + (IF r.row = "error" THEN 0 ELSE 1),
                    last |-> r.row]
<1>1. f \in Files /\ r.q \in Questions /\ r.row \in Labels
  BY DEF FileOf, Stages, Files, RowSet
<1>2. old \in [Questions -> [done : Nat, last : Labels \cup {"none"}]]
  BY <1>1 DEF HarnessTypeOK
<1>3. cell \in [done : Nat, last : Labels \cup {"none"}]
  BY <1>1, <1>2
<1>4. file' = [file EXCEPT ![f] = [old EXCEPT ![r.q] = cell]]
  BY DEF Appended
<1> DEFINE new == [old EXCEPT ![r.q] = cell]
<1>5. cell.last = r.row /\ cell.done = old[r.q].done + (IF r.row = "error" THEN 0 ELSE 1)
  OBVIOUS
<1> HIDE DEF cell
<1>6. /\ new \in [Questions -> [done : Nat, last : Labels \cup {"none"}]]
      /\ new[r.q] = cell
      /\ \A q \in Questions : q # r.q => new[q] = old[q]
  BY <1>1, <1>2, <1>3
<1> HIDE DEF new
<1>7. file \in [Files -> [Questions -> [done : Nat, last : Labels \cup {"none"}]]]
  BY DEF HarnessTypeOK
<1>8. file' = [file EXCEPT ![f] = new]
  BY <1>4 DEF new
<1> HIDE DEF f
<1>9. /\ file' \in [Files -> [Questions -> [done : Nat, last : Labels \cup {"none"}]]]
      /\ file'[f] = new
      /\ \A g \in Files : g # f => file'[g] = file[g]
  BY <1>1, <1>6, <1>7, <1>8
<1> QED
  BY <1>1, <1>5, <1>6, <1>9 DEF f

\* The writer takes a row: its question is no longer pending, the others are.
LEMMA WriteRowPreserves ==
    ASSUME HarnessInv, NEW r \in ckpt, WriteRow(r)
    PROVE  HarnessInv'
<1> USE DEF HarnessInv
<1>1. /\ cmd.phase = "work" /\ ckpt' = ckpt \ {r}
      /\ UNCHANGED <<cmd, work, at, inner, writer, stored, result>>
      /\ writeErr' \in BOOLEAN /\ (writeErr => writeErr')
      /\ owed' \in {owed, owed \ {r.q}}
  <2>1. writeErr' \in {writeErr, TRUE} /\ owed' \in {owed, owed \ {r.q}}
    BY DEF WriteRow
  <2>2. writeErr \in BOOLEAN
    BY DEF HarnessTypeOK
  <2>3. writeErr' \in BOOLEAN /\ (writeErr => writeErr')
    <3>1. CASE writeErr' = writeErr
      BY <3>1, <2>2
    <3>2. CASE writeErr' = TRUE
      BY <3>2
    <3> QED
      BY <2>1, <3>1, <3>2
  <2>4. /\ cmd.phase = "work" /\ ckpt' = ckpt \ {r}
        /\ UNCHANGED <<cmd, work, at, inner, writer, stored, result>>
    BY DEF WriteRow
  <2> QED
    BY <2>1, <2>3, <2>4, Zenon
<1>2. cmd.stage \in Stages /\ r \in RowSet
  BY <1>1 DEF HarnessTypeOK
<1>3. r.q \in Questions /\ r.row \in Labels
  BY <1>2 DEF RowSet
<1>4. \/ Appended(r) /\ owed' = owed \ {r.q} /\ writeErr' = writeErr
      \/ file' = file /\ owed' = owed /\ writeErr'
  BY DEF WriteRow, DrainsKnown
<1>5. HarnessTypeOK'
  BY <1>1, <1>2, <1>4, AppendedFile DEF HarnessTypeOK
<1>6. QuietBetween'
  BY <1>1 DEF QuietBetween
<1>7. OnePlace'
  BY <1>1 DEF OnePlace, AtQuestion
<1>8. DrainsKnown'
  BY <1>1 DEF DrainsKnown
<1>9. \A x \in Questions : Pending(x)' <=> Pending(x) /\ x # r.q
  <2>1. Pending(r.q) /\ ~Pending(r.q)'
    BY <1>1 DEF Pending, OnePlace, AtQuestion
  <2>2. \A x \in Questions : x # r.q => (Pending(x)' <=> Pending(x))
    BY <1>1 DEF Pending, AtQuestion
  <2> QED
    BY <2>1, <2>2
<1>10. OwedPending'
  BY <1>1, <1>4, <1>9 DEF OwedPending, HarnessTypeOK
<1>11. \A f \in Files, q \in Questions :
          f # FileOf(cmd.stage) \/ q # r.q => file'[f][q] = file[f][q]
  BY <1>2, <1>4, AppendedFile
<1>12. PendingFresh'
  <2> SUFFICES ASSUME NEW q \in Questions, Pending(q)'
               PROVE  /\ cmd.stage \in {"ingest", "run"} => file'[cmd.stage][q].done = 0
                      /\ cmd.stage \in {"score", "efficient", "batch"} /\ ~cmd.force
                            => file'["score"][q].last # "CORRECT"
    BY <1>1 DEF PendingFresh
  <2>1. Pending(q) /\ q # r.q
    BY <1>9
  <2>2. /\ file'["score"][q] = file["score"][q]
        /\ cmd.stage \in {"ingest", "run"} => file'[cmd.stage][q] = file[cmd.stage][q]
    BY <2>1, <1>11 DEF Files
  <2> QED
    BY <2>1, <2>2 DEF PendingFresh
<1>13. Pending(r.q)
  BY DEF Pending
<1>14. CorrectIsDone'
  <2> SUFFICES ASSUME NEW q \in Questions, file'["score"][q].last = "CORRECT"
               PROVE  file'["score"][q].done > 0
    BY DEF CorrectIsDone
  <2>1. "score" \in Files /\ file["score"][q].done \in Nat
    BY DEF Files, HarnessTypeOK
  <2>2. CASE file' = file
    BY <2>2 DEF CorrectIsDone
  <2>3. CASE Appended(r) /\ FileOf(cmd.stage) = "score" /\ q = r.q
    BY <2>1, <2>3, <1>2, AppendedFile
  <2>4. CASE FileOf(cmd.stage) # "score" \/ q # r.q
    BY <2>1, <2>4, <1>11 DEF CorrectIsDone
  <2> QED
    BY <2>2, <2>3, <2>4, <1>4
<1>15. Grounded'
  BY <1>1 DEF Grounded
<1>16. OnceDone'
  <2> SUFFICES ASSUME NEW q \in Questions, NEW f \in {"ingest", "run"}
               PROVE  file'[f][q].done =< 1
    BY DEF OnceDone
  <2>1. f \in Files
    BY DEF Files
  <2>2. CASE file' = file
    BY <2>2 DEF ResultsTrustworthy, OnceDone
  <2>3. CASE Appended(r) /\ FileOf(cmd.stage) = f /\ q = r.q
    <3>1. cmd.stage = f
      BY <2>3, <1>2 DEF FileOf, Stages, Files
    <3>2. file[f][q].done = 0
      BY <3>1, <2>3, <1>13, <1>3 DEF PendingFresh
    <3> QED
      BY <2>3, <3>2, <1>2, AppendedFile
  <2>4. CASE FileOf(cmd.stage) # f \/ q # r.q
    BY <2>1, <2>4, <1>11 DEF ResultsTrustworthy, OnceDone
  <2> QED
    BY <2>2, <2>3, <2>4, <1>4
<1>17. GroundedAnswers'
  <2> SUFFICES ASSUME NEW q \in Questions, Cardinality(Questions) =< MaxSample
               PROVE  file'["run"][q].last # "empty"
    BY DEF GroundedAnswers
  <2>1. "run" \in Files /\ r.row # "empty"
    BY DEF Files, Grounded
  <2>2. CASE file' = file
    BY <2>2 DEF ResultsTrustworthy, GroundedAnswers
  <2>3. CASE Appended(r) /\ FileOf(cmd.stage) = "run" /\ q = r.q
    BY <2>1, <2>3, <1>2, AppendedFile
  <2>4. CASE FileOf(cmd.stage) # "run" \/ q # r.q
    BY <2>1, <2>4, <1>11 DEF ResultsTrustworthy, GroundedAnswers
  <2> QED
    BY <2>2, <2>3, <2>4, <1>4
<1>18. ExitZeroMeansRecorded'
  BY <1>1 DEF ResultsTrustworthy, ExitZeroMeansRecorded
<1> QED
  BY <1>5, <1>6, <1>7, <1>8, <1>10, <1>12, <1>14, <1>15, <1>16, <1>17, <1>18
  DEF ResultsTrustworthy

LEMMA HarnessStepPreserves == HarnessInv /\ [HarnessNext]_harnessVars => HarnessInv'
<1> SUFFICES ASSUME HarnessInv, [HarnessNext]_harnessVars PROVE HarnessInv'
  OBVIOUS
<1>1. CASE UNCHANGED harnessVars
  BY <1>1
  DEF harnessVars, HarnessInv, HarnessTypeOK, QuietBetween, OnePlace, DrainsKnown,
      OwedPending, PendingFresh, CorrectIsDone, Grounded, Pending, AtQuestion,
      ResultsTrustworthy, ExitZeroMeansRecorded, OnceDone, GroundedAnswers
<1>2. CASE \E s \in Files \cup {"efficient", "batch"}, all \in BOOLEAN : Launch(s, all)
  BY <1>2, LaunchPreserves DEF Stages
<1>3. CASE HarnessStep
  BY <1>3, RefusePreserves, EnterPreserves, FinishPreserves, BatchAnsweredPreserves,
     BatchWritesPreserves, BatchRowPreserves, TakeItemPreserves, IngestOnePreserves,
     RunOnePreserves, ScorePreserves, SendRowPreserves, CleanupPreserves,
     CountRowPreserves, WriteRowPreserves
  DEF HarnessStep
<1>4. CASE KillHarness
  BY <1>4, KillPreserves
<1> QED
  BY <1>1, <1>2, <1>3, <1>4 DEF HarnessNext

LEMMA HarnessAlways == HarnessSpec => []HarnessInv
BY HarnessInitially, HarnessStepPreserves, PTL DEF HarnessSpec

\* The harness commands, killed and restarted in any order and with failing
\* writes: exit code 0 means every queued question has its row, no question is
\* ingested or run to "done" twice, no answer is made without its project.
THEOREM CheckpointsTrustworthy == HarnessSpec => []ResultsTrustworthy
<1>1. HarnessInv => ResultsTrustworthy
  BY DEF HarnessInv
<1> QED
  BY <1>1, HarnessAlways, PTL

\* buildPreserveSkipSet: without --force-rescore no step of any command takes
\* CORRECT away from a question of the score file.
THEOREM CorrectNeverLost == HarnessSpec => CorrectKept
<1> DEFINE Kept == \A q \in Questions :
              file["score"][q].last = "CORRECT" /\ ~cmd.force
                 => file'["score"][q].last = "CORRECT"
<1>1. ASSUME HarnessInv, [HarnessNext]_harnessVars PROVE [Kept]_harnessVars
  <2> SUFFICES ASSUME NEW q \in Questions,
                      file["score"][q].last = "CORRECT", ~cmd.force
               PROVE  file'["score"][q].last = "CORRECT"
    OBVIOUS
  <2>1. CASE file' = file
    BY <2>1
  <2>2. CASE \E r \in ckpt : WriteRow(r)
    <3>1. PICK r \in ckpt : WriteRow(r)
      BY <2>2
    <3>2. cmd.stage \in Stages /\ r \in RowSet /\ Pending(r.q) /\ r.q \in Questions
      BY <3>1, <1>1 DEF WriteRow, HarnessInv, HarnessTypeOK, Pending, RowSet
    <3>3. CASE file' = file
      BY <3>3
    <3>4. CASE Appended(r)
      <4>1. FileOf(cmd.stage) = "score" => q # r.q
        BY <3>2, <1>1 DEF HarnessInv, PendingFresh, FileOf, Stages, Files
      <4>2. "score" \in Files
        BY DEF Files
      <4> QED
        BY <3>2, <3>4, <4>1, <4>2, <1>1, AppendedFile DEF HarnessInv
    <3> QED
      BY <3>1, <3>3, <3>4 DEF WriteRow
  <2>3. file' = file \/ \E r \in ckpt : WriteRow(r)
    BY <1>1
    DEF HarnessNext, HarnessStep, harnessVars, Launch, Refuse, Enter, Finish, EndStage,
        BatchAnswered, BatchWrites, BatchRow, TakeItem, IngestOne, RunOne, ScoreOne,
        ScoreEfficientOne, SendRow, Cleanup, CountRow, KillHarness
  <2> QED
    BY <2>1, <2>2, <2>3
<1>2. HarnessSpec => [][Kept]_harnessVars
  BY <1>1, HarnessAlways, PTL DEF HarnessSpec
<1> QED
  BY <1>2 DEF CorrectKept

-----------------------------------------------------------------------------
(* One question: the ids of its recalls and the context of its prompt.     *)

\* A ranking that names no memory twice.
Ranking(s) == s \in Seq(Nat) /\ IsInjective(s)

LEMMA DistinctLoop ==
    ASSUME NEW s \in Seq(Nat)
    PROVE  \E f : /\ f[0] = <<>> /\ Distinct(s) = f[Len(s)]
                 /\ \A i \in 1 .. Len(s) : f[i] = IF s[i] \in ToSet(f[i - 1]) THEN f[i - 1] ELSE Append(f[i - 1], s[i])
<1> DEFINE step(x, i) == IF s[i] \in ToSet(x) THEN x ELSE Append(x, s[i])
<1>0. PICK nn, bb, SS : nn = Len(s) /\ bb = <<>> /\ SS = Seq(Nat)
  OBVIOUS
<1> DEFINE loop(f) == f = [i \in 0 .. nn |-> IF i = 0 THEN bb ELSE step(f[i - 1], i)]
<1>1. nn \in Nat /\ bb \in SS
  BY <1>0
<1>2. \A x \in SS, i \in 1 .. nn : step(x, i) \in SS
  BY <1>0
<1>3. Distinct(s) = (CHOOSE f : loop(f))[nn]
  BY <1>0 DEF Distinct, LeftFold
<1> HIDE DEF step
<1>4. PICK G : AreTurns(G, nn, SS) /\ \A i \in 1 .. nn, x \in SS : G[i][x] = step(x, i)
  <2> DEFINE H == [i \in 1 .. nn |-> [x \in SS |-> step(x, i)]]
  <2>1. AreTurns(H, nn, SS) /\ \A i \in 1 .. nn, x \in SS : H[i][x] = step(x, i)
    BY <1>2 DEF AreTurns
  <2> HIDE DEF H
  <2> QED
    BY <2>1
<1>5. PICK g : IsLoop(g, nn, SS, bb, G)
  BY <1>1, <1>4, LoopExists
<1>6. loop(g)
  <2>1. \A i \in 1 .. nn : g[i - 1] \in SS /\ g[i] = step(g[i - 1], i)
    BY <1>1, <1>4, <1>5 DEF IsLoop
  <2>2. \A i \in 0 .. nn : g[i] = IF i = 0 THEN bb ELSE step(g[i - 1], i)
    BY <1>1, <1>5, <2>1 DEF IsLoop
  <2> QED
    BY <1>5, <2>2 DEF IsLoop
<1>7. PICK f : loop(f) /\ Distinct(s) = f[nn]
  <2> HIDE DEF loop
  <2> QED
    BY <1>3, <1>6
<1>8. f[0] = bb /\ \A i \in 1 .. nn : f[i] = step(f[i - 1], i)
  BY <1>1, <1>7
<1> QED
  BY <1>0, <1>7, <1>8 DEF step

\* The first occurrences are the same ids, each once; a ranking has no others.
LEMMA DistinctFacts ==
    ASSUME NEW s \in Seq(Nat)
    PROVE  /\ Ranking(Distinct(s)) /\ Range(Distinct(s)) = Range(s)
           /\ IsInjective(s) => Distinct(s) = s
<1>1. PICK f : /\ f[0] = <<>> /\ Distinct(s) = f[Len(s)]
               /\ \A i \in 1 .. Len(s) :
                    f[i] = IF s[i] \in ToSet(f[i - 1]) THEN f[i - 1] ELSE Append(f[i - 1], s[i])
  BY DistinctLoop
<1>2. PICK n \in Nat : n = Len(s) /\ \A i \in 1 .. n : s[i] \in Nat
  OBVIOUS
<1>3. DOMAIN s = 1 .. n
  BY <1>2
<1> DEFINE Good(i) == /\ Ranking(f[i]) /\ Range(f[i]) = UpTo(s, i)
                      /\ IsInjective(s) => Len(f[i]) = i /\ \A j \in 1 .. i : f[i][j] = s[j]
           T == {i \in 0 .. n : Good(i)}
<1>4. Good(0)
  <2>1. <<>> \in Seq(Nat) /\ Len(<<>>) = 0 /\ Range(<<>>) = {} /\ IsInjective(<<>>)
    BY DEF Range, IsInjective
  <2>2. UpTo(s, 0) = {}
    BY DEF UpTo
  <2>3. PICK g : g = f[0]
    OBVIOUS
  <2>4. g \in Seq(Nat) /\ Len(g) = 0 /\ Range(g) = UpTo(s, 0) /\ IsInjective(g)
    BY <1>1, <2>1, <2>2, <2>3
  <2>5. Ranking(g) /\ \A j \in 1 .. 0 : g[j] = s[j]
    BY <2>4 DEF Ranking
  <2> QED
    BY <2>3, <2>4, <2>5
<1>5. ASSUME NEW i \in 1 .. n, Good(i - 1) PROVE Good(i)
  <2>1. PICK g : g = f[i - 1]
    OBVIOUS
  <2>2. g \in Seq(Nat) /\ IsInjective(g) /\ Range(g) = UpTo(s, i - 1)
    BY <1>5, <2>1 DEF Ranking
  <2>3. ToSet(g) = Range(g)
    BY <2>2 DEF ToSet, Range
  <2>4. UpTo(s, i) = UpTo(s, i - 1) \cup {s[i]} /\ s[i] \in Nat
    BY <1>2 DEF UpTo
  <2>5. IsInjective(s) => s[i] \notin UpTo(s, i - 1)
    BY <1>3 DEF UpTo, IsInjective
  <2>6. CASE s[i] \in Range(g)
    <3>1. f[i] = g
      BY <1>1, <1>2, <2>1, <2>3, <2>6
    <3> QED
      BY <2>2, <2>4, <2>5, <2>6, <3>1 DEF Ranking
  <2>7. CASE s[i] \notin Range(g)
    <3>1. f[i] = Append(g, s[i])
      BY <1>1, <1>2, <2>1, <2>3, <2>7
    <3>2. /\ f[i] \in Seq(Nat) /\ Len(f[i]) = Len(g) + 1 /\ Range(f[i]) = Range(g) \cup {s[i]}
          /\ IsInjective(f[i])
      BY <2>2, <2>4, <2>7, <3>1, AppendFacts
    <3>3. ASSUME IsInjective(s)
          PROVE  Len(f[i]) = i /\ \A j \in 1 .. i : f[i][j] = s[j]
      <4>1. Len(g) = i - 1 /\ \A j \in 1 .. i - 1 : g[j] = s[j]
        BY <1>5, <2>1, <3>3
      <4>2. /\ \A j \in 1 .. i - 1 : f[i][j] = g[j]
            /\ f[i][i] = s[i]
        BY <2>2, <2>4, <3>1, <4>1, AppendProperties
      <4>3. Len(f[i]) = i
        BY <3>2, <4>1
      <4>4. ASSUME NEW j \in 1 .. i PROVE f[i][j] = s[j]
        <5>1. CASE j = i
          BY <4>2, <5>1
        <5>2. CASE j \in 1 .. i - 1
          BY <4>1, <4>2, <5>2
        <5> QED
          BY <5>1, <5>2
      <4> QED
        BY <4>3, <4>4
    <3> QED
      BY <2>2, <2>4, <3>2, <3>3 DEF Ranking
  <2> QED
    BY <2>6, <2>7
<1>6. Good(n)
  <2> HIDE DEF Good
  <2>1. 0 \in T /\ \A i \in 1 .. n : i - 1 \in T => i \in T
    BY <1>4, <1>5
  <2> HIDE DEF T
  <2>2. \A i \in 0 .. n : i \in T
    BY <2>1, UpToAll
  <2>3. n \in T
    BY <2>2
  <2> QED
    BY <2>3 DEF T
<1>7. UpTo(s, n) = Range(s)
  BY <1>3 DEF UpTo, Range
<1>8. PICK d : d = Distinct(s)
  OBVIOUS
<1>9. /\ Ranking(d) /\ Range(d) = Range(s)
      /\ IsInjective(s) => Len(d) = n /\ \A j \in 1 .. n : d[j] = s[j]
  BY <1>1, <1>2, <1>6, <1>7, <1>8
<1>10. IsInjective(s) => d = s
  <2>1. d \in Seq(Nat)
    BY <1>9 DEF Ranking
  <2> QED
    BY <1>2, <1>9, <2>1, SeqEqual
<1> QED
  BY <1>8, <1>9, <1>10

LEMMA UnionFacts ==
    ASSUME NEW s \in Seq(Nat), NEW t \in Seq(Nat)
    PROVE  Ranking(UnionIDs(s, t)) /\ Range(UnionIDs(s, t)) = Range(s) \cup Range(t)
<1>1. s \o t \in Seq(Nat) /\ Range(s \o t) = Range(s) \cup Range(t)
  BY ConcatFacts
<1> QED
  BY <1>1, DistinctFacts DEF UnionIDs

LEMMA ReserveType == ASSUME NEW n \in Nat PROVE Reserve(n) \in Nat
<1>1. (n + 3) \div 4 \in Nat
  OBVIOUS
<1> QED
  BY <1>1 DEF Reserve

\* The replacement keeps the ids apart, and all but the last k in their places.
LEMMA SwapFacts ==
    ASSUME NEW out, Ranking(out), NEW new, Ranking(new), Range(out) \cap Range(new) = {},
           NEW k \in Nat, k =< Len(out), k =< Len(new)
    PROVE  /\ SwapIn(out, new, k) \in Seq(Nat) /\ IsInjective(SwapIn(out, new, k))
           /\ Len(SwapIn(out, new, k)) = Len(out)
           /\ Range(SwapIn(out, new, k)) \subseteq Range(out) \cup Range(new)
           /\ \A i \in 1 .. Len(out) : i =< Len(out) - k => SwapIn(out, new, k)[i] = out[i]
<1>1. PICK n, w \in Nat : n = Len(out) /\ w = Len(new)
  BY DEF Ranking
<1>2. /\ DOMAIN out = 1 .. n /\ \A i \in 1 .. n : out[i] \in Nat
      /\ DOMAIN new = 1 .. w /\ \A i \in 1 .. w : new[i] \in Nat
  BY <1>1 DEF Ranking
<1>3. /\ \A i, j \in 1 .. n : out[i] = out[j] => i = j
      /\ \A i, j \in 1 .. w : new[i] = new[j] => i = j
      /\ \A i \in 1 .. n, j \in 1 .. w : out[i] # new[j]
  BY <1>2 DEF Ranking, IsInjective, Range
<1>4. \A i \in 1 .. n : i > n - k => n - i + 1 \in 1 .. w
  BY <1>1
<1>5. PICK c : c = SwapIn(out, new, k)
  OBVIOUS
<1>6. c = [i \in 1 .. n |-> IF i > n - k THEN new[n - i + 1] ELSE out[i]]
  BY <1>1, <1>5 DEF SwapIn
<1>7. c \in [1 .. n -> Nat]
  BY <1>2, <1>4, <1>6
<1>8. c \in Seq(Nat) /\ Len(c) = n
  BY <1>7
<1>9. \A i \in 1 .. n : /\ i > n - k => c[i] = new[n - i + 1]
                        /\ ~(i > n - k) => c[i] = out[i]
  BY <1>6
<1>10. DOMAIN c = 1 .. n
  BY <1>7
<1>11. IsInjective(c)
  <2>1. ASSUME NEW i \in 1 .. n, NEW j \in 1 .. n, c[i] = c[j] PROVE i = j
    <3>1. CASE i > n - k /\ j > n - k
      <4>1. n - i + 1 = n - j + 1
        BY <1>3, <1>4, <1>9, <2>1, <3>1, ZenonT(60)
      <4> QED
        BY <4>1
    <3>2. CASE ~(i > n - k) /\ ~(j > n - k)
      BY <1>3, <1>9, <2>1, <3>2
    <3>3. CASE i > n - k /\ ~(j > n - k)
      <4>1. n - i + 1 \in 1 .. w /\ c[i] = new[n - i + 1] /\ c[j] = out[j]
        BY <1>4, <1>9, <3>3
      <4> QED
        BY <1>3, <2>1, <4>1
    <3>4. CASE ~(i > n - k) /\ j > n - k
      <4>1. n - j + 1 \in 1 .. w /\ c[j] = new[n - j + 1] /\ c[i] = out[i]
        BY <1>4, <1>9, <3>4
      <4> QED
        BY <1>3, <2>1, <4>1
    <3> QED
      BY <3>1, <3>2, <3>3, <3>4
  <2> QED
    BY <1>10, <2>1 DEF IsInjective
<1>12. Range(c) \subseteq Range(out) \cup Range(new)
  <2>1. ASSUME NEW i \in 1 .. n PROVE c[i] \in Range(out) \cup Range(new)
    <3>1. CASE i > n - k
      BY <1>2, <1>4, <1>9, <3>1 DEF Range
    <3>2. CASE ~(i > n - k)
      BY <1>2, <1>9, <3>2 DEF Range
    <3> QED
      BY <3>1, <3>2
  <2> QED
    BY <1>10, <2>1 DEF Range
<1>13. \A i \in 1 .. n : i =< n - k => c[i] = out[i]
  BY <1>9
<1> QED
  BY <1>1, <1>5, <1>8, <1>11, <1>12, <1>13

LEMMA SelectFacts ==
    ASSUME NEW ids, Ranking(ids), NEW sec \in Seq(Nat), NEW limit \in Nat, limit =< Len(ids)
    PROVE  /\ SelectContext(ids, sec, limit) \in Seq(Nat)
           /\ IsInjective(SelectContext(ids, sec, limit))
           /\ Range(SelectContext(ids, sec, limit)) \subseteq Range(ids) \cup Range(sec)
           /\ Len(SelectContext(ids, sec, limit)) = limit
           /\ \A i \in 1 .. limit : i =< limit - Reserve(limit)
                                      => SelectContext(ids, sec, limit)[i] = ids[i]
<1>1. ids \in Seq(Nat) /\ IsInjective(ids) /\ Len(ids) \in Nat
  BY DEF Ranking
<1>2. Reserve(limit) \in Nat
  BY ReserveType
<1>3. PICK out : out = SubSeq(ids, 1, limit)
  OBVIOUS
<1>4. Distinct(ids) = ids
  BY <1>1, DistinctFacts
<1>5. /\ out \in Seq(Nat) /\ Len(out) = limit /\ \A i \in 1 .. limit : out[i] = ids[i]
      /\ Range(out) \subseteq Range(ids) /\ IsInjective(out)
  BY <1>1, <1>3, PrefixFacts
<1>6. Ranking(out) /\ ToSet(out) = Range(out)
  BY <1>5 DEF Ranking, ToSet, Range
<1>7. CASE limit = 0 \/ ids = <<>>
  <2>1. SelectContext(ids, sec, limit) = <<>>
    BY <1>7 DEF SelectContext
  <2>2. limit = 0
    BY <1>7
  <2>3. <<>> \in Seq(Nat) /\ Len(<<>>) = 0 /\ Range(<<>>) = {} /\ IsInjective(<<>>)
    BY DEF Range, IsInjective
  <2>4. PICK c : c = SelectContext(ids, sec, limit)
    OBVIOUS
  <2>5. c \in Seq(Nat) /\ Len(c) = 0 /\ Range(c) = {} /\ IsInjective(c)
    BY <2>1, <2>3, <2>4
  <2>6. \A i \in 1 .. limit : FALSE
    BY <2>2
  <2> QED
    BY <2>2, <2>4, <2>5, <2>6
<1>8. CASE ~(limit = 0 \/ ids = <<>>) /\ sec = <<>>
  <2>1. SelectContext(ids, sec, limit) = out
    BY <1>3, <1>4, <1>8 DEF SelectContext
  <2> QED
    BY <1>5, <2>1
<1>9. CASE ~(limit = 0 \/ ids = <<>>) /\ sec # <<>>
  <2>1. PICK new : new = Without(Distinct(sec), Range(out))
    OBVIOUS
  <2>2. Ranking(new) /\ Range(new) = Range(sec) \ Range(out)
    <3>1. Ranking(Distinct(sec)) /\ Range(Distinct(sec)) = Range(sec)
      BY DistinctFacts
    <3>2. /\ new \in Seq(Nat) /\ Range(new) = Range(Distinct(sec)) \ Range(out)
          /\ IsInjective(new)
      BY <2>1, <3>1, WithoutFacts DEF Ranking
    <3> QED
      BY <3>1, <3>2 DEF Ranking
  <2>3. PICK kept : kept = Cardinality(Range(out) \cap ToSet(sec))
    OBVIOUS
  <2>4. kept \in Nat
    <3>1. IsFiniteSet(Range(out))
      BY <1>5, RangeFinite
    <3>2. Range(out) \cap ToSet(sec) \in SUBSET Range(out)
      OBVIOUS
    <3>3. IsFiniteSet(Range(out) \cap ToSet(sec))
      BY <3>1, <3>2, FS_Subset
    <3> QED
      BY <2>3, <3>3, FS_CardinalityType
  <2>5. PICK free \in Nat : /\ free = (IF kept >= Reserve(limit) THEN 0 ELSE Reserve(limit) - kept)
                            /\ free =< Reserve(limit)
    BY <1>2, <2>4
  <2>6. Len(new) \in Nat
    BY <2>2 DEF Ranking
  <2>7. PICK k \in Nat : k = (IF free < Len(new) THEN free ELSE Len(new)) /\ k =< free /\ k =< Len(new)
    BY <2>6
  <2>8. PICK kk \in Nat : /\ kk = (IF k < Len(out) THEN k ELSE Len(out))
                          /\ kk =< Len(out) /\ kk =< Len(new) /\ kk =< Reserve(limit)
    BY <1>2, <1>5, <2>5, <2>6, <2>7, SMTT(30)
  <2>9. SelectContext(ids, sec, limit) = SwapIn(out, new, kk)
    BY <1>3, <1>4, <1>6, <1>9, <2>1, <2>3, <2>5, <2>7, <2>8 DEF SelectContext
  <2>10. Range(out) \cap Range(new) = {}
    BY <2>2
  <2>11. PICK c : c = SwapIn(out, new, kk)
    OBVIOUS
  <2>12. /\ c \in Seq(Nat) /\ IsInjective(c) /\ Len(c) = limit
         /\ Range(c) \subseteq Range(out) \cup Range(new)
         /\ \A i \in 1 .. limit : i =< limit - kk => c[i] = out[i]
    <3>1. /\ c \in Seq(Nat) /\ IsInjective(c) /\ Len(c) = Len(out)
          /\ Range(c) \subseteq Range(out) \cup Range(new)
          /\ \A i \in 1 .. Len(out) : i =< Len(out) - kk => c[i] = out[i]
      BY <1>6, <2>2, <2>8, <2>10, <2>11, SwapFacts
    <3>2. Len(out) = limit
      BY <1>5
    <3> QED
      BY <3>1, <3>2
  <2>13. \A i \in 1 .. limit : i =< limit - Reserve(limit) => i =< limit - kk
    BY <1>2, <2>8
  <2>14. \A i \in 1 .. limit : i =< limit - Reserve(limit) => c[i] = ids[i]
    BY <1>5, <2>12, <2>13
  <2>15. Range(c) \subseteq Range(ids) \cup Range(sec)
    BY <1>5, <2>2, <2>12
  <2> QED
    BY <2>9, <2>11, <2>12, <2>14, <2>15
<1> QED
  BY <1>7, <1>8, <1>9

\* The ids of a question, and what they are before their passes.
IdsInv ==
    /\ Ranking(retrieved) /\ Ranking(hits) /\ second \in Seq(Nat) /\ stepQ \in 0 .. Len(Passes)
    /\ stepQ < 2 => retrieved = <<>>
    /\ flag.dual => ~flag.timeline
    /\ flag.dual /\ ~flag.fusion /\ stepQ \in 2 .. 4 => retrieved = hits
    /\ flag \in Flags

\* The strengthening that makes QuestionSound inductive.
QuestionInv == IdsInv /\ ContextSound /\ OnlyEssentialCallsFail

LEMMA PassAt ==
    /\ Len(Passes) = 9
    /\ Passes[1] = "primary" /\ Passes[2] = "fusion" /\ Passes[3] = "event"
    /\ Passes[4] = "anchor" /\ Passes[5] = "paraphrase" /\ Passes[6] = "list"
    /\ Passes[7] = "select" /\ Passes[8] = "ledger" /\ Passes[9] = "generate"
BY DEF Passes

LEMMA StepOf ==
    ASSUME IdsInv
    PROVE  /\ On("primary") => stepQ = 1
           /\ On("fusion") => stepQ = 2
           /\ On("event") => stepQ = 3
           /\ On("anchor") => stepQ = 4
           /\ On("paraphrase") => stepQ = 5
           /\ On("list") => stepQ = 6
           /\ On("select") => stepQ = 7
           /\ On("ledger") => stepQ = 8
           /\ On("generate") => stepQ = 9
<1>1. stepQ \in 0 .. 9
  BY PassAt DEF IdsInv
<1>2. \A p : On(p) => stepQ \in {1, 2, 3, 4, 5, 6, 7, 8, 9} /\ Passes[stepQ] = p
  BY <1>1 DEF On
<1> QED
  BY <1>2, PassAt

LEMMA QuestionInitInv == QuestionInit => QuestionInv
<1> SUFFICES ASSUME QuestionInit PROVE QuestionInv
  OBVIOUS
<1>1. <<>> \in Seq(Nat) /\ IsInjective(<<>>)
  BY DEF IsInjective
<1>2. IdsInv
  BY <1>1, PassAt DEF QuestionInit, IdsInv, Ranking, Flags
<1>3. ContextSound /\ OnlyEssentialCallsFail
  BY DEF QuestionInit, ContextSound, OnlyEssentialCallsFail
<1> QED
  BY <1>2, <1>3 DEF QuestionInv

LEMMA LostToEssential ==
    ASSUME OnlyEssentialCallsFail,
           \/ entry' = entry /\ failedCalls \subseteq failedCalls'
           \/ entry' # "error"
           \/ \E call \in {"primary", "event", "list", "ledger", "generate"} : GiveUp(call)
    PROVE  OnlyEssentialCallsFail'
<1>1. CASE entry' = entry /\ failedCalls \subseteq failedCalls'
  BY <1>1 DEF OnlyEssentialCallsFail
<1>2. CASE entry' # "error"
  BY <1>2 DEF OnlyEssentialCallsFail
<1>3. CASE \E call \in {"primary", "event", "list", "ledger", "generate"} : GiveUp(call)
  BY <1>3 DEF OnlyEssentialCallsFail, GiveUp, Failed
<1> QED
  BY <1>1, <1>2, <1>3

\* A step that leaves the ids alone and does not pass the selection.
LEMMA IdsKept ==
    ASSUME QuestionInv, UNCHANGED <<flag, retrieved, hits, second, context>>,
           \/ stepQ' = stepQ
           \/ stepQ' = stepQ + 1 /\ stepQ \in 1 .. 8 \ {7}
           \/ stepQ' = stepQ + 1 /\ stepQ = 7 /\ flag.timeline,
           stepQ = 1 => flag.timeline \/ stepQ' = 1
    PROVE  IdsInv' /\ ContextSound'
<1>1. IdsInv'
  BY PassAt DEF QuestionInv, IdsInv
<1>2. stepQ' > 7 => stepQ > 7 \/ flag.timeline
  BY DEF QuestionInv, IdsInv
<1>3. Limit' = Limit
  BY DEF Limit
<1>4. ContextSound'
  BY <1>2, <1>3 DEF QuestionInv, ContextSound, Reserve
<1> QED
  BY <1>1, <1>4

\* A pass that changes the ids.
LEMMA PassKeeps ==
    ASSUME IdsInv, stepQ \in 1 .. 6, stepQ' = stepQ + 1, flag' = flag,
           Ranking(retrieved'), Ranking(hits'), second' \in Seq(Nat),
           flag.dual /\ ~flag.fusion /\ stepQ \in 1 .. 3 => retrieved' = hits'
    PROVE  IdsInv' /\ ContextSound'
<1>1. IdsInv'
  BY PassAt DEF IdsInv
<1>2. ~(stepQ' > 7)
  OBVIOUS
<1> QED
  BY <1>1, <1>2 DEF ContextSound

LEMMA RecallListFacts ==
    ASSUME NEW ids \in RecallLists
    PROVE  Ranking(ids) /\ ids \in Seq(Nat)
BY QuestionAssumption DEF Ranking

LEMMA EmptyRanking == Ranking(<<>>)
BY DEF Ranking, IsInjective

\* Skipping and giving up.
LEMMA SkipKeeps ==
    ASSUME QuestionInv, Skip, stepQ \in 1 .. 8, stepQ \in {1, 7} => flag.timeline
    PROVE  QuestionInv'
<1>1. /\ UNCHANGED <<flag, retrieved, hits, second, context, failedCalls, entry>>
      /\ stepQ' = stepQ + 1
  BY DEF Skip, Advance
<1>2. IdsInv' /\ ContextSound'
  BY <1>1, IdsKept
<1>3. OnlyEssentialCallsFail'
  BY <1>1, LostToEssential DEF QuestionInv
<1> QED
  BY <1>2, <1>3 DEF QuestionInv

LEMMA GiveUpKeeps ==
    ASSUME QuestionInv, NEW call \in {"primary", "event", "list", "ledger", "generate"},
           GiveUp(call)
    PROVE  QuestionInv'
<1>1. UNCHANGED <<flag, stepQ, retrieved, hits, second, context>>
  BY DEF GiveUp
<1>2. IdsInv' /\ ContextSound'
  BY <1>1, IdsKept
<1>3. OnlyEssentialCallsFail'
  BY LostToEssential DEF QuestionInv
<1> QED
  BY <1>2, <1>3 DEF QuestionInv

LEMMA BeginKeeps ==
    ASSUME QuestionInv, BeginQuestion
    PROVE  QuestionInv'
<1>1. /\ stepQ = 0 /\ flag' \in Flags /\ (flag'.dual => ~flag'.timeline)
      /\ stepQ' \in {1, 9} /\ (stepQ' = 9 => flag'.baseline)
      /\ UNCHANGED <<retrieved, hits, second, context, failedCalls, entry>>
  BY PassAt DEF BeginQuestion
<1>2. IdsInv'
  BY <1>1, PassAt DEF QuestionInv, IdsInv
<1>3. ContextSound'
  BY <1>1 DEF ContextSound
<1>4. OnlyEssentialCallsFail'
  BY <1>1, LostToEssential DEF QuestionInv
<1> QED
  BY <1>2, <1>3, <1>4 DEF QuestionInv

LEMMA PrimaryKeeps ==
    ASSUME QuestionInv, PrimaryRecall
    PROVE  QuestionInv'
<1>0. stepQ = 1 /\ IdsInv
  BY StepOf DEF QuestionInv, PrimaryRecall
<1>1. CASE flag.timeline
  <2>1. Skip
    BY <1>1 DEF PrimaryRecall
  <2> QED
    BY <1>0, <1>1, <2>1, SkipKeeps
<1>2. CASE GiveUp("primary")
  BY <1>2, GiveUpKeeps
<1>3. CASE ~flag.timeline /\ ~GiveUp("primary")
  <2>1. PICK ids \in RecallLists :
          IF flag.window \/ flag.dual
          THEN /\ retrieved' = ids
               /\ hits' = IF flag.dual THEN ids ELSE <<>>
               /\ UNCHANGED <<second, failedCalls>>
          ELSE /\ UNCHANGED hits
               /\ \/ ~flag.dated /\ retrieved' = ids
                     /\ UNCHANGED <<second, failedCalls>>
                  \/ flag.dated /\ retrieved' = ids
                     /\ Failed("fallback") /\ UNCHANGED second
                  \/ flag.dated /\ UNCHANGED failedCalls
                     /\ \E all \in RecallLists :
                           /\ retrieved' = UnionIDs(ids, all)
                           /\ second' = all
    BY <1>3 DEF PrimaryRecall
  <2>2. Advance /\ UNCHANGED <<flag, context, entry>>
    BY <1>3 DEF PrimaryRecall
  <2>3. Ranking(ids) /\ ids \in Seq(Nat)
    BY RecallListFacts
  <2>4. \A all \in RecallLists : Ranking(UnionIDs(ids, all)) /\ all \in Seq(Nat)
    BY <2>3, RecallListFacts, UnionFacts
  <2>5. Ranking(retrieved') /\ second' \in Seq(Nat)
    BY <1>0, <2>1, <2>3, <2>4 DEF IdsInv
  <2>6. Ranking(hits')
    BY <1>0, <2>1, <2>3, EmptyRanking DEF IdsInv
  <2>7. flag.dual => retrieved' = hits'
    BY <2>1
  <2>8. failedCalls \subseteq failedCalls'
    BY <2>1 DEF Failed
  <2>9. IdsInv' /\ ContextSound'
    BY <1>0, <2>2, <2>5, <2>6, <2>7, PassKeeps DEF Advance
  <2>10. OnlyEssentialCallsFail'
    BY <2>2, <2>8, LostToEssential DEF QuestionInv
  <2> QED
    BY <2>9, <2>10 DEF QuestionInv
<1> QED
  BY <1>1, <1>2, <1>3

LEMMA FusionKeeps ==
    ASSUME QuestionInv, FusionRecall
    PROVE  QuestionInv' /\ Range(retrieved) \subseteq Range(retrieved')
<1>0. stepQ = 2 /\ IdsInv
  BY StepOf DEF QuestionInv, FusionRecall
<1>1. CASE Skip
  <2>1. QuestionInv'
    BY <1>0, <1>1, SkipKeeps
  <2> QED
    BY <1>1, <2>1 DEF Skip
<1>2. CASE ~Skip
  <2>1. /\ flag.fusion /\ Advance /\ UNCHANGED <<flag, hits, second, context, entry>>
        /\ \/ Failed("fusion") /\ UNCHANGED retrieved
           \/ /\ \E ids \in RecallLists : retrieved' = UnionIDs(retrieved, ids)
              /\ UNCHANGED failedCalls
    BY <1>2 DEF FusionRecall
  <2>2. retrieved \in Seq(Nat) /\ Ranking(retrieved) /\ Ranking(hits) /\ second \in Seq(Nat)
    BY <1>0 DEF IdsInv, Ranking
  <2>3. Ranking(retrieved') /\ Range(retrieved) \subseteq Range(retrieved')
    BY <2>1, <2>2, RecallListFacts, UnionFacts
  <2>4. failedCalls \subseteq failedCalls'
    BY <2>1 DEF Failed
  <2>5. IdsInv' /\ ContextSound'
    BY <1>0, <2>1, <2>2, <2>3, PassKeeps DEF Advance
  <2>6. OnlyEssentialCallsFail'
    BY <2>1, <2>4, LostToEssential DEF QuestionInv
  <2> QED
    BY <2>3, <2>5, <2>6 DEF QuestionInv
<1> QED
  BY <1>1, <1>2

LEMMA AnchorKeeps ==
    ASSUME QuestionInv, AnchorRecall
    PROVE  /\ QuestionInv'
           /\ ~(flag.dual /\ flag.fusion) => Range(retrieved) \subseteq Range(retrieved')
<1>0. stepQ = 4 /\ IdsInv
  BY StepOf DEF QuestionInv, AnchorRecall
<1>1. CASE Skip
  <2>1. QuestionInv'
    BY <1>0, <1>1, SkipKeeps
  <2> QED
    BY <1>1, <2>1 DEF Skip
<1>2. CASE ~Skip
  <2>1. /\ flag.dual /\ Advance /\ UNCHANGED <<flag, hits, context, entry>>
        /\ \/ Failed("anchor") /\ UNCHANGED <<retrieved, second>>
           \/ \E ids \in RecallLists :
                 /\ second' = second \o ids
                 /\ retrieved' \in MergeScored(hits, ids)
                 /\ UNCHANGED failedCalls
    BY <1>2 DEF AnchorRecall
  <2>2. /\ Ranking(retrieved) /\ Ranking(hits) /\ hits \in Seq(Nat) /\ second \in Seq(Nat)
        /\ ~flag.fusion => retrieved = hits
    BY <1>0, <2>1 DEF IdsInv, Ranking
  <2>3. CASE Failed("anchor") /\ UNCHANGED <<retrieved, second>>
    <3>1. IdsInv' /\ ContextSound'
      BY <1>0, <2>1, <2>2, <2>3, PassKeeps DEF Advance
    <3>2. OnlyEssentialCallsFail'
      BY <2>1, <2>3, LostToEssential DEF QuestionInv, Failed
    <3> QED
      BY <2>3, <3>1, <3>2 DEF QuestionInv
  <2>4. ASSUME NEW ids \in RecallLists, second' = second \o ids,
               retrieved' \in MergeScored(hits, ids), UNCHANGED failedCalls
        PROVE  /\ QuestionInv'
               /\ ~(flag.dual /\ flag.fusion) => Range(retrieved) \subseteq Range(retrieved')
    <3>1. ids \in Seq(Nat)
      BY RecallListFacts
    <3>2. Ranking(retrieved') /\ Range(hits) \subseteq Range(retrieved')
      BY <2>2, <2>4, <3>1, UnionFacts DEF MergeScored
    <3>3. second' \in Seq(Nat)
      BY <2>2, <2>4, <3>1
    <3>4. IdsInv' /\ ContextSound'
      BY <1>0, <2>1, <2>2, <3>2, <3>3, PassKeeps DEF Advance
    <3>5. OnlyEssentialCallsFail'
      BY <2>1, <2>4, LostToEssential DEF QuestionInv
    <3>6. ~(flag.dual /\ flag.fusion) => retrieved = hits
      BY <2>1, <2>2
    <3>7. ~(flag.dual /\ flag.fusion) => Range(retrieved) \subseteq Range(retrieved')
      BY <3>2, <3>6
    <3> QED
      BY <3>4, <3>5, <3>7 DEF QuestionInv
  <2> QED
    BY <2>1, <2>3, <2>4
<1> QED
  BY <1>1, <1>2

LEMMA ParaphraseRecallKeeps ==
    ASSUME QuestionInv, ParaphraseRecall
    PROVE  QuestionInv' /\ Range(retrieved) \subseteq Range(retrieved')
<1>0. stepQ = 5 /\ IdsInv
  BY StepOf DEF QuestionInv, ParaphraseRecall
<1>1. CASE Skip
  <2>1. QuestionInv'
    BY <1>0, <1>1, SkipKeeps
  <2> QED
    BY <1>1, <2>1 DEF Skip
<1>2. CASE ~Skip
  <2>1. /\ Advance /\ UNCHANGED <<flag, hits, context, entry>>
        /\ \/ Failed("paraphrase") /\ UNCHANGED <<retrieved, second>>
           \/ \E ids \in RecallLists :
                 /\ second' = second \o ids
                 /\ retrieved' = UnionIDs(retrieved, ids)
                 /\ UNCHANGED failedCalls
    BY <1>2 DEF ParaphraseRecall
  <2>2. retrieved \in Seq(Nat) /\ Ranking(retrieved) /\ Ranking(hits) /\ second \in Seq(Nat)
    BY <1>0 DEF IdsInv, Ranking
  <2>3. Ranking(retrieved') /\ Range(retrieved) \subseteq Range(retrieved')
    BY <2>1, <2>2, RecallListFacts, UnionFacts
  <2>4. second' \in Seq(Nat)
    <3>1. \A ids \in RecallLists : second \o ids \in Seq(Nat)
      BY <2>2, RecallListFacts, ConcatFacts
    <3> QED
      BY <2>1, <2>2, <3>1
  <2>5. failedCalls \subseteq failedCalls'
    BY <2>1 DEF Failed
  <2>6. IdsInv' /\ ContextSound'
    BY <1>0, <2>1, <2>2, <2>3, <2>4, PassKeeps DEF Advance
  <2>7. OnlyEssentialCallsFail'
    BY <2>1, <2>5, LostToEssential DEF QuestionInv
  <2> QED
    BY <2>3, <2>6, <2>7 DEF QuestionInv
<1> QED
  BY <1>1, <1>2

LEMMA ListProjectKeeps ==
    ASSUME QuestionInv, ListProject
    PROVE  QuestionInv' /\ Range(retrieved) \subseteq Range(retrieved')
<1>0. stepQ = 6 /\ IdsInv
  BY StepOf DEF QuestionInv, ListProject
<1>1. CASE Skip
  <2>1. QuestionInv'
    BY <1>0, <1>1, SkipKeeps
  <2> QED
    BY <1>1, <2>1 DEF Skip
<1>2. CASE GiveUp("list")
  <2>1. QuestionInv'
    BY <1>2, GiveUpKeeps
  <2> QED
    BY <1>2, <2>1 DEF GiveUp
<1>3. CASE ~Skip /\ ~GiveUp("list")
  <2>1. /\ retrieved' = UnionIDs(retrieved, ProjectIds)
        /\ Advance /\ UNCHANGED <<flag, hits, second, context, failedCalls, entry>>
    BY <1>3 DEF ListProject
  <2>2. retrieved \in Seq(Nat) /\ Ranking(hits) /\ second \in Seq(Nat)
    BY <1>0 DEF IdsInv, Ranking
  <2>3. Ranking(retrieved') /\ Range(retrieved) \subseteq Range(retrieved')
    BY <2>1, <2>2, QuestionAssumption, UnionFacts
  <2>4. IdsInv' /\ ContextSound'
    BY <1>0, <2>1, <2>2, <2>3, PassKeeps DEF Advance
  <2>5. OnlyEssentialCallsFail'
    BY <2>1, LostToEssential DEF QuestionInv
  <2> QED
    BY <2>3, <2>4, <2>5 DEF QuestionInv
<1> QED
  BY <1>1, <1>2, <1>3

LEMMA FetchKeeps ==
    ASSUME QuestionInv, FetchContext
    PROVE  QuestionInv' /\ retrieved' = retrieved
<1>0. stepQ = 7 /\ IdsInv
  BY StepOf DEF QuestionInv, FetchContext
<1>1. CASE flag.timeline
  <2>1. Skip
    BY <1>1 DEF FetchContext
  <2>2. QuestionInv'
    BY <1>0, <1>1, <2>1, SkipKeeps
  <2> QED
    BY <2>1, <2>2 DEF Skip
<1>2. CASE ~flag.timeline
  <2>1. /\ context' = SelectContext(retrieved, second, Limit) /\ Advance
        /\ UNCHANGED <<flag, retrieved, hits, second, failedCalls, entry>>
    BY <1>2 DEF FetchContext
  <2>2. Ranking(retrieved) /\ second \in Seq(Nat) /\ retrieved \in Seq(Nat)
    BY <1>0 DEF IdsInv, Ranking
  <2>3. Limit \in Nat /\ Limit =< Len(retrieved) /\ Limit' = Limit
    <3>1. Len(retrieved) \in Nat /\ ContextLimit \in Nat
      BY <2>2, QuestionAssumption
    <3> QED
      BY <2>1, <3>1 DEF Limit
  <2>4. /\ context' \in Seq(Nat) /\ IsInjective(context')
        /\ Range(context') \subseteq Range(retrieved) \cup Range(second)
        /\ Len(context') = Limit
        /\ \A i \in 1 .. Limit : i =< Limit - Reserve(Limit) => context'[i] = retrieved[i]
    BY <2>1, <2>2, <2>3, SelectFacts
  <2>5. /\ ToSet(context') = Range(context') /\ ToSet(retrieved) = Range(retrieved)
        /\ ToSet(second) = Range(second)
    BY <2>2, <2>4 DEF ToSet, Range
  <2>6. ContextSound'
    BY <2>1, <2>3, <2>4, <2>5 DEF ContextSound, Reserve
  <2>7. IdsInv'
    BY <1>0, <2>1, PassAt DEF IdsInv, Advance
  <2>8. OnlyEssentialCallsFail'
    BY <2>1, LostToEssential DEF QuestionInv
  <2> QED
    BY <2>1, <2>6, <2>7, <2>8 DEF QuestionInv
<1> QED
  BY <1>1, <1>2

LEMMA LaterKeeps ==
    ASSUME QuestionInv, EventWindowRecall \/ ChronoLedger \/ GenerateAnswer
    PROVE  QuestionInv' /\ retrieved' = retrieved
<1>1. /\ EventWindowRecall => stepQ = 3
      /\ ChronoLedger => stepQ = 8
      /\ GenerateAnswer => stepQ = 9
  BY StepOf DEF QuestionInv, EventWindowRecall, ChronoLedger, GenerateAnswer
<1>2. CASE Skip /\ (EventWindowRecall \/ ChronoLedger)
  <2>1. QuestionInv'
    BY <1>1, <1>2, SkipKeeps
  <2> QED
    BY <1>2, <2>1 DEF Skip
<1>3. CASE GiveUp("event") \/ GiveUp("ledger") \/ GiveUp("generate")
  <2>1. QuestionInv'
    BY <1>3, GiveUpKeeps
  <2> QED
    BY <1>3, <2>1 DEF GiveUp
<1>4. CASE /\ entry' = "done"
           /\ UNCHANGED <<flag, stepQ, retrieved, hits, second, context, failedCalls>>
  <2>1. IdsInv' /\ ContextSound'
    BY <1>4, IdsKept
  <2>2. OnlyEssentialCallsFail'
    BY <1>4, LostToEssential DEF QuestionInv
  <2> QED
    BY <1>4, <2>1, <2>2 DEF QuestionInv
<1> QED
  BY <1>2, <1>3, <1>4 DEF EventWindowRecall, ChronoLedger, GenerateAnswer

LEMMA QuestionNextInv == QuestionInv /\ [QuestionNext]_questionVars => QuestionInv'
<1> SUFFICES ASSUME QuestionInv, [QuestionNext]_questionVars PROVE QuestionInv'
  OBVIOUS
<1>1. CASE QuestionNext
  BY <1>1, BeginKeeps, PrimaryKeeps, FusionKeeps, AnchorKeeps, ParaphraseRecallKeeps,
     ListProjectKeeps, FetchKeeps, LaterKeeps DEF QuestionNext
<1>2. CASE UNCHANGED questionVars
  BY <1>2, IdsKept, LostToEssential DEF QuestionInv, questionVars
<1> QED
  BY <1>1, <1>2

\* No step forgets an id.
LEMMA StepOnlyAdds ==
    ASSUME QuestionInv, [QuestionNext]_questionVars
    PROVE  ~(flag.dual /\ flag.fusion) => ToSet(retrieved) \subseteq ToSet(retrieved')
<1>1. QuestionInv'
  BY QuestionNextInv
<1>2. ToSet(retrieved) = Range(retrieved) /\ ToSet(retrieved') = Range(retrieved')
  <2>1. retrieved \in Seq(Nat) /\ retrieved' \in Seq(Nat)
    BY <1>1 DEF QuestionInv, IdsInv, Ranking
  <2> QED
    BY <2>1 DEF ToSet, Range
<1>3. CASE BeginQuestion \/ UNCHANGED questionVars
  BY <1>3 DEF BeginQuestion, questionVars
<1>4. CASE PrimaryRecall
  <2>1. stepQ = 1 /\ retrieved = <<>>
    BY <1>4, StepOf DEF QuestionInv, PrimaryRecall, IdsInv
  <2>2. Range(retrieved) = {}
    BY <2>1 DEF Range
  <2> QED
    BY <1>2, <2>2
<1> QED
  BY <1>2, <1>3, <1>4, FusionKeeps, AnchorKeeps, ParaphraseRecallKeeps, ListProjectKeeps,
     FetchKeeps, LaterKeeps DEF QuestionNext

\* Whichever passes are on, whatever their recalls answer and whichever of them
\* fail, the prompt of a question (selectContextIDs) holds distinct ids its
\* recalls found, as many as --context-topk allows, and all but the reserved
\* slots in the order of the primary ranking; a question is lost only to a call
\* it cannot do without, and no pass forgets what an earlier one found.
THEOREM QuestionStaysSound == QuestionSpec => QuestionSound
<1>1. QuestionInit => QuestionInv
  BY QuestionInitInv
<1>2. QuestionInv /\ [QuestionNext]_questionVars => QuestionInv'
  BY QuestionNextInv
<1>3. QuestionInv => ContextSound /\ OnlyEssentialCallsFail
  BY DEF QuestionInv
<1>4. QuestionInv /\ [QuestionNext]_questionVars
        => [~(flag.dual /\ flag.fusion) => ToSet(retrieved) \subseteq ToSet(retrieved')]_questionVars
  BY StepOnlyAdds
<1> QED
  BY <1>1, <1>2, <1>3, <1>4, PTL DEF QuestionSpec, QuestionSound, PassesOnlyAdd
=============================================================================
