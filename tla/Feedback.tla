----------------------------- MODULE Feedback -----------------------------
(***************************************************************************)
(* Retrieval events and memory_feedback: SearchEngine.RecallWithEvent      *)
(* stores the event and counts the retrieval in two statements; feedback   *)
(* updates the event and the usefulness counters in one transaction        *)
(* (RecordFeedback, RecordFeedbackWithClass) and then reinforces each      *)
(* memory with statements of its own.  The server may stop between any two *)
(* of them, and a client that got no answer calls again.                   *)
(***************************************************************************)
EXTENDS Integers, Sequences, FiniteSets

CONSTANTS FMems,         \* memories
          Classes,       \* failure classes
          Askers,        \* concurrent memory_feedback calls
          WarmUp,        \* retrievals before precision is computed (5 in the code)
          MaxEvents, MaxFeedback, MaxStops

ASSUME FeedbackAssumption ==
    /\ {WarmUp, MaxEvents, MaxFeedback, MaxStops} \subseteq Nat /\ WarmUp >= 1
    /\ IsFiniteSet(Askers)

VARIABLES timesRetrieved, timesUseful,
          precision,     \* retrieval_precision as <<useful, retrieved>>, or <<>>
          reinforced,    \* how often the spaced-repetition boost was applied
          event,         \* retrieval_events, in order of creation
          counting,      \* results of the recall whose count is not yet written
          asker,         \* local state of each feedback call
          praised,       \* sets of ids accepted without a failure class
          calls, stops

fbVars == <<timesRetrieved, timesUseful, precision, reinforced, event,
            counting, asker, praised, calls, stops>>

Quiet == [pc |-> "idle", left |-> {}]

FeedbackInit ==
    /\ timesRetrieved = [x \in FMems |-> 0] /\ timesUseful = [x \in FMems |-> 0]
    /\ precision = [x \in FMems |-> <<>>] /\ reinforced = [x \in FMems |-> 0]
    /\ event = <<>> /\ counting = {} /\ asker = [c \in Askers |-> Quiet]
    /\ praised = <<>> /\ calls = 0 /\ stops = 0
-----------------------------------------------------------------------------
(* RecallWithEventAndOpts: the event, when storing it succeeds, ... *)
StoreRetrievalEvent(R) ==
    /\ Len(event) < MaxEvents /\ counting = {}
    /\ event' = Append(event, [results |-> R, marked |-> {}, class |-> "none"])
    /\ counting' = R
    /\ UNCHANGED <<timesRetrieved, timesUseful, precision, reinforced, asker,
                   praised, calls, stops>>

(* ... then times_retrieved; its error is logged only. *)
IncrementTimesRetrieved ==
    /\ counting # {} /\ counting' = {}
    /\ timesRetrieved' = [x \in FMems |-> timesRetrieved[x]
                                            + (IF x \in counting THEN 1 ELSE 0)]
    /\ UNCHANGED <<timesUseful, precision, reinforced, event, asker, praised,
                   calls, stops>>

LoseCount ==
    /\ counting # {} /\ stops < MaxStops
    /\ counting' = {} /\ stops' = stops + 1
    /\ UNCHANGED <<timesRetrieved, timesUseful, precision, reinforced, event,
                   asker, praised, calls>>

(* The counters of the feedback transaction: times_useful of the ids marked, *)
(* whatever the event returned; the ratio of every result warmed up.         *)
Useful(e, ids) ==
    /\ timesUseful' = [x \in FMems |-> timesUseful[x] + (IF x \in ids THEN 1 ELSE 0)]
    /\ precision' = [x \in FMems |->
           IF x \in event[e].results /\ timesRetrieved[x] >= WarmUp
           THEN <<timesUseful'[x], timesRetrieved[x]>> ELSE precision[x]]
    /\ UNCHANGED timesRetrieved

(* memory_feedback with an event and no failure class: RecordFeedback, which   *)
(* leaves the class of the event alone, then Feedback for the ids.             *)
RecordFeedback(c, e, ids) ==
    /\ calls < MaxFeedback /\ asker[c].pc = "idle" /\ e \in 1..Len(event)
    /\ calls' = calls + 1
    /\ event' = [event EXCEPT ![e].marked = ids]
    /\ Useful(e, ids)
    /\ praised' = Append(praised, ids)
    /\ asker' = [asker EXCEPT ![c] = IF ids = {} THEN Quiet
                                     ELSE [pc |-> "boost", left |-> ids]]
    /\ UNCHANGED <<reinforced, counting, stops>>

(* Mutant of AfterClass: a classified failure is reinforced as well. *)
AfterClassBoosts(ids) == [pc |-> "boost", left |-> ids]

(* FeedbackWithEventAndClass returns before Feedback when there is a class. *)
AfterClass(ids) == Quiet

RecordFeedbackWithClass(c, e, ids, class) ==
    /\ calls < MaxFeedback /\ asker[c].pc = "idle" /\ e \in 1..Len(event)
    /\ calls' = calls + 1
    /\ event' = [event EXCEPT ![e].marked = ids, ![e].class = class]
    /\ Useful(e, ids)
    /\ asker' = [asker EXCEPT ![c] = AfterClass(ids)]
    /\ UNCHANGED <<reinforced, counting, praised, stops>>

(* memory_feedback without an event: Feedback alone. *)
FeedbackOnly(c, ids) ==
    /\ calls < MaxFeedback /\ asker[c].pc = "idle" /\ ids # {}
    /\ calls' = calls + 1
    /\ praised' = Append(praised, ids)
    /\ asker' = [asker EXCEPT ![c] = [pc |-> "boost", left |-> ids]]
    /\ UNCHANGED <<timesRetrieved, timesUseful, precision, reinforced, event,
                   counting, stops>>

(* One id of Feedback: BoostEdgesForMemory, TouchMemory, UpdateDynamicImportance. *)
Boost(c) ==
    /\ asker[c].pc = "boost"
    /\ \E x \in asker[c].left :
         /\ reinforced' = [reinforced EXCEPT ![x] = @ + 1]
         /\ asker' = [asker EXCEPT ![c] =
                IF asker[c].left = {x} THEN Quiet
                ELSE [pc |-> "boost", left |-> asker[c].left \ {x}]]
    /\ UNCHANGED <<timesRetrieved, timesUseful, precision, event, counting,
                   praised, calls, stops>>

(* A statement fails, or the server stops: the ids left are not reinforced. *)
BoostStops(c) ==
    /\ asker[c].pc = "boost" /\ stops < MaxStops
    /\ stops' = stops + 1
    /\ asker' = [asker EXCEPT ![c] = Quiet]
    /\ UNCHANGED <<timesRetrieved, timesUseful, precision, reinforced, event,
                   counting, praised, calls>>
-----------------------------------------------------------------------------
FeedbackNext ==
    \/ \E R \in SUBSET FMems : StoreRetrievalEvent(R)
    \/ IncrementTimesRetrieved \/ LoseCount
    \/ \E c \in Askers :
         \/ Boost(c) \/ BoostStops(c)
         \/ \E ids \in SUBSET FMems :
              \/ FeedbackOnly(c, ids)
              \/ \E e \in 1..Len(event) :
                   \/ RecordFeedback(c, e, ids)
                   \/ \E k \in Classes : RecordFeedbackWithClass(c, e, ids, k)

FeedbackSpec == FeedbackInit /\ [][FeedbackNext]_fbVars
-----------------------------------------------------------------------------
Recalls(x) == Cardinality({e \in 1..Len(event) : x \in event[e].results})
Praises(x) == Cardinality({i \in 1..Len(praised) : x \in praised[i]})

(* The denominator of precision counts each recall that returned the memory    *)
(* once: neither feedback nor its repetition raises it again                    *)
(* (postgres_feedback.go:103-106).                                              *)
DenominatorCountsRecalls == \A x \in FMems : timesRetrieved[x] <= Recalls(x)

(* A memory is reinforced at most once for each feedback that praises it, with *)
(* any interleaving of calls; what was reported as a misfire adds nothing       *)
(* (engine.go:2756-2767).                                                       *)
MisfiresNotReinforced == \A x \in FMems : reinforced[x] <= Praises(x)

(* Recalls are counted once and praise is rewarded once, however the calls of  *)
(* several clients overlap, repeat or stop half-way.                            *)
FeedbackCountedOnce == DenominatorCountsRecalls /\ MisfiresNotReinforced

(* The ratio stays a share: at most one feedback use per counted retrieval.  A  *)
(* repeated memory_feedback for the same event breaks it                        *)
(* (postgres_feedback.go:109-127).                                              *)
PrecisionIsShare == \A x \in FMems : precision[x] # <<>> => precision[x][1] <= precision[x][2]

(* Feedback for an event is one transaction with the schedule: once the call is *)
(* over, what the event marks as useful has been reinforced (engine.go:2746).   *)
ScheduleFollowsFeedback ==
    (\A c \in Askers : asker[c].pc = "idle") =>
        \A e \in 1..Len(event) : \A x \in event[e].marked :
            event[e].class = "none" => reinforced[x] > 0
=============================================================================
