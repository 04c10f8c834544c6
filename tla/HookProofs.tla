----------------------------- MODULE HookProofs -----------------------------
(* Proofs about what runs beside the editor: the hook daemon, for every    *)
(* set of shims, every timeout and every bound on requests, entries and    *)
(* daemon processes; and the consolidator of tool calls, for every set of  *)
(* events and projects and every number of runs and faults.                *)
EXTENDS HookDaemon, Instinct, SequenceTheorems, TLAPS

-----------------------------------------------------------------------------
(* Sequences and clocks.                                                   *)

LEMMA MinPair ==
    ASSUME NEW a \in Nat, NEW b \in Nat
    PROVE  Min({a, b}) = IF a =< b THEN a ELSE b
<1>1. CASE a =< b
  BY <1>1 DEF Min
<1>2. CASE ~(a =< b)
  BY <1>2 DEF Min
<1> QED
  BY <1>1, <1>2

\* The entries of s in the order in which the tool calls failed.
InOrder(s) == \A i, j \in DOMAIN s : i < j => s[i] < s[j]

LEMMA OrderedAppend ==
    ASSUME NEW n \in Nat, NEW s \in Seq(1 .. n), InOrder(s)
    PROVE  /\ InOrder(Append(s, n + 1)) /\ ToSet(s) \subseteq ToSet(Append(s, n + 1))
<1>1. /\ Len(s) \in Nat /\ DOMAIN s = 1 .. Len(s)
      /\ DOMAIN Append(s, n + 1) = 1 .. Len(s) + 1
      /\ \A i \in 1 .. Len(s) : s[i] \in 1 .. n /\ Append(s, n + 1)[i] = s[i]
      /\ Append(s, n + 1)[Len(s) + 1] = n + 1
  OBVIOUS
<1>2. InOrder(Append(s, n + 1))
  <2> SUFFICES ASSUME NEW i \in 1 .. Len(s) + 1, NEW j \in 1 .. Len(s) + 1, i < j
               PROVE  Append(s, n + 1)[i] < Append(s, n + 1)[j]
    BY <1>1 DEF InOrder
  <2>1. i \in 1 .. Len(s)
    BY <1>1
  <2>2. CASE j = Len(s) + 1
    BY <1>1, <2>1, <2>2
  <2>3. CASE j \in 1 .. Len(s)
    BY <1>1, <2>1, <2>3 DEF InOrder
  <2> QED
    BY <1>1, <2>2, <2>3
<1>3. ToSet(s) \subseteq ToSet(Append(s, n + 1))
  BY <1>1 DEF ToSet
<1> QED
  BY <1>2, <1>3

LEMMA ConcatAppend ==
    ASSUME NEW S, NEW s \in Seq(S), NEW t \in Seq(S), NEW x \in S
    PROVE  s \o Append(t, x) = Append(s \o t, x)
<1>1. /\ Len(s) \in Nat /\ Len(t) \in Nat /\ Append(t, x) \in Seq(S) /\ s \o t \in Seq(S)
      /\ Len(Append(t, x)) = Len(t) + 1 /\ Len(s \o t) = Len(s) + Len(t)
  OBVIOUS
<1>2. /\ s \o Append(t, x) \in Seq(S) /\ Append(s \o t, x) \in Seq(S)
      /\ Len(s \o Append(t, x)) = Len(s) + Len(t) + 1
      /\ Len(Append(s \o t, x)) = Len(s) + Len(t) + 1
  BY <1>1
<1>3. ASSUME NEW i \in 1 .. Len(s) + Len(t) + 1
      PROVE  (s \o Append(t, x))[i] = Append(s \o t, x)[i]
  BY <1>1
<1> QED
  BY <1>2, <1>3, SeqEqual

LEMMA OrderedPrefix ==
    ASSUME NEW S \in SUBSET Nat, NEW s \in Seq(S), NEW t \in Seq(S), InOrder(s \o t)
    PROVE  InOrder(s)
<1>1. /\ Len(s) \in Nat /\ Len(t) \in Nat /\ DOMAIN s = 1 .. Len(s)
      /\ DOMAIN (s \o t) = 1 .. Len(s) + Len(t)
      /\ \A i \in 1 .. Len(s) : (s \o t)[i] = s[i]
  OBVIOUS
<1> QED
  BY <1>1 DEF InOrder

-----------------------------------------------------------------------------
(* The hook daemon: the inductive invariant.                               *)

Requests(n) == [kind : Kinds, step : Steps, sends : 0 .. 2, took : Seq(1 .. n), snap : Seq(1 .. n)]

ClocksTyped ==
    /\ daemon \in {"down", "listening", "closing"}
    /\ starts \in 0 .. MaxStarts /\ requests \in 0 .. MaxRequests
    /\ left \in 0 .. IdleTimeout /\ quiet \in 0 .. DrainTimeout
    /\ authAge \in 0 .. AuthTTL
    /\ token \in BOOLEAN /\ faulted \in BOOLEAN
    /\ daemon = "listening" => quiet + left >= DrainTimeout

EntriesTyped ==
    /\ entries \in 0 .. MaxEntries
    /\ buffer \in Seq(1 .. entries) /\ file \in Seq(1 .. entries)
    /\ conn \in [Shims -> Requests(entries)]

\* Only a handler inside flushFallback holds entries.
FlushSteps == {"read", "write", "requeue"}

FlushHolds ==
    \A s \in Shims : Flushing(s) <=> conn[s].step \in FlushSteps

\* A daemon that is down serves nobody and buffers nothing.
DownIsEmpty ==
    daemon = "down" => buffer = <<>> /\ \A s \in Shims : ~Serving(s)

\* Until two flushes overlap, one handler flushes, and the file is still the
\* one it has read.
OneFlush ==
    ~faulted =>
      /\ \A s, t \in Shims : Flushing(s) /\ Flushing(t) => s = t
      /\ \A s \in Shims : conn[s].step = "write" => conn[s].snap = file

HookInv ==
    /\ ClocksTyped /\ EntriesTyped /\ FlushHolds /\ DownIsEmpty /\ OneFlush
    /\ EntriesInOrder

\* What no step but the end of the daemon may do.
Kept ==
    ~faulted' /\ ~(daemon = "closing" /\ daemon' = "down")
      => ToSet(Pipeline) \subseteq ToSet(Pipeline')

\* InFlush as a function of the connections.
FlushOf(c) ==
    IF \E s \in Shims : c[s].took # <<>>
    THEN c[CHOOSE s \in Shims : c[s].took # <<>>].took ELSE <<>>

LEMMA FlushOfOne ==
    ASSUME NEW c, NEW s \in Shims, c[s].took # <<>>,
           \A t \in Shims : c[t].took # <<>> => t = s
    PROVE  FlushOf(c) = c[s].took
<1>1. (CHOOSE t \in Shims : c[t].took # <<>>) = s
  OBVIOUS
<1> QED
  BY <1>1 DEF FlushOf

LEMMA FlushOfNone ==
    ASSUME NEW c, \A t \in Shims : c[t].took = <<>>
    PROVE  FlushOf(c) = <<>>
BY DEF FlushOf

LEMMA FlushOfSame ==
    ASSUME NEW c, NEW d, \A t \in Shims : c[t].took = d[t].took,
           \A s, t \in Shims : c[s].took # <<>> /\ c[t].took # <<>> => s = t
    PROVE  FlushOf(c) = FlushOf(d)
<1>1. CASE \E s \in Shims : c[s].took # <<>>
  <2>1. PICK s \in Shims : c[s].took # <<>>
    BY <1>1
  <2>2. FlushOf(c) = c[s].took
    BY <2>1, FlushOfOne
  <2>3. FlushOf(d) = d[s].took
    BY <2>1, FlushOfOne
  <2> QED
    BY <2>2, <2>3
<1>2. CASE ~\E s \in Shims : c[s].took # <<>>
  BY <1>2, FlushOfNone
<1> QED
  BY <1>1, <1>2

LEMMA FlushTyped ==
    ASSUME NEW S, NEW c, \A s \in Shims : c[s].took \in Seq(S)
    PROVE  FlushOf(c) \in Seq(S)
<1>1. CASE \E s \in Shims : c[s].took # <<>>
  <2>1. (CHOOSE s \in Shims : c[s].took # <<>>) \in Shims
    BY <1>1
  <2> QED
    BY <1>1, <2>1 DEF FlushOf
<1>2. CASE ~\E s \in Shims : c[s].took # <<>>
  BY <1>2, EmptySeq, FlushOfNone
<1> QED
  BY <1>1, <1>2

LEMMA PipelineIs ==
    /\ Pipeline = (file \o FlushOf(conn)) \o buffer
    /\ Pipeline' = (file' \o FlushOf(conn')) \o buffer'
BY DEF Pipeline, InFlush, FlushOf, Flushing

LEMMA PipelineTyped ==
    ASSUME HookInv
    PROVE  Pipeline \in Seq(1 .. entries) /\ FlushOf(conn) \in Seq(1 .. entries)
<1>1. \A s \in Shims : conn[s].took \in Seq(1 .. entries)
  BY DEF HookInv, EntriesTyped, Requests
<1>2. FlushOf(conn) \in Seq(1 .. entries)
  BY <1>1, FlushTyped
<1>3. file \o FlushOf(conn) \in Seq(1 .. entries)
  BY <1>2, ConcatProperties DEF HookInv, EntriesTyped
<1> QED
  BY <1>2, <1>3, PipelineIs, ConcatProperties DEF HookInv, EntriesTyped

\* A step that leaves the pipeline as it is keeps the order and every entry.
LEMMA SamePipeline ==
    ASSUME HookInv, faulted \in BOOLEAN, faulted' \in BOOLEAN,
           ~faulted' => ~faulted /\ Pipeline' = Pipeline
    PROVE  EntriesInOrder' /\ Kept
BY DEF HookInv, EntriesInOrder, Kept

\* A handler that enters and leaves a step outside flushFallback disturbs nothing.
LEMMA OutsideFlush ==
    ASSUME HookInv, NEW s \in Shims, UNCHANGED <<file, buffer, entries, faulted>>,
           NEW r \in Requests(entries), r.took = <<>>, r.step \notin FlushSteps,
           conn[s].step \notin FlushSteps, conn' = [conn EXCEPT ![s] = r]
    PROVE  EntriesTyped' /\ FlushHolds' /\ OneFlush' /\ EntriesInOrder' /\ Kept
<1>1. conn \in [Shims -> Requests(entries)] /\ ~Flushing(s)
  BY DEF HookInv, EntriesTyped, FlushHolds
<1>2. /\ conn'[s] = r /\ conn' \in [Shims -> Requests(entries)]
      /\ \A t \in Shims : t # s => conn'[t] = conn[t]
  BY <1>1
<1>3. EntriesTyped'
  BY <1>2 DEF HookInv, EntriesTyped
<1>4. \A t \in Shims : conn'[t].took = conn[t].took
  BY <1>1, <1>2 DEF Flushing
<1>5. FlushHolds'
  BY <1>1, <1>2 DEF HookInv, FlushHolds, Flushing
<1>6. OneFlush'
  BY <1>1, <1>2, <1>4 DEF HookInv, OneFlush, Flushing, FlushSteps
<1>7. ~faulted => FlushOf(conn) = FlushOf(conn')
  BY <1>4, FlushOfSame DEF HookInv, OneFlush, Flushing
<1>8. faulted \in BOOLEAN
  BY DEF HookInv, ClocksTyped
<1>9. EntriesInOrder' /\ Kept
  BY <1>7, <1>8, PipelineIs, SamePipeline
<1> QED
  BY <1>3, <1>5, <1>6, <1>9

LEMMA OutsideTo ==
    ASSUME HookInv, NEW s \in Shims, UNCHANGED <<file, buffer, entries, faulted>>,
           NEW x \in Steps \ FlushSteps, conn[s].step \notin FlushSteps, To(s, x)
    PROVE  EntriesTyped' /\ FlushHolds' /\ OneFlush' /\ EntriesInOrder' /\ Kept
<1> DEFINE r == [conn[s] EXCEPT !.step = x]
<1>1. conn[s] \in Requests(entries) /\ conn[s].took = <<>>
  BY DEF HookInv, EntriesTyped, FlushHolds, Flushing
<1>2. r \in Requests(entries) /\ r.took = <<>> /\ r.step = x
  BY <1>1 DEF Requests
<1>3. conn' = [conn EXCEPT ![s] = r]
  BY DEF To
<1> HIDE DEF r
<1> QED
  BY <1>2, <1>3, OutsideFlush

\* A handler at work keeps its daemon from being down.
LEMMA ServedDaemonUp ==
    ASSUME HookInv, NEW s \in Shims, Serving(s), daemon' = daemon
    PROVE  DownIsEmpty'
BY DEF HookInv, DownIsEmpty

LEMMA NoRequestTyped ==
    ASSUME NEW n \in Nat
    PROVE  NoRequest \in Requests(n) /\ NoRequest.took = <<>> /\ NoRequest.step = "new"
BY EmptySeq DEF NoRequest, Requests, Kinds, Steps

\* The two ways Dial fills in a request.
Sent(r, k, x) == [r EXCEPT !.kind = k, !.sends = 1, !.step = x]
SentAgain(r) == [r EXCEPT !.sends = 2, !.step = "accepted"]

LEMMA SentTyped ==
    ASSUME NEW n, NEW r \in Requests(n), NEW k \in Kinds, NEW x \in Steps
    PROVE  /\ Sent(r, k, x) \in Requests(n)
           /\ Sent(r, k, x).took = r.took /\ Sent(r, k, x).step = x
<1>1. /\ Sent(r, k, x).took = r.took /\ Sent(r, k, x).step = x
  BY DEF Requests, Sent
<1>2. \A m \in 0 .. 2 : [r EXCEPT !.kind = k, !.sends = m, !.step = x] \in Requests(n)
  BY DEF Requests
<1>3. 1 \in 0 .. 2
  OBVIOUS
<1> QED
  BY <1>1, <1>2, <1>3 DEF Sent

LEMMA SentAgainTyped ==
    ASSUME NEW n, NEW r \in Requests(n)
    PROVE  /\ SentAgain(r) \in Requests(n)
           /\ SentAgain(r).took = r.took /\ SentAgain(r).step = "accepted"
<1>1. /\ SentAgain(r).took = r.took /\ SentAgain(r).step = "accepted"
  BY DEF Requests, SentAgain
<1>2. \A m \in 0 .. 2, x \in Steps : [r EXCEPT !.sends = m, !.step = x] \in Requests(n)
  BY DEF Requests
<1>3. 2 \in 0 .. 2 /\ "accepted" \in Steps
  BY DEF Steps
<1> QED
  BY <1>1, <1>2, <1>3 DEF SentAgain

LEMMA DialKeeps ==
    ASSUME HookInv, NEW s \in Shims, Dial(s)
    PROVE  HookInv' /\ Kept
<1>1. conn[s] \in Requests(entries) /\ entries \in Nat /\ conn \in [Shims -> Requests(entries)]
  BY DEF HookInv, EntriesTyped
<1>2. conn[s].step \in {"new", "redial"}
  BY DEF Dial
<1>3. conn[s].took = <<>>
  BY <1>2 DEF HookInv, FlushHolds, Flushing, FlushSteps
<1>4. PICK r \in Requests(entries) : /\ r.took = <<>> /\ conn' = [conn EXCEPT ![s] = r]
                                     /\ r.step \in {"accepted", "start", "new"}
                                     /\ r.step = "accepted" => daemon = "listening"
  <2>1. CASE conn[s].step = "new"
    <3>1. PICK k \in Kinds :
            conn' = [conn EXCEPT ![s].kind = k, ![s].sends = 1,
                       ![s].step = IF daemon = "listening" THEN "accepted" ELSE "start"]
      BY <2>1 DEF Dial
    <3>2. PICK x \in {"accepted", "start"} :
            /\ x = "accepted" => daemon = "listening"
            /\ conn' = [conn EXCEPT ![s].kind = k, ![s].sends = 1, ![s].step = x]
      BY <3>1
    <3>3. conn' = [conn EXCEPT ![s] = Sent(conn[s], k, x)]
      <4>1. conn' = [conn EXCEPT ![s] = [conn[s] EXCEPT !.kind = k, !.sends = 1, !.step = x]]
        BY <1>1, <3>2
      <4> QED
        BY <4>1 DEF Sent
    <3>4. x \in Steps
      BY DEF Steps
    <3>5. /\ Sent(conn[s], k, x) \in Requests(entries)
          /\ Sent(conn[s], k, x).took = <<>> /\ Sent(conn[s], k, x).step = x
      BY <1>1, <1>3, <3>4, SentTyped
    <3>6. x = "accepted" => daemon = "listening"
      BY <3>2
    <3> QED
      BY <3>3, <3>5, <3>6
  <2>2. CASE conn[s].step = "redial"
    <3>1. conn' = [conn EXCEPT ![s] = IF daemon = "listening" THEN SentAgain(conn[s])
                                      ELSE NoRequest]
      BY <2>2 DEF Dial, SentAgain
    <3>2. CASE daemon = "listening"
      BY <1>1, <1>3, <3>1, <3>2, SentAgainTyped
    <3>3. CASE daemon # "listening"
      BY <1>1, <3>1, <3>3, NoRequestTyped
    <3> QED
      BY <3>2, <3>3
  <2> QED
    BY <1>2, <2>1, <2>2
<1>5. EntriesTyped' /\ FlushHolds' /\ OneFlush' /\ EntriesInOrder' /\ Kept
  BY <1>2, <1>4, OutsideFlush DEF Dial, FlushSteps
<1>6. ClocksTyped'
  <2>1. requests \in 0 .. MaxRequests /\ MaxRequests \in Nat
    BY HookAssumption DEF HookInv, ClocksTyped
  <2>2. requests' = requests \/ (requests < MaxRequests /\ requests' = requests + 1)
    BY DEF Dial
  <2>3. requests' \in 0 .. MaxRequests
    BY <2>1, <2>2
  <2>4. UNCHANGED <<daemon, starts, left, quiet, authAge, token, faulted>>
    BY DEF Dial
  <2> QED
    BY <2>3, <2>4 DEF HookInv, ClocksTyped
<1>7. DownIsEmpty'
  BY <1>1, <1>4 DEF Dial, HookInv, DownIsEmpty, Serving
<1> QED
  BY <1>5, <1>6, <1>7 DEF HookInv

LEMMA StartKeeps ==
    ASSUME HookInv, NEW s \in Shims, StartDaemon(s)
    PROVE  HookInv' /\ Kept
<1>1. buffer' = buffer /\ UNCHANGED <<file, entries, faulted>>
  BY DEF StartDaemon, HookInv, DownIsEmpty
<1>2. conn[s].step = "start" /\ To(s, "redial")
  BY DEF StartDaemon
<1>3. EntriesTyped' /\ FlushHolds' /\ OneFlush' /\ EntriesInOrder' /\ Kept
  BY <1>1, <1>2, OutsideTo DEF Steps, FlushSteps
<1>4. ClocksTyped'
  BY HookAssumption, SMTT(30) DEF StartDaemon, HookInv, ClocksTyped
<1>5. \A t \in Shims : Serving(t)' <=> Serving(t)
  BY <1>2 DEF To, Serving, HookInv, EntriesTyped
<1>6. DownIsEmpty'
  BY <1>1, <1>5 DEF StartDaemon, HookInv, DownIsEmpty
<1> QED
  BY <1>3, <1>4, <1>6 DEF HookInv

LEMMA HandleKeeps ==
    ASSUME HookInv, NEW s \in Shims, Handle(s)
    PROVE  HookInv' /\ Kept
<1>1. FirstStep(conn[s].kind) \in Steps \ FlushSteps
  BY DEF FirstStep, Steps, FlushSteps
<1>2. EntriesTyped' /\ FlushHolds' /\ OneFlush' /\ EntriesInOrder' /\ Kept
  BY <1>1, OutsideTo DEF Handle, FlushSteps
<1>3. ClocksTyped'
  BY HookAssumption DEF Handle, HookInv, ClocksTyped
<1>4. DownIsEmpty'
  BY ServedDaemonUp DEF Handle, Serving
<1> QED
  BY <1>2, <1>3, <1>4 DEF HookInv

LEMMA HealthKeeps ==
    ASSUME HookInv, NEW s \in Shims, Health(s)
    PROVE  HookInv' /\ Kept
<1>1. PICK x \in Steps \ FlushSteps : To(s, x)
  BY DEF Health, Steps, FlushSteps
<1>2. EntriesTyped' /\ FlushHolds' /\ OneFlush' /\ EntriesInOrder' /\ Kept
  BY <1>1, OutsideTo DEF Health, FlushSteps
<1>3. ClocksTyped'
  BY DEF Health, HookInv, ClocksTyped
<1>4. DownIsEmpty'
  BY ServedDaemonUp DEF Health, Serving
<1> QED
  BY <1>2, <1>3, <1>4 DEF HookInv

LEMMA AuthKeeps ==
    ASSUME HookInv, NEW s \in Shims, Auth(s) \/ Checked(s)
    PROVE  HookInv' /\ Kept
<1>1. PICK x \in Steps \ FlushSteps : To(s, x)
  BY DEF Auth, Checked, AfterAuth, Steps, FlushSteps
<1>2. EntriesTyped' /\ FlushHolds' /\ OneFlush' /\ EntriesInOrder' /\ Kept
  BY <1>1, OutsideTo DEF Auth, Checked, FlushSteps
<1>3. ClocksTyped'
  BY HookAssumption DEF Auth, Checked, HookInv, ClocksTyped
<1>4. DownIsEmpty'
  BY ServedDaemonUp DEF Auth, Checked, Serving
<1> QED
  BY <1>2, <1>3, <1>4 DEF HookInv

LEMMA CallKeeps ==
    ASSUME HookInv, NEW s \in Shims, Call(s) \/ RequestDrain(s)
    PROVE  HookInv' /\ Kept
<1>1. PICK x \in Steps \ FlushSteps : To(s, x)
  BY DEF Call, RequestDrain, Steps, FlushSteps
<1>2. EntriesTyped' /\ FlushHolds' /\ OneFlush' /\ EntriesInOrder' /\ Kept
  BY <1>1, OutsideTo DEF Call, RequestDrain, FlushSteps
<1>3. left' \in {left, Min({left, DrainTimeout})}
  BY DEF Call, RequestDrain
<1>4. left \in Nat /\ DrainTimeout \in Nat
  BY HookAssumption DEF HookInv, ClocksTyped
<1>5. left' = left \/ (left' = DrainTimeout /\ DrainTimeout < left)
  BY <1>3, <1>4, MinPair
<1>6. ClocksTyped'
  <2>1. UNCHANGED <<daemon, starts, requests, quiet, authAge, token, faulted>>
    BY DEF Call, RequestDrain
  <2>2. /\ left \in 0 .. IdleTimeout /\ quiet \in 0 .. DrainTimeout /\ IdleTimeout \in Nat
        /\ daemon = "listening" => quiet + left >= DrainTimeout
    BY HookAssumption DEF HookInv, ClocksTyped
  <2>3. /\ left' \in 0 .. IdleTimeout
        /\ daemon = "listening" => quiet + left' >= DrainTimeout
    BY <1>4, <1>5, <2>2
  <2> QED
    BY <2>1, <2>3 DEF HookInv, ClocksTyped
<1>7. DownIsEmpty'
  BY ServedDaemonUp DEF Call, RequestDrain, Serving
<1> QED
  BY <1>2, <1>6, <1>7 DEF HookInv

LEMMA RespondKeeps ==
    ASSUME HookInv, NEW s \in Shims, Respond(s)
    PROVE  HookInv' /\ Kept
<1>1. entries \in Nat
  BY DEF HookInv, EntriesTyped
<1>4. EntriesTyped' /\ FlushHolds' /\ OneFlush' /\ EntriesInOrder' /\ Kept
  <2>1. CASE conn' = [conn EXCEPT ![s] = NoRequest]
    BY <1>1, <2>1, NoRequestTyped, OutsideFlush DEF Respond, FlushSteps
  <2>2. CASE To(s, "start")
    BY <2>2, OutsideTo DEF Respond, Steps, FlushSteps
  <2> QED
    BY <2>1, <2>2 DEF Respond
<1>5. ClocksTyped'
  BY DEF Respond, HookInv, ClocksTyped
<1>6. DownIsEmpty'
  BY ServedDaemonUp DEF Respond, Serving
<1> QED
  BY <1>4, <1>5, <1>6 DEF HookInv

-----------------------------------------------------------------------------
(* The steps that move entries.                                            *)

LEMMA MoreEntries ==
    ASSUME NEW n \in Nat
    PROVE  Seq(1 .. n) \subseteq Seq(1 .. n + 1) /\ Requests(n) \subseteq Requests(n + 1)
<1>1. Seq(1 .. n) \subseteq Seq(1 .. n + 1)
  BY SeqMonotonic
<1> QED
  BY <1>1 DEF Requests

LEMMA EnqueueKeeps ==
    ASSUME HookInv, NEW s \in Shims, Enqueue(s)
    PROVE  HookInv' /\ Kept
<1>1. entries \in Nat /\ conn[s].step = "enqueue" /\ To(s, "respond")
  BY DEF HookInv, EntriesTyped, Enqueue
<1>2. ClocksTyped' /\ DownIsEmpty'
  BY ServedDaemonUp DEF Enqueue, Serving, HookInv, ClocksTyped
<1>3. CASE UNCHANGED <<buffer, entries>>
  <2>1. EntriesTyped' /\ FlushHolds' /\ OneFlush' /\ EntriesInOrder' /\ Kept
    BY <1>1, <1>3, OutsideTo DEF Enqueue, Steps, FlushSteps
  <2> QED
    BY <1>2, <2>1 DEF HookInv
<1>4. CASE /\ entries < MaxEntries /\ entries' = entries + 1
           /\ buffer' = Append(buffer, entries + 1)
  <2> DEFINE r == [conn[s] EXCEPT !.step = "respond"]
  <2>1. /\ conn \in [Shims -> Requests(entries)] /\ conn[s] \in Requests(entries)
        /\ buffer \in Seq(1 .. entries) /\ file \in Seq(1 .. entries) /\ conn[s].took = <<>>
    BY <1>1 DEF HookInv, EntriesTyped, FlushHolds, Flushing, FlushSteps
  <2>2. r \in Requests(entries) /\ r.took = <<>> /\ r.step = "respond"
    BY <2>1 DEF Requests, Steps
  <2>3. conn' = [conn EXCEPT ![s] = r]
    BY <1>1 DEF To
  <2> HIDE DEF r
  <2>4. /\ conn'[s] = r /\ \A t \in Shims : t # s => conn'[t] = conn[t]
        /\ conn' \in [Shims -> Requests(entries)]
    BY <2>1, <2>2, <2>3
  <2>5. EntriesTyped'
    <3>1. conn' \in [Shims -> Requests(entries + 1)]
      BY <1>1, <2>4, MoreEntries
    <3>2. buffer \in Seq(1 .. entries + 1) /\ file \in Seq(1 .. entries + 1)
      BY <1>1, <2>1, MoreEntries
    <3>3. entries + 1 \in 1 .. entries + 1 /\ entries + 1 \in 0 .. MaxEntries
      BY <1>1, <1>4, HookAssumption
    <3>4. Append(buffer, entries + 1) \in Seq(1 .. entries + 1)
      BY <3>2, <3>3, AppendProperties
    <3> QED
      BY <1>4, <3>1, <3>2, <3>3, <3>4 DEF EntriesTyped, Enqueue
  <2>6. \A t \in Shims : conn'[t].took = conn[t].took
    BY <2>1, <2>2, <2>4
  <2>7. FlushHolds'
    BY <2>1, <2>2, <2>4 DEF HookInv, FlushHolds, Flushing, FlushSteps
  <2>8. OneFlush'
    BY <2>2, <2>4, <2>6 DEF HookInv, OneFlush, Flushing, Enqueue
  <2>9. ~faulted => FlushOf(conn) = FlushOf(conn')
    BY <2>6, FlushOfSame DEF HookInv, OneFlush, Flushing
  <2>10. ~faulted => Pipeline' = Append(Pipeline, entries + 1)
    <3>1. file \o FlushOf(conn) \in Seq(1 .. entries)
      BY <2>1, PipelineTyped, ConcatProperties
    <3>2. (file \o FlushOf(conn)) \o Append(buffer, entries + 1)
            = Append((file \o FlushOf(conn)) \o buffer, entries + 1)
      <4> DEFINE before == file \o FlushOf(conn)
      <4>1. /\ before \in Seq(1 .. entries + 1) /\ buffer \in Seq(1 .. entries + 1)
            /\ entries + 1 \in 1 .. entries + 1
        BY <1>1, <2>1, <3>1, MoreEntries
      <4> HIDE DEF before
      <4>2. before \o Append(buffer, entries + 1) = Append(before \o buffer, entries + 1)
        BY <4>1, ConcatAppend
      <4> QED
        BY <4>2 DEF before
    <3> QED
      BY <1>4, <2>9, <3>2, PipelineIs DEF Enqueue
  <2>11. faulted' = faulted /\ Pipeline \in Seq(1 .. entries)
    BY PipelineTyped DEF Enqueue
  <2>12. EntriesInOrder <=> (~faulted => InOrder(Pipeline))
    BY DEF EntriesInOrder, InOrder
  <2>13. ~faulted => /\ InOrder(Pipeline') /\ ToSet(Pipeline) \subseteq ToSet(Pipeline')
    BY <1>1, <2>10, <2>11, <2>12, OrderedAppend DEF HookInv
  <2>14. EntriesInOrder' /\ Kept
    BY <2>11, <2>13 DEF EntriesInOrder, InOrder, Kept
  <2> QED
    BY <1>2, <2>5, <2>7, <2>8, <2>14 DEF HookInv
<1> QED
  BY <1>3, <1>4 DEF Enqueue

\* Where a flush ends is outside flushFallback.
LEMMA AfterFlushOutside ==
    ASSUME NEW s \in Shims
    PROVE  AfterFlush(s) \in Steps \ FlushSteps
BY DEF AfterFlush, Steps, FlushSteps

LEMMA TakeKeeps ==
    ASSUME HookInv, NEW s \in Shims, Take(s)
    PROVE  HookInv' /\ Kept
<1> DEFINE x == IF buffer = <<>> THEN AfterFlush(s) ELSE "read"
<1>1. /\ conn \in [Shims -> Requests(entries)] /\ conn[s] \in Requests(entries)
      /\ buffer \in Seq(1 .. entries) /\ file \in Seq(1 .. entries)
  BY DEF HookInv, EntriesTyped
<1>2. conn[s].step = "take" /\ conn[s].took = <<>>
  BY DEF Take, HookInv, FlushHolds, Flushing, FlushSteps
<1>3. ClocksTyped' /\ DownIsEmpty'
  BY ServedDaemonUp DEF Take, Serving, HookInv, ClocksTyped
<1> DEFINE r == [conn[s] EXCEPT !.took = buffer, !.step = x]
<1>4. x \in Steps
  BY AfterFlushOutside DEF Steps
<1>5. conn' = [conn EXCEPT ![s] = r]
  BY <1>1 DEF Take
<1> HIDE DEF x
<1>6. r \in Requests(entries) /\ r.took = buffer /\ r.step = x
  BY <1>1, <1>4 DEF Requests
<1> HIDE DEF r
<1>7. /\ conn'[s] = r /\ \A t \in Shims : t # s => conn'[t] = conn[t]
      /\ conn' \in [Shims -> Requests(entries)]
  BY <1>1, <1>5, <1>6
<1>8. CASE buffer = <<>>
  <2>1. x \notin FlushSteps
    BY <1>8, AfterFlushOutside DEF x
  <2>2. UNCHANGED <<file, buffer, entries, faulted>>
    BY <1>8 DEF Take, HookInv, ClocksTyped
  <2>3. EntriesTyped' /\ FlushHolds' /\ OneFlush' /\ EntriesInOrder' /\ Kept
    BY <1>2, <1>5, <1>6, <1>8, <2>1, <2>2, OutsideFlush DEF FlushSteps
  <2> QED
    BY <1>3, <2>3 DEF HookInv
<1>9. CASE buffer # <<>>
  <2>1. x = "read"
    BY <1>9 DEF x
  <2>2. EntriesTyped'
    BY <1>7, EmptySeq DEF HookInv, EntriesTyped, Take
  <2>3. FlushHolds'
    BY <1>6, <1>7, <1>9, <2>1 DEF HookInv, FlushHolds, Flushing, FlushSteps
  <2>4. /\ faulted' \in BOOLEAN /\ faulted \in BOOLEAN
        /\ ~faulted' => ~faulted /\ \A t \in Shims \ {s} : ~Flushing(t)
    BY <1>9 DEF Take, HookInv, ClocksTyped
  <2>5. OneFlush'
    BY <1>6, <1>7, <2>1, <2>4 DEF HookInv, OneFlush, Flushing, Take
  <2>6. ~faulted' => FlushOf(conn) = <<>> /\ FlushOf(conn') = buffer
    <3> SUFFICES ASSUME ~faulted' PROVE FlushOf(conn) = <<>> /\ FlushOf(conn') = buffer
      OBVIOUS
    <3>1. \A t \in Shims : conn[t].took = <<>>
      BY <1>2, <2>4 DEF Flushing
    <3>2. \A t \in Shims : conn'[t].took # <<>> => t = s
      BY <1>7, <3>1
    <3> QED
      BY <1>6, <1>7, <1>9, <3>1, <3>2, FlushOfNone, FlushOfOne
  <2>7. (file \o buffer) \o <<>> = (file \o <<>>) \o buffer
    <3>1. file \o buffer \in Seq(1 .. entries)
      BY <1>1, ConcatProperties
    <3> QED
      BY <1>1, <3>1, ConcatEmptySeq
  <2>8. ~faulted' => ~faulted /\ Pipeline' = Pipeline
    BY <2>4, <2>6, <2>7, PipelineIs DEF Take
  <2>9. EntriesInOrder' /\ Kept
    BY <2>4, <2>8, SamePipeline
  <2> QED
    BY <1>3, <2>2, <2>3, <2>5, <2>9 DEF HookInv
<1> QED
  BY <1>8, <1>9

LEMMA ReadKeeps ==
    ASSUME HookInv, NEW s \in Shims, AppendRead(s)
    PROVE  HookInv' /\ Kept
<1>1. /\ conn \in [Shims -> Requests(entries)] /\ conn[s] \in Requests(entries)
      /\ file \in Seq(1 .. entries) /\ faulted \in BOOLEAN
  BY DEF HookInv, EntriesTyped, ClocksTyped
<1>2. conn[s].step = "read" /\ Flushing(s)
  BY DEF AppendRead, HookInv, FlushHolds, FlushSteps
<1>3. ClocksTyped' /\ DownIsEmpty'
  BY ServedDaemonUp DEF AppendRead, Serving, HookInv, ClocksTyped
<1>4. PICK a \in Seq(1 .. entries) :
         /\ conn' = [conn EXCEPT ![s].snap = a, ![s].step = "write"]
         /\ \/ a = file /\ faulted' = faulted
            \/ faulted' = TRUE
  BY <1>1, EmptySeq DEF AppendRead
<1> DEFINE r == [conn[s] EXCEPT !.snap = a, !.step = "write"]
<1>5. conn' = [conn EXCEPT ![s] = r]
  BY <1>1, <1>4
<1>6. r \in Requests(entries) /\ r.took = conn[s].took /\ r.step = "write" /\ r.snap = a
  BY <1>1 DEF Requests, Steps
<1> HIDE DEF r
<1>7. /\ conn'[s] = r /\ \A t \in Shims : t # s => conn'[t] = conn[t]
      /\ conn' \in [Shims -> Requests(entries)]
  BY <1>1, <1>5, <1>6
<1>8. EntriesTyped'
  BY <1>7 DEF HookInv, EntriesTyped, AppendRead
<1>9. \A t \in Shims : conn'[t].took = conn[t].took
  BY <1>6, <1>7
<1>10. FlushHolds'
  BY <1>2, <1>6, <1>7, <1>9 DEF HookInv, FlushHolds, Flushing, FlushSteps
<1>11. OneFlush'
  BY <1>4, <1>6, <1>7, <1>9 DEF HookInv, OneFlush, Flushing, AppendRead
<1>12. ~faulted => FlushOf(conn) = FlushOf(conn')
  BY <1>9, FlushOfSame DEF HookInv, OneFlush, Flushing
<1>13. ~faulted' => ~faulted /\ Pipeline' = Pipeline
  BY <1>1, <1>4, <1>12, PipelineIs DEF AppendRead
<1>14. EntriesInOrder' /\ Kept
  BY <1>1, <1>4, <1>13, SamePipeline
<1> QED
  BY <1>3, <1>8, <1>10, <1>11, <1>14 DEF HookInv

\* A flush that ends, with its entries in the file or back in the buffer.
LEMMA FlushEnds ==
    ASSUME HookInv, NEW s \in Shims, Flushing(s), NEW r \in Requests(entries),
           r.took = <<>>, r.step \notin FlushSteps, conn' = [conn EXCEPT ![s] = r],
           UNCHANGED <<entries, faulted, daemon>>,
           file' \in Seq(1 .. entries), buffer' \in Seq(1 .. entries),
           ~faulted => file' \o buffer' = (file \o conn[s].took) \o buffer
    PROVE  EntriesTyped' /\ FlushHolds' /\ OneFlush' /\ EntriesInOrder' /\ Kept
<1>1. conn \in [Shims -> Requests(entries)] /\ faulted \in BOOLEAN
  BY DEF HookInv, EntriesTyped, ClocksTyped
<1>2. /\ conn'[s] = r /\ \A t \in Shims : t # s => conn'[t] = conn[t]
      /\ conn' \in [Shims -> Requests(entries)]
  BY <1>1
<1>3. EntriesTyped'
  BY <1>2 DEF HookInv, EntriesTyped
<1>4. FlushHolds'
  BY <1>2 DEF HookInv, FlushHolds, Flushing
<1>5. ~faulted => \A t \in Shims : Flushing(t) => t = s
  BY DEF HookInv, OneFlush
<1>6. OneFlush'
  BY <1>2, <1>4, <1>5 DEF HookInv, OneFlush, FlushHolds, Flushing, FlushSteps
<1>7. ~faulted => FlushOf(conn) = conn[s].took /\ FlushOf(conn') = <<>>
  <2> SUFFICES ASSUME ~faulted PROVE FlushOf(conn) = conn[s].took /\ FlushOf(conn') = <<>>
    OBVIOUS
  <2>1. \A t \in Shims : conn'[t].took = <<>>
    BY <1>2, <1>5 DEF Flushing
  <2>2. FlushOf(conn') = <<>>
    BY <2>1, FlushOfNone
  <2> QED
    BY <1>5, <2>2, FlushOfOne DEF Flushing
<1>8. file' \o <<>> = file'
  BY ConcatEmptySeq
<1>9. ~faulted' => ~faulted /\ Pipeline' = Pipeline
  BY <1>7, <1>8, PipelineIs
<1>10. EntriesInOrder' /\ Kept
  BY <1>1, <1>9, SamePipeline
<1> QED
  BY <1>3, <1>4, <1>6, <1>10

LEMMA WriteKeeps ==
    ASSUME HookInv, NEW s \in Shims, AppendWrite(s)
    PROVE  HookInv' /\ Kept
<1>1. /\ conn \in [Shims -> Requests(entries)] /\ conn[s] \in Requests(entries)
      /\ file \in Seq(1 .. entries) /\ buffer \in Seq(1 .. entries) /\ faulted \in BOOLEAN
      /\ conn[s].took \in Seq(1 .. entries) /\ conn[s].snap \in Seq(1 .. entries)
  BY DEF HookInv, EntriesTyped, ClocksTyped, Requests
<1>2. conn[s].step = "write" /\ Flushing(s)
  BY DEF AppendWrite, HookInv, FlushHolds, FlushSteps
<1>3. ClocksTyped' /\ DownIsEmpty'
  BY ServedDaemonUp DEF AppendWrite, Serving, HookInv, ClocksTyped
<1>4. ~faulted => conn[s].snap = file
  BY <1>2 DEF HookInv, OneFlush
<1>5. UNCHANGED <<entries, faulted, daemon, buffer>>
  BY DEF AppendWrite
<1>6. CASE /\ file' = conn[s].snap \o conn[s].took
           /\ conn' = [conn EXCEPT ![s].step = AfterFlush(s), ![s].took = <<>>,
                                   ![s].snap = <<>>]
  <2>1. PICK x \in Steps \ FlushSteps :
          conn' = [conn EXCEPT ![s].step = x, ![s].took = <<>>, ![s].snap = <<>>]
    BY <1>6, AfterFlushOutside
  <2> DEFINE r == [conn[s] EXCEPT !.step = x, !.took = <<>>, !.snap = <<>>]
  <2>2. conn' = [conn EXCEPT ![s] = r]
    BY <1>1, <2>1
  <2>3. r \in Requests(entries) /\ r.took = <<>> /\ r.step = x
    BY <1>1, EmptySeq DEF Requests
  <2> HIDE DEF r
  <2>4. file' \in Seq(1 .. entries)
    BY <1>1, <1>6, ConcatProperties
  <2>5. EntriesTyped' /\ FlushHolds' /\ OneFlush' /\ EntriesInOrder' /\ Kept
    BY <1>1, <1>2, <1>4, <1>5, <1>6, <2>2, <2>3, <2>4, FlushEnds
  <2> QED
    BY <1>3, <2>5 DEF HookInv
<1>7. CASE /\ conn' = [conn EXCEPT ![s].step = "requeue", ![s].snap = <<>>]
           /\ UNCHANGED file
  <2> DEFINE r == [conn[s] EXCEPT !.step = "requeue", !.snap = <<>>]
  <2>1. conn' = [conn EXCEPT ![s] = r]
    BY <1>1, <1>7
  <2>2. r \in Requests(entries) /\ r.took = conn[s].took /\ r.step = "requeue"
    BY <1>1, EmptySeq DEF Requests, Steps
  <2> HIDE DEF r
  <2>3. /\ conn'[s] = r /\ \A t \in Shims : t # s => conn'[t] = conn[t]
        /\ conn' \in [Shims -> Requests(entries)]
    BY <1>1, <2>1, <2>2
  <2>4. EntriesTyped'
    BY <1>5, <1>7, <2>3 DEF HookInv, EntriesTyped
  <2>5. \A t \in Shims : conn'[t].took = conn[t].took
    BY <2>2, <2>3
  <2>6. FlushHolds'
    BY <1>2, <2>2, <2>3, <2>5 DEF HookInv, FlushHolds, Flushing, FlushSteps
  <2>7. OneFlush'
    BY <1>5, <1>7, <2>2, <2>3, <2>5 DEF HookInv, OneFlush, Flushing
  <2>8. ~faulted => FlushOf(conn) = FlushOf(conn')
    BY <2>5, FlushOfSame DEF HookInv, OneFlush, Flushing
  <2>9. EntriesInOrder' /\ Kept
    BY <1>1, <1>5, <1>7, <2>8, PipelineIs, SamePipeline
  <2> QED
    BY <1>3, <2>4, <2>6, <2>7, <2>9 DEF HookInv
<1> QED
  BY <1>6, <1>7 DEF AppendWrite

LEMMA RequeueKeeps ==
    ASSUME HookInv, NEW s \in Shims, Requeue(s)
    PROVE  HookInv' /\ Kept
<1>1. /\ conn \in [Shims -> Requests(entries)] /\ conn[s] \in Requests(entries)
      /\ file \in Seq(1 .. entries) /\ buffer \in Seq(1 .. entries)
      /\ conn[s].took \in Seq(1 .. entries)
  BY DEF HookInv, EntriesTyped, Requests
<1>2. conn[s].step = "requeue" /\ Flushing(s)
  BY DEF Requeue, HookInv, FlushHolds, FlushSteps
<1>3. ClocksTyped' /\ DownIsEmpty'
  BY ServedDaemonUp DEF Requeue, Serving, HookInv, ClocksTyped
<1>4. PICK x \in Steps \ FlushSteps : conn' = [conn EXCEPT ![s].step = x, ![s].took = <<>>]
  BY AfterFlushOutside DEF Requeue
<1> DEFINE r == [conn[s] EXCEPT !.step = x, !.took = <<>>]
<1>5. conn' = [conn EXCEPT ![s] = r]
  BY <1>1, <1>4
<1>6. r \in Requests(entries) /\ r.took = <<>> /\ r.step = x
  BY <1>1, EmptySeq DEF Requests
<1> HIDE DEF r
<1>7. /\ UNCHANGED <<entries, faulted, daemon, file>> /\ buffer' = conn[s].took \o buffer
  BY DEF Requeue
<1>8. buffer' \in Seq(1 .. entries) /\ file' \o buffer' = (file \o conn[s].took) \o buffer
  <2>1. buffer' \in Seq(1 .. entries)
    BY <1>1, <1>7, ConcatProperties
  <2>2. (file \o conn[s].took) \o buffer = file \o (conn[s].took \o buffer)
    <3>1. \A a, b, c \in Seq(1 .. entries) : (a \o b) \o c = a \o (b \o c)
      BY ConcatAssociative
    <3> QED
      BY <1>1, <3>1, Zenon
  <2> QED
    BY <1>7, <2>1, <2>2
<1>9. EntriesTyped' /\ FlushHolds' /\ OneFlush' /\ EntriesInOrder' /\ Kept
  BY <1>1, <1>2, <1>5, <1>6, <1>7, <1>8, FlushEnds
<1> QED
  BY <1>3, <1>9 DEF HookInv

-----------------------------------------------------------------------------
(* The daemon process.                                                     *)

\* A step that moves no entry and no handler.
LEMMA NothingMoves ==
    ASSUME HookInv, UNCHANGED <<file, buffer, entries, conn, faulted>>
    PROVE  EntriesTyped' /\ FlushHolds' /\ OneFlush' /\ EntriesInOrder' /\ Kept
<1>1. EntriesTyped' /\ FlushHolds' /\ OneFlush'
  BY DEF HookInv, EntriesTyped, FlushHolds, OneFlush, Flushing
<1>2. faulted \in BOOLEAN
  BY DEF HookInv, ClocksTyped
<1>3. EntriesInOrder' /\ Kept
  BY <1>2, PipelineIs, SamePipeline
<1> QED
  BY <1>1, <1>3

LEMMA TickKeeps ==
    ASSUME HookInv, Tick
    PROVE  HookInv' /\ Kept
<1>1. /\ left \in 0 .. IdleTimeout /\ quiet \in 0 .. DrainTimeout /\ authAge \in 0 .. AuthTTL
      /\ daemon = "listening" /\ quiet + left >= DrainTimeout /\ left > 0
      /\ DrainTimeout \in Nat /\ IdleTimeout \in Nat /\ AuthTTL \in Nat
  BY HookAssumption DEF HookInv, ClocksTyped, Tick
<1>2. /\ left' = left - 1 /\ quiet' = Min({quiet + 1, DrainTimeout})
      /\ authAge' = Min({authAge + 1, AuthTTL})
      /\ UNCHANGED <<requests, daemon, starts, token, faulted>>
  BY DEF Tick
<1>3. quiet' = IF quiet + 1 =< DrainTimeout THEN quiet + 1 ELSE DrainTimeout
  <2>1. quiet + 1 \in Nat
    BY <1>1
  <2> QED
    BY <1>1, <1>2, <2>1, MinPair
<1>4. authAge' = IF authAge + 1 =< AuthTTL THEN authAge + 1 ELSE AuthTTL
  <2>1. authAge + 1 \in Nat
    BY <1>1
  <2> QED
    BY <1>1, <1>2, <2>1, MinPair
<1>5. /\ left' \in 0 .. IdleTimeout /\ quiet' \in 0 .. DrainTimeout /\ authAge' \in 0 .. AuthTTL
      /\ quiet' + left' >= DrainTimeout
  BY <1>1, <1>2, <1>3, <1>4
<1>6. ClocksTyped'
  BY <1>2, <1>5 DEF HookInv, ClocksTyped
<1>7. DownIsEmpty'
  BY <1>1, <1>2 DEF DownIsEmpty
<1>8. EntriesTyped' /\ FlushHolds' /\ OneFlush' /\ EntriesInOrder' /\ Kept
  BY NothingMoves DEF Tick
<1> QED
  BY <1>6, <1>7, <1>8 DEF HookInv

LEMMA CloseKeeps ==
    ASSUME HookInv, NEW signalled \in BOOLEAN, CloseListener(signalled)
    PROVE  HookInv' /\ Kept
<1>1. ClocksTyped' /\ DownIsEmpty'
  BY DEF CloseListener, HookInv, ClocksTyped, DownIsEmpty
<1>2. EntriesTyped' /\ FlushHolds' /\ OneFlush' /\ EntriesInOrder' /\ Kept
  BY NothingMoves DEF CloseListener
<1> QED
  BY <1>1, <1>2 DEF HookInv

LEMMA ExitKeeps ==
    ASSUME HookInv, Exit
    PROVE  HookInv' /\ Kept
<1>1. /\ file \in Seq(1 .. entries) /\ buffer \in Seq(1 .. entries) /\ 1 .. entries \subseteq Nat
      /\ UNCHANGED <<conn, file, entries, faulted>> /\ buffer' = <<>>
  <2>1. entries \in Nat
    BY DEF HookInv, EntriesTyped
  <2>2. 1 .. entries \subseteq Nat
    BY <2>1
  <2> QED
    BY <2>2 DEF HookInv, EntriesTyped, Exit
<1>2. ClocksTyped' /\ Kept
  BY DEF Exit, HookInv, ClocksTyped, Kept
<1>3. DownIsEmpty'
  BY DEF Exit, DownIsEmpty, Serving
<1>4. EntriesTyped' /\ FlushHolds' /\ OneFlush'
  BY <1>1, EmptySeq DEF HookInv, EntriesTyped, FlushHolds, OneFlush, Flushing
<1>5. FlushOf(conn) = <<>> /\ FlushOf(conn') = <<>>
  <2>1. \A t \in Shims : conn[t].took = <<>>
    BY DEF Exit, Serving, HookInv, FlushHolds, Flushing, FlushSteps
  <2> QED
    BY <1>1, <2>1, FlushOfNone
<1>6. Pipeline = file \o buffer /\ Pipeline' = file
  BY <1>1, <1>5, PipelineIs, ConcatEmptySeq
<1>7. /\ EntriesInOrder <=> (~faulted => InOrder(Pipeline))
      /\ EntriesInOrder' <=> (~faulted' => InOrder(Pipeline'))
  BY DEF EntriesInOrder, InOrder
<1>8. EntriesInOrder'
  BY <1>1, <1>6, <1>7, OrderedPrefix DEF HookInv
<1> QED
  BY <1>2, <1>3, <1>4, <1>8 DEF HookInv

-----------------------------------------------------------------------------
(* The theorem.                                                            *)

LEMMA HookInitially == HookInit => HookInv
<1> SUFFICES ASSUME HookInit PROVE HookInv
  OBVIOUS
<1>1. ClocksTyped /\ DownIsEmpty
  <2>1. /\ MaxStarts \in Nat /\ MaxRequests \in Nat /\ IdleTimeout \in Nat
        /\ DrainTimeout \in Nat /\ AuthTTL \in Nat
    BY HookAssumption
  <2>2. token \in BOOLEAN /\ faulted \in BOOLEAN
    BY Zenon DEF HookInit
  <2>3. /\ daemon = "down" /\ starts \in 0 .. MaxStarts /\ requests \in 0 .. MaxRequests
        /\ left \in 0 .. IdleTimeout /\ quiet \in 0 .. DrainTimeout /\ authAge \in 0 .. AuthTTL
    BY <2>1 DEF HookInit
  <2>4. DownIsEmpty
    BY DEF HookInit, DownIsEmpty, Serving, NoRequest
  <2> QED
    BY <2>2, <2>3, <2>4 DEF ClocksTyped
<1>2. EntriesTyped
  BY HookAssumption, EmptySeq, NoRequestTyped DEF HookInit, EntriesTyped
<1>3. \A s \in Shims : conn[s].took = <<>> /\ conn[s].step = "new"
  BY DEF HookInit, NoRequest
<1>4. FlushHolds /\ OneFlush
  BY <1>3 DEF FlushHolds, OneFlush, Flushing, FlushSteps
<1>5. Pipeline = <<>>
  <2>1. FlushOf(conn) = <<>>
    BY <1>3, FlushOfNone
  <2> QED
    BY <2>1, PipelineIs, EmptySeq, ConcatEmptySeq DEF HookInit
<1>6. EntriesInOrder
  BY <1>5 DEF EntriesInOrder
<1> QED
  BY <1>1, <1>2, <1>4, <1>6 DEF HookInv

LEMMA HookStepKeeps ==
    ASSUME HookInv, [HookNext]_hookVars
    PROVE  HookInv' /\ Kept
<1>1. ASSUME NEW s \in Shims, HandlerStep(s) PROVE HookInv' /\ Kept
  BY <1>1, DialKeeps, StartKeeps, HandleKeeps, HealthKeeps, AuthKeeps, EnqueueKeeps, TakeKeeps,
     ReadKeeps, WriteKeeps, RequeueKeeps, CallKeeps, RespondKeeps DEF HandlerStep
<1>2. CASE UNCHANGED hookVars
  <2>1. ClocksTyped' /\ DownIsEmpty'
    BY <1>2 DEF hookVars, HookInv, ClocksTyped, DownIsEmpty, Serving
  <2>2. EntriesTyped' /\ FlushHolds' /\ OneFlush' /\ EntriesInOrder' /\ Kept
    BY <1>2, NothingMoves DEF hookVars
  <2> QED
    BY <2>1, <2>2 DEF HookInv
<1> QED
  BY <1>1, <1>2, TickKeeps, CloseKeeps, ExitKeeps DEF HookNext

(* For every set of shims and every timeout: while no two flushes overlapped    *)
(* and no read failed, the entries of failed tool calls keep their order and    *)
(* none is lost but with the end of the daemon process; and the drain that a    *)
(* Stop asks for never cuts a session's daemon short.                           *)
THEOREM SessionKeepsEntries == HookSpec => SessionServed
<1>1. HookInv => HookTypeOK /\ EntriesInOrder /\ DrainAfterLastEvent
  <2> SUFFICES ASSUME HookInv PROVE HookTypeOK /\ EntriesInOrder /\ DrainAfterLastEvent
    OBVIOUS
  <2>1. \A s \in Shims : conn[s] \in Requests(entries)
    BY DEF HookInv, EntriesTyped
  <2>2. \A s \in Shims : /\ conn[s].kind \in Kinds /\ conn[s].step \in Steps
                         /\ conn[s].took \in Seq(1 .. entries)
                         /\ conn[s].snap \in Seq(1 .. entries)
    BY <2>1 DEF Requests
  <2> QED
    BY <2>2 DEF HookInv, ClocksTyped, EntriesTyped, HookTypeOK, DrainAfterLastEvent
<1>2. HookInv /\ [HookNext]_hookVars => [~faulted' /\ ~(daemon = "closing" /\ daemon' = "down")
         => ToSet(Pipeline) \subseteq ToSet(Pipeline')]_hookVars
  BY HookStepKeeps DEF Kept
<1>3. HookInv /\ [HookNext]_hookVars => HookInv'
  BY HookStepKeeps
<1> QED
  BY <1>1, <1>2, <1>3, HookInitially, PTL DEF HookSpec, SessionServed, EntriesKept

-----------------------------------------------------------------------------
(* The consolidator of tool calls.                                         *)

Memories == [stored : BOOLEAN, conf : Nat]

ConsolStates == {"idle", "read", "connect", "requeue", "rename", "write", "recall", "upsert",
                 "promote"}

Consols == [at : ConsolStates, run : Nat, snap : SUBSET ToolEvents,
            file : SUBSET (ToolEvents \cup PatternProjects), todo : SUBSET ToolEvents,
            old : Memories, conf : Nat]

InstinctTypeOK ==
    /\ uncaptured \subseteq ToolEvents /\ Lines \subseteq ToolEvents
    /\ consol \in [Consolidators -> Consols] /\ runsMade \in Nat
    /\ pattern \in [PatternProjects -> Memories]

\* Events that some run has stored.
Stored == {x[2] : x \in written}

\* An event that is still to come, or waits in the buffer, was stored by nobody.
BufferFresh ==
    /\ (uncaptured \cup Lines) \cap Stored = {}
    /\ uncaptured \cap Lines = {}

\* Until its first write a run works on events nobody stored; from then on the
\* events it has to write are in no buffer, and nobody stored them.
RunFresh(p) ==
    LET c == consol[p] IN
    /\ c.at \in {"read", "connect", "requeue", "rename", "write"} =>
         c.snap \cap uncaptured = {}
    /\ c.at = "read" => c.snap \cap Stored = {}
    /\ c.at \in {"connect", "requeue", "rename"} =>
         /\ c.todo \cap Stored = {} /\ c.file \cap (Stored \cup uncaptured) = {}
         /\ c.file \subseteq ToolEvents
    /\ c.at \in {"connect", "write"} => c.todo \subseteq c.snap /\ c.todo \cap Lines = {}
    /\ c.at = "write" => c.todo \cap Stored = {}

OneAtATime == \A p, q \in Consolidators : p = q

InstinctInv ==
    /\ OneAtATime /\ InstinctTypeOK /\ BufferFresh
    /\ \A p \in Consolidators : RunFresh(p)
    /\ WrittenByOneRun

LEMMA WaitingTyped == Waiting \in Consols /\ Waiting.at = "idle"
BY DEF Waiting, Consols, ConsolStates, Absent, Memories

LEMMA InstinctInitially == OneAtATime /\ InstinctInit => InstinctInv
<1> SUFFICES ASSUME OneAtATime, InstinctInit PROVE InstinctInv
  OBVIOUS
<1>1. Lines = {} /\ Stored = {}
  BY DEF InstinctInit, Lines, Stored
<1>2. InstinctTypeOK
  BY <1>1, WaitingTyped DEF InstinctInit, InstinctTypeOK, Absent, Memories
<1>3. \A p \in Consolidators : RunFresh(p)
  BY WaitingTyped DEF InstinctInit, RunFresh
<1> QED
  BY <1>1, <1>2, <1>3 DEF InstinctInv, InstinctInit, BufferFresh, WrittenByOneRun

LEMMA CaptureKeeps ==
    ASSUME InstinctInv, NEW e \in ToolEvents, Capture(e)
    PROVE  InstinctInv'
<1>1. /\ uncaptured' = uncaptured \ {e} /\ e \in uncaptured
      /\ UNCHANGED <<consol, runsMade, written, pattern>>
  BY DEF Capture
<1>2. Lines' \subseteq Lines \cup {e} /\ Stored' = Stored
  BY DEF Capture, Lines, Stored
<1>3. InstinctTypeOK' /\ BufferFresh' /\ WrittenByOneRun'
  BY <1>1, <1>2 DEF InstinctInv, InstinctTypeOK, BufferFresh, WrittenByOneRun
<1>4. ASSUME NEW p \in Consolidators PROVE RunFresh(p)'
  <2>1. RunFresh(p) /\ consol'[p] = consol[p]
    BY <1>1 DEF InstinctInv
  <2> QED
    BY <1>1, <1>2, <2>1 DEF RunFresh
<1> QED
  BY <1>3, <1>4 DEF InstinctInv, OneAtATime

\* What is left to show of a step of the only consolidator.
LEMMA OnlyOneMoves ==
    ASSUME InstinctInv, NEW p \in Consolidators, NEW c \in Consols, Becomes(p, c),
           runsMade' \in Nat, Lines' \subseteq ToolEvents, uncaptured' \subseteq ToolEvents,
           pattern' \in [PatternProjects -> Memories], BufferFresh', WrittenByOneRun',
           consol'[p] = c => RunFresh(p)'
    PROVE  InstinctInv'
<1>1. consol' \in [Consolidators -> Consols] /\ consol'[p] = c
  BY DEF Becomes, InstinctInv, InstinctTypeOK
<1>2. \A q \in Consolidators : RunFresh(q)'
  BY <1>1 DEF InstinctInv, OneAtATime
<1> QED
  BY <1>1, <1>2 DEF InstinctInv, InstinctTypeOK, OneAtATime

\* A run that ends or goes on to the pattern has nothing left to protect.
LEMMA LeavesBuffer ==
    ASSUME InstinctInv, NEW p \in Consolidators, NEW c \in Consols, Becomes(p, c),
           c.at \in {"idle", "recall", "upsert", "promote"},
           UNCHANGED <<uncaptured, bufferFile, runsMade, written>>,
           pattern' \in [PatternProjects -> Memories]
    PROVE  InstinctInv'
<1>1. Lines' = Lines /\ Stored' = Stored
  BY DEF Lines, Stored
<1>2. BufferFresh' /\ WrittenByOneRun'
  BY <1>1 DEF InstinctInv, BufferFresh, WrittenByOneRun
<1>3. consol'[p] = c => RunFresh(p)'
  BY DEF RunFresh
<1>4. Lines' \subseteq ToolEvents /\ uncaptured' \subseteq ToolEvents /\ runsMade' \in Nat
  BY <1>1 DEF InstinctInv, InstinctTypeOK
<1> QED
  BY <1>2, <1>3, <1>4, OnlyOneMoves

LEMMA ReadBufferKeeps ==
    ASSUME InstinctInv, NEW p \in Consolidators, ReadBuffer(p)
    PROVE  InstinctInv'
<1> DEFINE c == [Waiting EXCEPT !.at = "read", !.run = runsMade + 1, !.snap = Lines]
<1>1. Lines \subseteq ToolEvents /\ runsMade \in Nat
  BY DEF InstinctInv, InstinctTypeOK
<1>2. c \in Consols /\ c.at = "read" /\ c.snap = Lines
  <2>1. \A a \in ConsolStates, n \in Nat, S \in SUBSET ToolEvents :
          [Waiting EXCEPT !.at = a, !.run = n, !.snap = S] \in Consols
    BY WaitingTyped DEF Consols
  <2>2. "read" \in ConsolStates /\ runsMade + 1 \in Nat
    BY <1>1 DEF ConsolStates
  <2>3. c.at = "read" /\ c.snap = Lines
    BY DEF Waiting
  <2> QED
    BY <1>1, <2>1, <2>2, <2>3
<1>3. Becomes(p, c) /\ runsMade' \in Nat /\ UNCHANGED <<uncaptured, bufferFile, written, pattern>>
  BY <1>1 DEF ReadBuffer
<1> HIDE DEF c
<1>4. Lines' = Lines /\ Stored' = Stored
  BY <1>3 DEF Lines, Stored
<1>5. BufferFresh' /\ WrittenByOneRun'
  BY <1>3, <1>4 DEF InstinctInv, BufferFresh, WrittenByOneRun
<1>6. consol'[p] = c => RunFresh(p)'
  BY <1>2, <1>3, <1>4 DEF RunFresh, InstinctInv, BufferFresh
<1> QED
  BY <1>1, <1>2, <1>3, <1>4, <1>5, <1>6, OnlyOneMoves DEF InstinctInv, InstinctTypeOK

LEMMA RotateBufferKeeps ==
    ASSUME InstinctInv, NEW p \in Consolidators, RotateBuffer(p)
    PROVE  InstinctInv'
<1>1. CASE bufferFile = NoFile
  BY <1>1, WaitingTyped, LeavesBuffer DEF RotateBuffer, InstinctInv, InstinctTypeOK
<1>2. CASE bufferFile # NoFile
  <2> DEFINE c == [consol[p] EXCEPT !.at = "connect", !.file = bufferFile,
                                    !.todo = consol[p].snap]
  <2>1. Lines = bufferFile /\ consol[p] \in Consols /\ bufferFile \subseteq ToolEvents
        /\ consol[p].snap \subseteq ToolEvents
    BY <1>2 DEF Lines, InstinctInv, InstinctTypeOK, Consols
  <2>2. c.at = "connect" /\ c.file = bufferFile /\ c.todo = c.snap
        /\ c.snap = consol[p].snap
    BY <2>1 DEF Consols
  <2>3. c \in Consols
    BY <2>1 DEF Consols, ConsolStates
  <2>4. /\ Becomes(p, c) /\ bufferFile' = NoFile
        /\ UNCHANGED <<uncaptured, runsMade, written, pattern>>
    BY <1>2 DEF RotateBuffer
  <2> HIDE DEF c
  <2>5. Lines' = {} /\ Stored' = Stored
    BY <2>4 DEF Lines, Stored
  <2>6. BufferFresh' /\ WrittenByOneRun'
    BY <2>4, <2>5 DEF InstinctInv, BufferFresh, WrittenByOneRun
  <2>7. RunFresh(p) /\ consol[p].at = "read"
    BY DEF InstinctInv, RotateBuffer, Stands
  <2>8. consol[p].snap \cap uncaptured = {} /\ consol[p].snap \cap Stored = {}
    BY <2>7 DEF RunFresh
  <2>9. consol'[p] = c => RunFresh(p)'
    BY <2>1, <2>2, <2>4, <2>5, <2>8 DEF RunFresh, InstinctInv, BufferFresh
  <2> QED
    BY <2>3, <2>4, <2>5, <2>6, <2>9, OnlyOneMoves DEF InstinctInv, InstinctTypeOK
<1> QED
  BY <1>1, <1>2

\* A run that only changes where it stands.
LEMMA MovedTyped ==
    ASSUME InstinctInv, NEW p \in Consolidators, NEW s \in ConsolStates, MovesTo(p, s)
    PROVE  \E c \in Consols : /\ Becomes(p, c) /\ c.at = s /\ c.snap = consol[p].snap
                              /\ c.todo = consol[p].todo /\ c.file = consol[p].file
<1> DEFINE c == [consol[p] EXCEPT !.at = s]
<1>1. consol[p] \in Consols
  BY DEF InstinctInv, InstinctTypeOK
<1>2. /\ c \in Consols /\ c.at = s /\ c.snap = consol[p].snap /\ c.todo = consol[p].todo
      /\ c.file = consol[p].file
  BY <1>1 DEF Consols
<1>3. Becomes(p, c)
  BY DEF MovesTo
<1> QED
  BY <1>2, <1>3

LEMMA BeforeWritingKeeps ==
    ASSUME InstinctInv, NEW p \in Consolidators, NEW s \in {"write", "requeue", "rename"},
           MovesTo(p, s), consol[p].at = "connect" \/ (consol[p].at = "requeue" /\ s = "rename"),
           UNCHANGED <<uncaptured, bufferFile, runsMade, written, pattern>>
    PROVE  InstinctInv'
<1>1. PICK c \in Consols : /\ Becomes(p, c) /\ c.at = s /\ c.snap = consol[p].snap
                           /\ c.todo = consol[p].todo /\ c.file = consol[p].file
  BY MovedTyped DEF ConsolStates
<1>2. Lines' = Lines /\ Stored' = Stored
  BY DEF Lines, Stored
<1>3. BufferFresh' /\ WrittenByOneRun'
  BY <1>2 DEF InstinctInv, BufferFresh, WrittenByOneRun
<1>4. consol'[p] = c => RunFresh(p)'
  BY <1>1, <1>2 DEF RunFresh, InstinctInv
<1> QED
  BY <1>1, <1>2, <1>3, <1>4, OnlyOneMoves DEF InstinctInv, InstinctTypeOK

LEMMA RequeueRenameKeeps ==
    ASSUME InstinctInv, NEW p \in Consolidators, RequeueRename(p)
    PROVE  InstinctInv'
<1>1. /\ Becomes(p, Waiting) /\ bufferFile' = consol[p].file
      /\ UNCHANGED <<uncaptured, runsMade, written, pattern>>
  BY DEF RequeueRename
<1>2. /\ consol[p].file \cap (Stored \cup uncaptured) = {} /\ consol[p].file \subseteq ToolEvents
  BY DEF InstinctInv, RunFresh, RequeueRename, Stands
<1>3. Lines' \subseteq consol[p].file /\ Stored' = Stored
  BY <1>1 DEF Lines, Stored
<1>4. BufferFresh' /\ WrittenByOneRun'
  BY <1>1, <1>2, <1>3 DEF InstinctInv, BufferFresh, WrittenByOneRun
<1>5. consol'[p] = Waiting => RunFresh(p)'
  BY WaitingTyped DEF RunFresh
<1>6. Lines' \subseteq ToolEvents
  BY <1>2, <1>3
<1> QED
  BY <1>1, <1>4, <1>5, <1>6, WaitingTyped, OnlyOneMoves DEF InstinctInv, InstinctTypeOK

\* The episodes: a run goes on with fewer events, one of which it may have stored.
LEMMA WritingKeeps ==
    ASSUME InstinctInv, NEW p \in Consolidators, consol[p].at = "write",
           NEW T \in SUBSET consol[p].todo,
           Becomes(p, [consol[p] EXCEPT !.todo = T]),
           \/ written' = written
           \/ \E e \in consol[p].todo \ T : written' = written \cup {<<consol[p].run, e>>},
           UNCHANGED <<uncaptured, bufferFile, runsMade, pattern>>
    PROVE  InstinctInv'
<1> DEFINE c == [consol[p] EXCEPT !.todo = T]
<1>1. consol[p] \in Consols /\ consol[p].todo \subseteq ToolEvents
  BY DEF InstinctInv, InstinctTypeOK, Consols
<1>2. c.at = "write" /\ c.snap = consol[p].snap /\ c.todo = T
  BY <1>1 DEF Consols
<1>3. c \in Consols
  BY <1>1 DEF Consols
<1> HIDE DEF c
<1>4. /\ consol[p].todo \cap Stored = {} /\ consol[p].todo \cap Lines = {}
      /\ consol[p].todo \subseteq consol[p].snap /\ consol[p].snap \cap uncaptured = {}
  BY DEF InstinctInv, RunFresh
<1>5. Lines' = Lines /\ Stored' \subseteq Stored \cup (consol[p].todo \ T)
  BY DEF Lines, Stored
<1>6. BufferFresh'
  BY <1>4, <1>5 DEF InstinctInv, BufferFresh
<1>7. WrittenByOneRun'
  <2>1. CASE written' = written
    BY <2>1 DEF InstinctInv, WrittenByOneRun
  <2>2. CASE written' # written
    <3>1. PICK e \in consol[p].todo \ T : written' = written \cup {<<consol[p].run, e>>}
      BY <2>2
    <3>2. \A x \in written : x[2] # e
      BY <1>4, <3>1 DEF Stored
    <3> QED
      BY <3>1, <3>2 DEF InstinctInv, WrittenByOneRun
  <2> QED
    BY <2>1, <2>2
<1>8. consol'[p] = c => RunFresh(p)'
  BY <1>2, <1>4, <1>5 DEF RunFresh
<1>9. Becomes(p, c)
  BY DEF c
<1> QED
  BY <1>3, <1>5, <1>6, <1>7, <1>8, <1>9, OnlyOneMoves DEF InstinctInv, InstinctTypeOK

LEMMA ConsolidatorKeeps ==
    ASSUME InstinctInv, NEW p \in Consolidators, ConsolidatorStep(p) \/ Killed(p)
    PROVE  InstinctInv'
<1>1. consol[p] \in Consols /\ pattern \in [PatternProjects -> Memories]
  BY DEF InstinctInv, InstinctTypeOK
<1>2. CASE ReadBuffer(p) \/ RotateBuffer(p)
  BY <1>2, ReadBufferKeeps, RotateBufferKeeps
<1>3. CASE ConnectEngram(p)
  <2>1. PICK s \in {"write", "requeue"} : MovesTo(p, s)
    BY <1>3 DEF ConnectEngram
  <2> QED
    BY <1>3, <2>1, BeforeWritingKeeps DEF ConnectEngram, Stands
<1>4. CASE RequeueCheck(p)
  <2>1. CASE MovesTo(p, "rename")
    BY <1>4, <2>1, BeforeWritingKeeps DEF RequeueCheck, Stands
  <2>2. CASE Becomes(p, Waiting)
    BY <1>1, <1>4, <2>2, WaitingTyped, LeavesBuffer DEF RequeueCheck
  <2> QED
    BY <1>4, <2>1, <2>2 DEF RequeueCheck
<1>5. CASE RequeueRename(p)
  BY <1>5, RequeueRenameKeeps
<1>6. ASSUME NEW e \in ToolEvents, WriteEvent(p, e) PROVE InstinctInv'
  <2> DEFINE T == consol[p].todo \ {e}
  <2>1. Becomes(p, [consol[p] EXCEPT !.todo = T])
    BY <1>1, <1>6 DEF WriteEvent
  <2>2. /\ e \in consol[p].todo \ T /\ T \in SUBSET consol[p].todo
        /\ written' = written \/ written' = written \cup {<<consol[p].run, e>>}
        /\ consol[p].at = "write" /\ UNCHANGED <<uncaptured, bufferFile, runsMade, pattern>>
    BY <1>6 DEF WriteEvent, Stands
  <2> HIDE DEF T
  <2> QED
    BY <2>1, <2>2, WritingKeeps
<1>7. CASE SkipEpisode(p)
  <2>1. PICK q \in PatternProjects :
          Becomes(p, [consol[p] EXCEPT !.todo = {e \in consol[p].todo : ProjectOf[e] # q}])
    BY <1>1, <1>7 DEF SkipEpisode
  <2> DEFINE T == {e \in consol[p].todo : ProjectOf[e] # q}
  <2>2. T \in SUBSET consol[p].todo /\ Becomes(p, [consol[p] EXCEPT !.todo = T])
    BY <2>1
  <2>3. /\ consol[p].at = "write" /\ written' = written
        /\ UNCHANGED <<uncaptured, bufferFile, runsMade, pattern>>
    BY <1>7 DEF SkipEpisode, Stands
  <2> HIDE DEF T
  <2> QED
    BY <2>2, <2>3, WritingKeeps
<1>8. CASE DetectPatterns(p)
  <2>1. CASE MovesTo(p, "recall")
    <3>1. PICK c \in Consols : Becomes(p, c) /\ c.at = "recall"
      BY <2>1, MovedTyped DEF ConsolStates
    <3> QED
      BY <1>1, <1>8, <3>1, LeavesBuffer DEF DetectPatterns
  <2>2. CASE Becomes(p, Waiting)
    BY <1>1, <1>8, <2>2, WaitingTyped, LeavesBuffer DEF DetectPatterns
  <2> QED
    BY <1>8, <2>1, <2>2 DEF DetectPatterns
<1>9. CASE Killed(p)
  BY <1>1, <1>9, WaitingTyped, LeavesBuffer DEF Killed
<1>10. CASE Promote(p)
  <2>1. pattern' \in [PatternProjects -> Memories]
    BY <1>1, <1>10 DEF Promote, QuickStore, Memories
  <2> QED
    BY <1>10, <2>1, WaitingTyped, LeavesBuffer DEF Promote
<1>11. CASE UpsertRecall(p)
  <2>1. CASE Becomes(p, Waiting)
    BY <1>1, <1>11, <2>1, WaitingTyped, LeavesBuffer DEF UpsertRecall
  <2>2. ASSUME NEW q \in Primary(consol[p].snap),
               Becomes(p, [consol[p] EXCEPT !.at = "upsert", !.old = pattern[q], !.file = {q}])
        PROVE  InstinctInv'
    <3> DEFINE c == [consol[p] EXCEPT !.at = "upsert", !.old = pattern[q], !.file = {q}]
    <3>1. q \in PatternProjects
      <4>1. consol[p].snap \subseteq ToolEvents
        BY <1>1 DEF Consols
      <4> QED
        BY <4>1 DEF Primary, PatternProjects
    <3>2. c.at = "upsert" /\ c \in Consols
      BY <1>1, <3>1 DEF Consols, ConsolStates
    <3>3. Becomes(p, c)
      BY <2>2
    <3> HIDE DEF c
    <3> QED
      BY <1>1, <1>11, <3>2, <3>3, LeavesBuffer DEF UpsertRecall
  <2> QED
    BY <1>11, <2>1, <2>2 DEF UpsertRecall
<1>12. CASE UpsertWrite(p)
  <2>1. PICK q \in consol[p].file, correction \in BOOLEAN :
           LET old == consol[p].old
               read == WireConfidence(old)
               new == IF ~old.stored THEN 1
                      ELSE IF correction THEN PrevConfidence(read) ELSE NextConfidence(read)
           IN /\ \/ pattern' = IF ~old.stored THEN QuickStore(q, new)
                               ELSE IF new # read THEN Corrected(q, new) ELSE pattern
                 \/ UNCHANGED pattern
              /\ Becomes(p, [consol[p] EXCEPT !.at = "promote", !.conf = new])
    BY <1>12 DEF UpsertWrite
  <2> DEFINE n == IF ~consol[p].old.stored THEN 1
                  ELSE IF correction THEN PrevConfidence(WireConfidence(consol[p].old))
                  ELSE NextConfidence(WireConfidence(consol[p].old))
  <2> DEFINE c == [consol[p] EXCEPT !.at = "promote", !.conf = n]
  <2>2. n \in Nat
    BY DEF NextConfidence, PrevConfidence, WireConfidence
  <2>3. Becomes(p, c) /\ pattern' \in {QuickStore(q, n), Corrected(q, n), pattern}
    BY <2>1
  <2> HIDE DEF n
  <2>4. c.at = "promote" /\ c \in Consols
    BY <1>1, <2>2 DEF Consols, ConsolStates
  <2>5. QuickStore(q, n) \in [PatternProjects -> Memories]
    BY <1>1 DEF QuickStore, Memories
  <2>6. Corrected(q, n) \in [PatternProjects -> Memories]
    BY <1>1, <2>2 DEF Corrected, Memories
  <2> HIDE DEF c
  <2> QED
    BY <1>1, <1>12, <2>3, <2>4, <2>5, <2>6, LeavesBuffer DEF UpsertWrite
<1> QED
  BY <1>2, <1>3, <1>4, <1>5, <1>6, <1>7, <1>8, <1>9, <1>10, <1>11, <1>12 DEF ConsolidatorStep

LEMMA InstinctStepKeeps == InstinctInv /\ [InstinctNext]_instinctVars => InstinctInv'
<1> SUFFICES ASSUME InstinctInv, [InstinctNext]_instinctVars PROVE InstinctInv'
  OBVIOUS
<1>1. CASE UNCHANGED instinctVars
  BY <1>1 DEF instinctVars, InstinctInv, OneAtATime, InstinctTypeOK, BufferFresh, Stored, Lines,
              RunFresh, WrittenByOneRun
<1> QED
  BY <1>1, CaptureKeeps, ConsolidatorKeeps DEF InstinctNext

(* While consolidators run one at a time, for every set of events and every     *)
(* number of runs, failed connections and kills: giving a batch back, or dying  *)
(* with one, never makes a second run store an event again.                     *)
THEOREM EventsStoredByOneRun == OneAtATime /\ InstinctSpec => []WrittenByOneRun
<1>1. InstinctInv => WrittenByOneRun
  BY DEF InstinctInv
<1> QED
  BY <1>1, InstinctInitially, InstinctStepKeeps, PTL DEF InstinctSpec
=============================================================================
