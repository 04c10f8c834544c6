--------------------------- MODULE CircuitBreaker ---------------------------
(***************************************************************************)
(* The embed circuit breaker (internal/embed/circuit_breaker.go) together  *)
(* with the two kinds of goroutine that drive it: demand requests          *)
(* (LiteLLMClient.EmbedWithModel) and the background recovery prober       *)
(* (LiteLLMClient.StartBackgroundProbe / runProbe).                        *)
(*                                                                         *)
(* Every breaker method runs under cb.mu, so a method is one atomic piece  *)
(* of an action; what interleaves is the time between the admission of a   *)
(* caller (Allow, AllowProbe) and the report of its outcome.               *)
(*                                                                         *)
(* Clock readings are kept relative to the present: `failures[a]` is the   *)
(* number of failure timestamps that are `a` ticks old and still inside    *)
(* FailureWindow, and `wait` is nextProbeAt - now, kept at -1 once it is   *)
(* in the past.  `backoff` is the cooldown that consecutiveOpens stands    *)
(* for: 0 when consecutiveOpens is 0, OpenDuration when it is 1, and one   *)
(* more iteration of the loop in updateNextProbeTime for each further one. *)
(* Breakers with Enabled = FALSE never change state and are left out.      *)
(***************************************************************************)
EXTENDS Integers, FiniteSetsExt

CONSTANTS
    Clients,            \* concurrent EmbedWithModel calls
    Prober,             \* the background-probe goroutine
    FailureThreshold, FailureWindow,
    OpenDuration, BackoffMultiplier, BackoffCap,
    MaxAttempts         \* maxAttempts in EmbedWithModel (3 in the code)

ASSUME ConfigAssumption ==
    /\ Prober \notin Clients
    /\ FailureThreshold \in Nat \ {0}
    /\ FailureWindow \in Nat \ {0}
    /\ OpenDuration \in Nat \ {0}
    /\ BackoffMultiplier \in Nat \ {0}
    /\ BackoffCap \in Nat
    /\ OpenDuration =< BackoffCap
    /\ MaxAttempts \in Nat \ {0}

Callers == Clients \cup {Prober}

VARIABLES
    state,          \* cb.state, by the names CircuitState.String gives
    failures,       \* cb.failures, counted by age
    wait,           \* cb.nextProbeAt - now, -1 when past
    backoff,        \* cb.consecutiveOpens, as the cooldown it yields
    probeInFlight,  \* cb.probeInFlight
    pc,             \* where each caller is
    attempt,        \* the `attempt` loop variable of each demand request
    role,           \* history: how the running caller was admitted
    upstream        \* the embedding server

breaker == <<state, failures, wait, backoff, probeInFlight>>
vars == <<state, failures, wait, backoff, probeInFlight,
          pc, attempt, role, upstream>>

States == {"closed", "open", "half_open"}
Ages == 0 .. FailureWindow - 1
EmptyWindow == [a \in Ages |-> 0]
InWindow(w) == MapThenSumSet(LAMBDA a : w[a], Ages)

\* "warming": GET /v1/models answers but embeddings miss their deadline.
Upstreams == {"up", "warming", "down"}

TypeOK ==
    /\ state \in States
    /\ failures \in [Ages -> Nat]
    /\ wait \in -1 .. BackoffCap
    /\ backoff \in 0 .. BackoffCap
    /\ probeInFlight \in BOOLEAN
    /\ pc \in [Callers -> {"idle", "ready", "sent"}]
    /\ attempt \in [Callers -> 0 .. MaxAttempts - 1]
    /\ role \in [Callers -> {"none", "demand", "probe"}]
    /\ upstream \in Upstreams

Init ==
    /\ state = "closed"
    /\ failures = EmptyWindow
    /\ wait = -1
    /\ backoff = 0
    /\ probeInFlight = FALSE
    /\ pc = [c \in Callers |-> "idle"]
    /\ attempt = [c \in Callers |-> 0]
    /\ role = [c \in Callers |-> "none"]
    /\ upstream \in Upstreams

-----------------------------------------------------------------------------
(* The methods of the breaker.                                             *)

\* now.After(cb.nextProbeAt)
CooldownOver == wait < 0

\* The Open and HalfOpen arms shared by Allow and AllowProbe.
ClaimSlot ==
    /\ \/ state = "open" /\ CooldownOver
       \/ state = "half_open" /\ ~probeInFlight
    /\ state' = "half_open"
    /\ probeInFlight' = TRUE
    /\ UNCHANGED <<failures, wait, backoff>>

\* Refusals (errCircuitOpen) change nothing and are the stuttering of a caller.
Allow(c) ==
    \/ /\ state = "closed"
       /\ role' = [role EXCEPT ![c] = "demand"]
       /\ UNCHANGED breaker
    \/ /\ ClaimSlot
       /\ role' = [role EXCEPT ![c] = "probe"]

AllowProbe(c) ==
    /\ ClaimSlot
    /\ role' = [role EXCEPT ![c] = "probe"]

RecordSuccess ==
    /\ probeInFlight' = FALSE
    /\ IF state = "half_open"
       THEN /\ state' = "closed"
            /\ failures' = EmptyWindow
            /\ backoff' = 0
       ELSE UNCHANGED <<state, failures, backoff>>
    /\ UNCHANGED wait

\* Mutant of GrowBackoff: past the cap the cooldown starts over.
GrowBackoffRestart(d) == IF d * BackoffMultiplier > BackoffCap
                         THEN OpenDuration
                         ELSE d * BackoffMultiplier

\* One more iteration of the loop in updateNextProbeTime.
GrowBackoff(d) == IF d * BackoffMultiplier > BackoffCap
                  THEN BackoffCap
                  ELSE d * BackoffMultiplier

\* The state switch under `len(cb.failures) >= cb.cfg.FailureThreshold`.
Trip(window) ==
    \/ /\ state = "closed"
       /\ state' = "open"
       /\ backoff' = OpenDuration
       /\ wait' = OpenDuration
       /\ failures' = window
    \/ /\ state = "half_open"
       /\ state' = "open"
       /\ backoff' = GrowBackoff(backoff)
       /\ wait' = GrowBackoff(backoff)
       /\ failures' = EmptyWindow
    \/ /\ state = "open"
       /\ failures' = window
       /\ UNCHANGED <<state, wait, backoff>>

RecordFailure ==
    LET window == [failures EXCEPT ![0] = @ + 1]
    IN  /\ probeInFlight' = FALSE
        /\ IF InWindow(window) >= FailureThreshold
           THEN Trip(window)
           ELSE failures' = window /\ UNCHANGED <<state, wait, backoff>>

AbandonProbe ==
    /\ probeInFlight' = FALSE
    /\ state' = IF probeInFlight /\ state = "half_open" THEN "open" ELSE state
    /\ UNCHANGED <<failures, wait, backoff>>

-----------------------------------------------------------------------------
(* EmbedWithModel, from admission to the recorded outcome.                 *)

EmbedStart(c) ==
    /\ pc[c] = "idle"
    /\ Allow(c)
    /\ pc' = [pc EXCEPT ![c] = "ready"]
    /\ attempt' = [attempt EXCEPT ![c] = 0]
    /\ UNCHANGED upstream

\* The backoff timer fired (or this is the first attempt), ctx is alive.
EmbedSend(c) ==
    /\ pc[c] = "ready"
    /\ pc' = [pc EXCEPT ![c] = "sent"]
    /\ UNCHANGED <<state, failures, wait, backoff, probeInFlight,
                   attempt, role, upstream>>

\* The caller returns: its admission is over.
Return(c) ==
    /\ pc' = [pc EXCEPT ![c] = "idle"]
    /\ role' = [role EXCEPT ![c] = "none"]
    /\ UNCHANGED <<attempt, upstream>>

\* Mutant of EmbedCancel: the early return forgets the slot (#1003).
EmbedCancelLeaks(c) ==
    /\ pc[c] = "ready"
    /\ UNCHANGED breaker
    /\ Return(c)

\* ctx done in the backoff select or at the check before the attempt (or the
\* request could not be built): no Record method ran, the deferred call abandons.
EmbedCancel(c) ==
    /\ pc[c] = "ready"
    /\ AbandonProbe
    /\ Return(c)

EmbedSucceed(c) ==
    /\ pc[c] = "sent"
    /\ upstream = "up"
    /\ RecordSuccess
    /\ Return(c)

\* Retryable error with attempts left: `continue`.
EmbedRetry(c) ==
    /\ pc[c] = "sent"
    /\ upstream # "up"
    /\ attempt[c] < MaxAttempts - 1
    /\ attempt' = [attempt EXCEPT ![c] = @ + 1]
    /\ pc' = [pc EXCEPT ![c] = "ready"]
    /\ UNCHANGED <<state, failures, wait, backoff, probeInFlight,
                   role, upstream>>

\* A retryable error on the last attempt, or a non-retryable one: the request's
\* own context ended inside http.Do (whatever the server does), a 4xx, a body
\* that does not decode.
EmbedFail(c) ==
    /\ pc[c] = "sent"
    /\ RecordFailure
    /\ Return(c)

-----------------------------------------------------------------------------
(* The background prober.                                                  *)

ProbeTick ==
    /\ pc[Prober] = "idle"
    /\ AllowProbe(Prober)
    /\ pc' = [pc EXCEPT ![Prober] = "sent"]
    /\ UNCHANGED <<attempt, upstream>>

ProbeSucceed ==
    /\ pc[Prober] = "sent"
    /\ upstream # "down"
    /\ RecordSuccess
    /\ Return(Prober)

\* A failed GET /v1/models, or a panic turned into a failure by runProbe.
ProbeFail ==
    /\ pc[Prober] = "sent"
    /\ upstream = "down"
    /\ RecordFailure
    /\ Return(Prober)

-----------------------------------------------------------------------------
(* The environment: time passes, the server changes.                       *)

Tick ==
    /\ wait' = IF wait >= 0 THEN wait - 1 ELSE wait
    /\ failures' = [a \in Ages |-> IF a = 0 THEN 0 ELSE failures[a - 1]]
    /\ UNCHANGED <<state, backoff, probeInFlight, pc, attempt, role, upstream>>

UpstreamChanges ==
    /\ upstream' \in Upstreams \ {upstream}
    /\ UNCHANGED <<state, failures, wait, backoff, probeInFlight,
                   pc, attempt, role>>

ClientStep(c) ==
    \/ EmbedStart(c) \/ EmbedSend(c) \/ EmbedCancel(c)
    \/ EmbedSucceed(c) \/ EmbedRetry(c) \/ EmbedFail(c)

ProberStep == ProbeTick \/ ProbeSucceed \/ ProbeFail

Next ==
    \/ \E c \in Clients : ClientStep(c)
    \/ ProberStep
    \/ Tick
    \/ UpstreamChanges

Spec == Init /\ [][Next]_vars

\* The ticker fires and the probe has a 5 s timeout; every request ends by its
\* http.Client timeout; the clock runs.  Nothing promises that a request comes.
Fairness ==
    /\ WF_vars(ProberStep)
    /\ WF_vars(Tick)
    /\ \A c \in Clients :
         /\ WF_vars(EmbedSend(c))
         /\ WF_vars(EmbedSucceed(c) \/ EmbedRetry(c) \/ EmbedFail(c))

FairSpec == Spec /\ Fairness

-----------------------------------------------------------------------------
(* Properties.                                                             *)

Probing == {p \in Callers : role[p] = "probe"}

\* The probe slot is never leaked: while the breaker says a probe is in flight
\* (and therefore refuses everyone in HalfOpen) some admitted probe is still
\* running and will report.  This is the wedge that #1003 and the panic
\* recovery of runProbe were written against.
SlotHasHolder == probeInFlight => Probing # {}

\* The slot is taken only in HalfOpen: whichever caller's late report moves the
\* breaker to Open or Closed, it also frees the slot.
SlotOnlyHalfOpen == probeInFlight => state = "half_open"

\* HalfOpen is entered only past the cooldown and never carries one: after an
\* abandoned probe (HalfOpen back to Open) the next caller is admitted at once.
HalfOpenPastCooldown == state = "half_open" => CooldownOver

\* Until it closes again the breaker never shortens its cooldown: the failed
\* probes of one outage back off monotonically.
BackoffNeverShrinks ==
    [][state' # "closed" /\ state # "closed" => backoff' >= backoff]_vars

\* "Only allow one probe at a time" (circuit_breaker.go:102).
SingleProbe == \A p, q \in Probing : p = q

\* "Probe failed; reopen with exponential backoff" (circuit_breaker.go:220): a
\* caller that holds the slot and reports a failure leaves the breaker Open.
ProbeFailureReopens ==
    [][(ProbeFail \/ \E c \in Clients : role[c] = "probe" /\ EmbedFail(c))
        => state' = "open"]_vars

\* Recovery does not need query load: if the models endpoint stays healthy and
\* demand requests cease, the circuit closes for good.
RecoversWhenQuiet ==
    <>[](upstream # "down" /\ \A c \in Clients : pc[c] = "idle")
        => <>[](state = "closed")
=============================================================================
