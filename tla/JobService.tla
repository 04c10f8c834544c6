----------------------------- MODULE JobService -----------------------------
(***************************************************************************)
(* What a client of memory_ingest and memory_ingest_status may rely on,    *)
(* whatever queue and workers stand behind them: a job is offered, then    *)
(* refused or accepted; an accepted job ends once, with one verdict; the   *)
(* verdict can be read until it expires.                                   *)
(***************************************************************************)
CONSTANT Offers     \* the jobs clients may bring

VARIABLES
    phase,      \* where each job is
    answer      \* what a status query says of it

serviceVars == <<phase, answer>>

ServiceInit ==
    /\ phase = [j \in Offers |-> "new"]
    /\ answer = [j \in Offers |-> "none"]

Moves(j, from, to, says) ==
    /\ phase[j] = from
    /\ phase' = [phase EXCEPT ![j] = to]
    /\ answer' = [answer EXCEPT ![j] = says]

\* The status can be read before the client knows whether the job was taken.
Offer(j) == Moves(j, "new", "offered", "pending")
Refuse(j) == Moves(j, "offered", "refused", "none")
Accept(j) == Moves(j, "offered", "owed", "pending")
End(j) == \E verdict \in {"done", "failed"} : Moves(j, "owed", "ended", verdict)

\* Several results may expire at once; no other answer changes.
Expire(S) ==
    /\ \A j \in S : phase[j] = "ended"
    /\ phase' = [j \in Offers |-> IF j \in S THEN "expired" ELSE phase[j]]
    /\ answer' = [j \in Offers |-> IF j \in S THEN "none" ELSE answer[j]]

ServiceNext ==
    \/ \E j \in Offers : Offer(j) \/ Refuse(j) \/ Accept(j) \/ End(j)
    \/ \E S \in SUBSET Offers : Expire(S)

ServiceSpec == ServiceInit /\ [][ServiceNext]_serviceVars
=============================================================================
