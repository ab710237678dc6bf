------------------------------ MODULE Planning ------------------------------
(***************************************************************************)
(* The durations the scheduler plans with. Manager.plan asks a predictor,  *)
(* inside its transaction: the ML service over HTTP, if one is configured, *)
(* and on any failure of it the heuristic, which reads the history of the  *)
(* repository. Then PlanFunc runs (Scheduler).                             *)
(***************************************************************************)
EXTENDS Scheduler

CONSTANTS
    Histories,  \* what the database may know of the repository
    Cold,       \* defaultFor: the duration of a test without a history
    MinAttempts \* executions that make a history

ASSUME PlanningAssumption ==
    /\ 0 \in Durations /\ Cold \in Nat /\ MinAttempts \in Nat \ {0}
    /\ \A h \in Histories : h.p50 \in [Tests -> Nat]

VARIABLES
    stage,    \* "ask" the service, "fallback", then "model" or "history"
    history   \* what the heuristic read. rows: tests with a row of teo.tests; attempts and p50 of the
              \* last 30 days; gone: rows of tests that no longer exist

planningVars == <<vars, stage, history>>

Unread == [rows |-> {}, attempts |-> [t \in Tests |-> 0], p50 |-> [t \in Tests |-> 0],
           gone |-> FALSE]

\* With a service (NewFallback) or without (the heuristic alone).
PlanningInit ==
    /\ Init /\ duration = [t \in Tests |-> 0]
    /\ stage \in {"ask", "fallback"}
    /\ history = Unread

UseDurations(d) ==
    /\ duration' = d
    /\ UNCHANGED <<input, phase, todo, totalMS, bins, load, exclusiveBin, plan, stored>>

\* Any durations, in the order of the tests: the service may have a model, or
\* answer with cold-start values of its own.
MLPredict == \E d \in [Tests -> Durations] :
    UseDurations(d) /\ stage' = "model" /\ UNCHANGED history

\* Seeded fault: the error of the service is returned.
FallbackFails == stage' = "failed" /\ UNCHANGED <<vars, history>>

\* A timeout, a status other than 200, a body that does not decode, or an
\* answer of another length.
Fallback == stage' = "fallback" /\ UNCHANGED <<vars, history>>

AskPredictor == stage = "ask" /\ (MLPredict \/ Fallback)

\* The rows of teo.tests joined with their recent executions. The percentile
\* of none is NULL, which does not scan into an int: one such row, of whatever
\* test of the repository, and nothing of the history is used.
loadStatsFails(h) == h.gone \/ \E t \in h.rows : h.attempts[t] = 0

\* A test with enough executions has a duration, the others are cold starts.
Predicted(h, t) ==
    IF t \in h.rows /\ h.attempts[t] >= MinAttempts THEN h.p50[t] ELSE Cold

coldOnly == [t \in Tests |-> Cold]

\* Every test is a cold start when the repository is unknown, the database
\* does not answer or loadStats fails.
Heuristic(h) ==
    /\ stage = "fallback"
    /\ \/ ~loadStatsFails(h) /\ UseDurations([t \in Tests |-> Predicted(h, t)])
       \/ UseDurations(coldOnly)
    /\ stage' = "history" /\ history' = h

PlanStep == stage \in {"model", "history"} /\ Next /\ UNCHANGED <<stage, history>>

PlanningNext == AskPredictor \/ (\E h \in Histories : Heuristic(h)) \/ PlanStep

PlanningSpec == PlanningInit /\ [][PlanningNext]_planningVars /\ WF_planningVars(PlanningNext)

(***************************************************************************)
(* Properties.                                                             *)
(***************************************************************************)

\* Whatever the service answers or the database knows, a plan is made, and a
\* replay of it ends too ("a down/slow ML service never breaks scheduling",
\* MLClient).
PlanArrives == <>(Planned /\ stored # NoPlan)

\* What heuristic_integration_test.go asks of the heuristic: a test with
\* enough recent executions is not a cold start.  It fails when the database
\* does, and as soon as the repository has a test without recent executions.
HistoryIsUsed ==
    stage = "history" /\ phase = "floor" =>
        \A t \in todo : (t \in history.rows /\ history.attempts[t] >= MinAttempts) =>
            duration[t] = history.p50[t]
=============================================================================
