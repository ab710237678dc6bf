--------------------------- MODULE RunStateMachine ---------------------------
(***************************************************************************)
(* The abstract life of a run: internal/runmanager/statemachine.go.        *)
(*                                                                         *)
(* The package keeps the table of legal moves and asks it nowhere at run   *)
(* time: the Run Manager, the API and the budget sweep each write a status *)
(* with an UPDATE of their own.  This specification is the promise of the  *)
(* table, RunLifecycle is shown to keep it.                                *)
(*                                                                         *)
(* 'planning' is written and left inside one transaction, so an observer   *)
(* of committed rows sees a move that goes through it as one step.         *)
(***************************************************************************)
CONSTANT Runs

VARIABLE status   \* status of each run, as internal/model names it

RunStatuses ==
    {"pending", "planning", "dispatching", "running",
     "finalizing", "succeeded", "failed", "canceled"}

\* Legal next statuses of each status.
allowed ==
    [s \in RunStatuses |->
        CASE s = "pending"     -> {"planning", "canceled", "failed"}
          [] s = "planning"    -> {"dispatching", "canceled", "failed"}
          [] s = "dispatching" -> {"running", "canceled", "failed"}
          [] s = "running"     -> {"finalizing", "canceled", "failed"}
          [] s = "finalizing"  -> {"succeeded", "failed"}
          [] OTHER             -> {}]

IsTerminal(s) == s \in {"succeeded", "failed", "canceled"}

CanTransition(from, to) == from \in RunStatuses /\ to \in allowed[from]

\* A committed move: one edge, or two through the unseen 'planning'.
VisibleMove(from, to) ==
    \/ CanTransition(from, to)
    \/ CanTransition(from, "planning") /\ CanTransition("planning", to)

TypeOK == status \in [Runs -> RunStatuses \cup {"absent"}]

Init == status = [r \in Runs |-> "absent"]

\* Each run stays, is created, or moves; one statement may move several.
Next ==
    /\ status' \in [Runs -> RunStatuses \cup {"absent"}]
    /\ \A r \in Runs :
          \/ status'[r] = status[r]
          \/ status[r] = "absent" /\ status'[r] = "pending"
          \/ VisibleMove(status[r], status'[r])

Spec == Init /\ [][Next]_status
=============================================================================
