----------------------------- MODULE CheckRuns -----------------------------
(***************************************************************************)
(* The GitHub check run of a run. A Run Manager replica commits a step of  *)
(* the run and only then, holding no lock, reads a snapshot of the row and *)
(* calls its observers; CheckObserver creates the check run the first time *)
(* and later updates or completes it. A cancel and the budget sweep end a  *)
(* run without calling the observers; so do the replays of preempted       *)
(* shards.                                                                 *)
(*                                                                         *)
(* One run: observers of different runs share no state. The transaction of *)
(* tryHandle is one step here, but for finalize, which reads the shards    *)
(* and writes the verdict in two statements; RunLifecycle has them all.    *)
(***************************************************************************)
EXTENDS Integers, Sequences, FiniteSets

CONSTANTS
    Replicas,    \* processes of the Run Manager a deployment may have
    Shards,
    FaultLimit   \* bound: failing reads, writes and calls, lost answers, crashes

ASSUME CheckRunsAssumption ==
    /\ Replicas # {} /\ IsFiniteSet(Replicas) /\ IsFiniteSet(Shards)
    /\ FaultLimit \in Nat

VARIABLES
    deployed,   \* the replicas of this deployment
    status,     \* teo.runs.status
    shard,      \* shard[s]: teo.shards.status, "none" if there is no row
    draining,   \* preempted shards whose worker still writes its outcome
    marked,     \* shards with meta.rescheduled_at
    sweep,      \* sweep[m]: shards of m's reschedule pass that are left
    checkId,    \* teo.runs.github_check_run_id, 0 for NULL
    checks,     \* check runs of the run at GitHub; a check run's id is its index
    rep,        \* rep[m]: where replica m is
    decided,    \* was the run ended by finalize
    after,      \* shards whose outcome was written after finalize read them
                \* (history)
    faults

rows == <<shard, draining, marked, sweep>>
checksVars == <<deployed, status, rows, checkId, checks, rep, decided, after, faults>>

Scannable == {"pending", "dispatching", "finalizing"}
Ended == {"succeeded", "failed", "cancelled"}
NoReport == [total |-> 0, passed |-> 0, failed |-> 0]
Idle == [pc |-> "idle", scanned |-> "", status |-> "", id |-> 0]
Fault == faults < FaultLimit /\ faults' = faults + 1

ShardStatuses == {"pending", "running", "succeeded", "failed", "lost", "preempted"}
RunStatuses == Scannable \cup Ended \cup {"running"}
CheckStates ==
    [status : {"in_progress", "completed"}, conclusion : {"", "success", "failure"},
     report : [total : Nat, passed : Int, failed : Nat]]
RepStates ==
    [pc : {"idle", "handle", "verdict", "snapshot", "create", "persist", "update"},
     scanned : Scannable \cup {""}, status : RunStatuses \cup {""}, id : Nat]

ChecksTypeOK ==
    /\ deployed \in SUBSET Replicas
    /\ status \in RunStatuses
    /\ shard \in [Shards -> ShardStatuses \cup {"none"}]
    /\ draining \in SUBSET Shards /\ marked \in SUBSET Shards
    /\ sweep \in [Replicas -> SUBSET Shards]
    /\ checkId \in 0..Len(checks)
    /\ checks \in Seq(CheckStates)
    /\ rep \in [Replicas -> RepStates]
    /\ decided \in BOOLEAN /\ after \in SUBSET Shards /\ faults \in 0..FaultLimit

ChecksInit ==
    /\ deployed \in SUBSET Replicas /\ deployed # {}
    /\ status = "pending" /\ shard = [s \in Shards |-> "none"]
    /\ draining = {} /\ marked = {} /\ sweep = [m \in Replicas |-> {}]
    /\ checkId = 0 /\ checks = <<>>
    /\ rep = [m \in Replicas |-> Idle]
    /\ decided = FALSE /\ after = {} /\ faults = 0

(***************************************************************************)
(* The run.                                                                *)
(***************************************************************************)
Scan(m) ==
    /\ rep[m].pc = "idle" /\ sweep[m] = {} /\ status \in Scannable
    /\ rep' = [rep EXCEPT ![m] = [Idle EXCEPT !.pc = "handle", !.scanned = status]]
    /\ UNCHANGED <<deployed, status, rows, checkId, checks, decided, after, faults>>

\* plan inserts the rows of its assignments, here some of Shards; the others
\* are left for replays.
InsertShards ==
    \E P \in SUBSET Shards \ {{}} :
        shard' = [s \in Shards |-> IF s \in P THEN "pending" ELSE shard[s]]

\* A transaction that holds the advisory lock of the run between two steps.
LockTaken == \E n \in deployed : rep[n].pc = "verdict"

\* plan: 'dispatching' with the shards, or 'failed' if there is no manifest;
\* the UPDATEs match nothing if the run has left 'pending'.
Plan ==
    \/ /\ InsertShards
       /\ status' = IF status = "pending" THEN "dispatching" ELSE status
    \/ /\ status' = IF status \in Ended THEN status ELSE "failed"
       /\ UNCHANGED shard

\* tryHandle's branches for a scanned 'pending' and 'dispatching'. If the run
\* has rows, those of plan violate UNIQUE(run_id, index), and the commit fails.
TryHandle(m) ==
    /\ rep[m].pc = "handle" /\ ~LockTaken
    /\ \/ /\ rep[m].scanned = "pending"
          /\ \A s \in Shards : shard[s] = "none"
          /\ Plan
          /\ rep' = [rep EXCEPT ![m] = [Idle EXCEPT !.pc = "snapshot"]]
       \/ /\ rep[m].scanned = "pending"
          /\ \E s \in Shards : shard[s] # "none"
          /\ rep' = [rep EXCEPT ![m] = Idle]
          /\ UNCHANGED <<status, shard>>
       \/ /\ rep[m].scanned = "dispatching"
          /\ status' = IF status = "dispatching" THEN "running" ELSE status
          /\ rep' = [rep EXCEPT ![m] = [Idle EXCEPT !.pc = "snapshot"]]
          /\ UNCHANGED shard
    /\ UNCHANGED <<deployed, draining, marked, sweep, checkId, checks, decided, after, faults>>

Verdict == IF \E s \in Shards : shard[s] \in {"failed", "lost"} THEN "failed" ELSE "succeeded"

\* finalize: SELECT EXISTS a failed or lost shard.
ReadVerdict(m) ==
    /\ rep[m].pc = "handle" /\ rep[m].scanned = "finalizing" /\ ~LockTaken
    /\ rep' = [rep EXCEPT ![m] = [Idle EXCEPT !.pc = "verdict", !.status = Verdict]]
    /\ after' = IF status = "finalizing" THEN {} ELSE after
    /\ UNCHANGED <<deployed, status, rows, checkId, checks, decided, faults>>

\* finalize: the UPDATE guarded by 'finalizing', and the commit.
CommitVerdict(m) ==
    /\ rep[m].pc = "verdict"
    /\ status' = IF status = "finalizing" THEN rep[m].status ELSE status
    /\ decided' = (decided \/ status = "finalizing")
    /\ rep' = [rep EXCEPT ![m] = [Idle EXCEPT !.pc = "snapshot"]]
    /\ UNCHANGED <<deployed, rows, checkId, checks, after, faults>>

\* The lock is taken or the transaction fails; there is no notification.
HandleFails(m) ==
    /\ rep[m].pc \in {"handle", "verdict"}
    /\ \/ rep[m].pc = "handle" /\ LockTaken /\ UNCHANGED faults
       \/ Fault
    /\ rep' = [rep EXCEPT ![m] = Idle]
    /\ UNCHANGED <<deployed, status, rows, checkId, checks, decided, after>>

\* reschedulePreempted's SELECT, for one shard.
SweepScan(m, s) ==
    /\ rep[m].pc = "idle"
    /\ shard[s] \in {"preempted", "lost"} /\ s \notin marked
    /\ status \in {"dispatching", "running"}
    /\ s \notin sweep[m]
    /\ sweep' = [sweep EXCEPT ![m] = @ \cup {s}]
    /\ UNCHANGED <<deployed, status, shard, draining, marked, checkId, checks, rep, decided,
                   after, faults>>

\* rescheduleOne reads neither the shard's status nor its marker nor the run's
\* status again: a pending row for the tests that are left, or 'succeeded' if
\* none is; or the lock is taken or a statement fails.
RescheduleOne(m, s) ==
    /\ rep[m].pc = "idle" /\ s \in sweep[m]
    /\ sweep' = [sweep EXCEPT ![m] = @ \ {s}]
    /\ \/ /\ ~LockTaken
          /\ marked' = marked \cup {s}
          /\ \/ \E n \in Shards : /\ shard[n] = "none"
                                 /\ shard' = [shard EXCEPT ![n] = "pending"]
             \/ shard' = [shard EXCEPT ![s] = "succeeded"]
       \/ UNCHANGED <<shard, marked>>
    /\ UNCHANGED <<deployed, status, draining, checkId, checks, rep, decided, after, faults>>

\* A shard is claimed.
Claim(s) ==
    /\ shard[s] = "pending"
    /\ shard' = [shard EXCEPT ![s] = "running"]
    /\ UNCHANGED <<deployed, status, draining, marked, sweep, checkId, checks, rep, decided,
                   after, faults>>

\* beginDrain: the worker gives the shard up. It may have looked at draining
\* before, and then still writes an outcome.
Preempt(s) ==
    /\ shard[s] = "running"
    /\ shard' = [shard EXCEPT ![s] = "preempted"]
    /\ draining' \in {draining, draining \cup {s}}
    /\ UNCHANGED <<deployed, status, marked, sweep, checkId, checks, rep, decided, after,
                   faults>>

\* executeShard's last UPDATE, by id: it also overwrites 'preempted' and what
\* the sweep has written since.
Finish(s) ==
    /\ shard[s] = "running" \/ s \in draining
    /\ \E o \in {"succeeded", "failed"} : shard' = [shard EXCEPT ![s] = o]
    /\ draining' = draining \ {s}
    /\ after' = IF decided \/ LockTaken THEN after \cup {s} ELSE after
    /\ UNCHANGED <<deployed, status, marked, sweep, checkId, checks, rep, decided, faults>>

WorkerStep(s) == Claim(s) \/ Preempt(s) \/ Finish(s)

\* The writer of 'finalizing' that finalize waits for; src/ has none, so
\* nothing is supposed of the shards when it writes.
StartFinalizing ==
    /\ status = "running"
    /\ status' = "finalizing"
    /\ UNCHANGED <<deployed, rows, checkId, checks, rep, decided, after, faults>>

Cancel ==
    /\ status \in {"pending", "dispatching", "running"}
    /\ status' = "cancelled"
    /\ UNCHANGED <<deployed, rows, checkId, checks, rep, decided, after, faults>>

EnforceBudget ==
    /\ status \in {"dispatching", "running"}
    /\ status' = "failed"
    /\ UNCHANGED <<deployed, rows, checkId, checks, rep, decided, after, faults>>

(***************************************************************************)
(* notifyObservers: the snapshot, then the call it leads to.               *)
(***************************************************************************)
ReadSnapshot(m) ==
    /\ rep[m].pc = "snapshot"
    /\ \/ /\ rep' = [rep EXCEPT ![m] =
                       [Idle EXCEPT !.pc = IF checkId = 0 THEN "create" ELSE "update",
                                    !.status = status, !.id = checkId]]
          /\ UNCHANGED faults
       \/ Fault /\ rep' = [rep EXCEPT ![m] = Idle]
    /\ UNCHANGED <<deployed, status, rows, checkId, checks, decided, after>>

\* The check run is created 'in_progress' whatever the snapshot says. If the
\* answer is lost it exists, and nobody knows its id.
Create(m) ==
    LET new == [status |-> "in_progress", conclusion |-> "", report |-> NoReport] IN
    /\ rep[m].pc = "create"
    /\ \/ /\ checks' = Append(checks, new)
          /\ rep' = [rep EXCEPT ![m] = [Idle EXCEPT !.pc = "persist", !.id = Len(checks) + 1]]
          /\ UNCHANGED faults
       \/ /\ Fault
          /\ checks' \in {checks, Append(checks, new)}
          /\ rep' = [rep EXCEPT ![m] = Idle]
    /\ UNCHANGED <<deployed, status, rows, checkId, decided, after>>

PersistDropped(m) ==
    /\ rep[m].pc = "persist"
    /\ rep' = [rep EXCEPT ![m] = Idle]
    /\ UNCHANGED <<deployed, status, rows, checkId, checks, decided, after, faults>>
Persist(m) ==
    /\ rep[m].pc = "persist"
    /\ \/ checkId' = rep[m].id /\ UNCHANGED faults
       \/ Fault /\ UNCHANGED checkId
    /\ rep' = [rep EXCEPT ![m] = Idle]
    /\ UNCHANGED <<deployed, status, rows, checks, decided, after>>

\* The API writes 'cancelled', which model.RunCancelled ("canceled") is not.
isTerminalSucceeded(s) == s = "succeeded"
isTerminal(s) == s \in {"succeeded", "failed"}

ConclusionSuccess(s) == "success"
Conclusion(s) == IF s = "failed" THEN "failure" ELSE "success"

\* The counts of the summary; the rows are read after the snapshot. A shard
\* that was replayed stays 'preempted' and counts as lost.
shardCounts ==
    LET count(st) == Cardinality({s \in Shards : shard[s] \in st})
        lost == count({"lost", "preempted"}) IN
    [total |-> count(ShardStatuses),
     passed |-> count({"succeeded", "failed"}) + lost - count({"failed"}) - lost,
     failed |-> count({"failed"})]

\* GitHub reopens a completed check run that is updated to 'in_progress'. The
\* counts of one in progress are not kept here.
Updated(s, counts) ==
    IF isTerminal(s)
    THEN [status |-> "completed", conclusion |-> Conclusion(s), report |-> counts]
    ELSE [status |-> "in_progress", conclusion |-> "", report |-> NoReport]

\* If the rows cannot be read, zeros are posted.
Update(m) ==
    /\ rep[m].pc = "update"
    /\ \/ /\ checks' = [checks EXCEPT ![rep[m].id] = Updated(rep[m].status, shardCounts)]
          /\ UNCHANGED faults
       \/ /\ checks' = [checks EXCEPT ![rep[m].id] = Updated(rep[m].status, NoReport)]
          /\ Fault
       \/ Fault /\ UNCHANGED checks
    /\ rep' = [rep EXCEPT ![m] = Idle]
    /\ UNCHANGED <<deployed, status, rows, checkId, decided, after>>

\* The process dies; its list of shards to replay goes with it.
Crash(m) ==
    /\ rep[m].pc # "idle" \/ sweep[m] # {}
    /\ Fault
    /\ rep' = [rep EXCEPT ![m] = Idle]
    /\ sweep' = [sweep EXCEPT ![m] = {}]
    /\ UNCHANGED <<deployed, status, shard, draining, marked, checkId, checks, decided, after>>

\* What a replica does with a run of its scan, and once that is committed. An
\* error of the latter is logged, and the transition stands.
Transition(m) == TryHandle(m) \/ ReadVerdict(m) \/ CommitVerdict(m)
Notify(m) == ReadSnapshot(m) \/ Create(m) \/ Persist(m) \/ Update(m)

ChecksNext ==
    \/ \E m \in deployed : \/ Scan(m) \/ Transition(m) \/ HandleFails(m)
                           \/ Notify(m) \/ Crash(m)
    \/ \E m \in deployed, s \in Shards : SweepScan(m, s) \/ RescheduleOne(m, s)
    \/ \E s \in Shards : WorkerStep(s)
    \/ StartFinalizing \/ Cancel \/ EnforceBudget

ChecksSpec == ChecksInit /\ [][ChecksNext]_checksVars

\* The loop of a replica goes on; users, workers and the budget may not act.
ChecksFairSpec ==
    ChecksSpec /\ \A m \in Replicas :
        WF_checksVars(m \in deployed /\ (Scan(m) \/ Transition(m) \/ Notify(m)))

(***************************************************************************)
(* Properties.                                                             *)
(***************************************************************************)

\* A completed check run says of the run what its row says, and one that says
\* "success" reports a failed shard only if the shard's worker wrote that after
\* finalize had read the shards: the verdict, the snapshot and the counts are
\* read at three different times (finalize, snapshot, finalSummary), while
\* workers write and the sweep replays.
CompletedIsTrue ==
    \A i \in DOMAIN checks : checks[i].status = "completed" =>
        /\ status = IF checks[i].conclusion = "success" THEN "succeeded" ELSE "failed"
        /\ checks[i].conclusion = "success" => checks[i].report.failed <= Cardinality(after)

\* The run has at most one check run per replica, and one more for every fault:
\* replicas that read the row before either stored its id create one each
\* (OnRunStateChanged), but none does so twice.
FewCheckRuns == Len(checks) <= Cardinality(deployed) + faults

\* With one replica and without faults, a run that finalize ends has a check
\* run, which is completed and stays so.
VerdictArrives ==
    (Cardinality(deployed) = 1 /\ decided) ~>
        [](faults > 0 \/ (checkId # 0 /\ checks[checkId].status = "completed"))

(***************************************************************************)
(* Inductive invariants.                                                   *)
(***************************************************************************)

\* A run is given "succeeded" by one replica, which holds the lock, and shards
\* that fail afterwards are in `after`; an id is one of GitHub's.
Failing == {s \in Shards : shard[s] \in {"failed", "lost"}}
VerdictInv ==
    /\ status = "succeeded" => decided /\ Failing \subseteq after
    /\ \A m \in deployed : rep[m].pc = "verdict" =>
         /\ rep[m].status \in {"succeeded", "failed"}
         /\ status = "finalizing" /\ rep[m].status = "succeeded" => Failing \subseteq after
         /\ \A n \in deployed : rep[n].pc = "verdict" => n = m
    /\ \A m \in deployed :
         /\ rep[m].pc = "verdict" \/ rep[m].scanned = "finalizing" =>
              status \in {"finalizing", "succeeded", "failed"}
         /\ rep[m].pc \in {"persist", "update"} => rep[m].id \in 1..Len(checks)
         /\ rep[m].pc = "update" /\ isTerminal(rep[m].status) => status = rep[m].status

\* Until an id is stored, a check run that no fault accounts for is about to be
\* stored by its replica; afterwards only the replicas about to create one add to
\* their number.
At(pc) == {m \in deployed : rep[m].pc = pc}
CreateInv ==
    IF checkId = 0 THEN Len(checks) <= faults + Cardinality(At("persist"))
    ELSE Len(checks) + Cardinality(At("create")) <= faults + Cardinality(deployed)

CheckRunsInv == ChecksTypeOK /\ VerdictInv /\ CompletedIsTrue /\ CreateInv
=============================================================================
