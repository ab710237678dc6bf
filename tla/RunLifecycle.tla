---------------------------- MODULE RunLifecycle ----------------------------
(***************************************************************************)
(* The life of the rows of teo.runs and teo.shards: the API that creates   *)
(* and cancels runs (internal/runsvc), the replicas of the Run Manager     *)
(* that plan, dispatch, finalize and time them out and replay preempted    *)
(* shards (internal/runmanager), and, at the level of the status column,   *)
(* the workers that claim, finish and give up shards (internal/worker).    *)
(* Which tests a shard has is ShardExecution's matter.                     *)
(*                                                                         *)
(* A variable holds COMMITTED rows.  A manager's transaction is its open   *)
(* steps in tx[m], applied by the commit action; a rollback or a crash of  *)
(* the process drops them.  The two locks that matter are the advisory     *)
(* lock per run, lock[r], and the row lock a plan transaction takes when   *)
(* its first UPDATE matches (RowLocked).                                   *)
(***************************************************************************)
EXTENDS Naturals, FiniteSets

CONSTANTS
    Runs,        \* run ids
    Managers,    \* replicas of the Run Manager
    Nobody,      \* holder of a free advisory lock
    MaxShards,   \* largest number of assignments a plan may have
    MaxRows,     \* bound: shard rows of a run, replays included
    BatchLimit,  \* LIMIT of the reconciliation scan
    SweepLimit,  \* LIMIT of the reschedule scan
    UseNATS,     \* is JetStream wired (m.JS # nil)
    Finalizer,   \* does a component outside src/ write 'finalizing'
    OldRuns,     \* has the repository runs, other than Runs, with failed tests
    FaultLimit,  \* bound: number of rollbacks, crashes and lost inserts
    NoticeLimit  \* bound: number of shards given up to a spot notice

ASSUME RunsAssumption == IsFiniteSet(Runs)
ASSUME ManagersAssumption == Nobody \notin Managers
ASSUME MaxShardsAssumption ==
    MaxShards \in Nat \ {0} /\ MaxRows \in Nat /\ MaxShards <= MaxRows
ASSUME BoundsAssumption ==
    /\ {BatchLimit, SweepLimit} \subseteq Nat \ {0}
    /\ {FaultLimit, NoticeLimit} \subseteq Nat
ASSUME ConfigAssumption == {UseNATS, Finalizer, OldRuns} \subseteq BOOLEAN

VARIABLES
    status,     \* runs.status, "absent" before the INSERT
    createdAt,  \* runs.created_at
    budget,     \* runs.budget_seconds IS NOT NULL
    overdue,    \* now() - started_at > budget_seconds
    inserting,  \* Create is between its two INSERTs
    manifest,   \* the run has a row in teo.run_plans
    planSize,   \* number of assignments of runs.meta.computed_plan, 0 if none
    shard,      \* shards.status by (run, index), "none" if there is no row
    stream,     \* dispatch messages in the JetStream work queue
    marked,     \* shards with meta.rescheduled_at
    late,       \* preempted shards whose worker still writes its outcome
    notices,    \* shards given up to a spot notice so far
    onRecord,   \* shards that had failed when their run became 'finalizing'
                \* (history)
    lock,       \* pg_try_advisory_xact_lock holder of each run
    todo,       \* work list of a reconciliation pass: (run, scanned status)
    sweep,      \* work list of a reschedule pass
    tx,         \* open transaction of each manager
    faults      \* rollbacks, crashes and lost inserts so far

runVars    == <<status, createdAt, budget, overdue>>
intake     == <<inserting, manifest>>
replayVars == <<marked, late, notices, onRecord>>
shardVars  == <<planSize, shard, stream, replayVars>>
mgrVars    == <<lock, todo, sweep, tx>>
vars       == <<runVars, intake, shardVars, mgrVars, faults>>

RunStatuses ==
    {"pending", "planning", "dispatching", "running",
     "finalizing", "succeeded", "failed", "cancelled"}

\* The CHECK of teo.shards.  Nothing under src/ writes 'lost'.
ShardStatuses ==
    {"pending", "running", "succeeded", "failed", "lost", "preempted"}

Terminal  == {"succeeded", "failed", "cancelled"}
Scannable == {"pending", "dispatching", "finalizing"}

Indexes  == 0 .. MaxRows - 1
ShardIds == Runs \X Indexes

TxSteps == {"plan", "insert", "planFailed",
            "dispatch", "published", "finalize", "verdict", "reschedule"}

\* A manager with no open transaction.
NoTx == [step |-> "none", run |-> Nobody, index |-> 0,
         moved |-> FALSE, anyFailed |-> FALSE]

Transactions ==
    [step : TxSteps, run : Runs, index : Indexes,
     moved : BOOLEAN, anyFailed : BOOLEAN]

TypeOK ==
    /\ status \in [Runs -> RunStatuses \cup {"absent"}]
    /\ createdAt \in [Runs -> Nat]
    /\ budget \in [Runs -> BOOLEAN]
    /\ overdue \in [Runs -> BOOLEAN]
    /\ inserting \in [Runs -> BOOLEAN]
    /\ manifest \in [Runs -> BOOLEAN]
    /\ planSize \in [Runs -> 0 .. MaxShards]
    /\ shard \in [ShardIds -> ShardStatuses \cup {"none"}]
    /\ stream \subseteq ShardIds
    /\ marked \subseteq ShardIds
    /\ late \subseteq ShardIds
    /\ notices \in Nat
    /\ onRecord \subseteq ShardIds
    /\ lock \in [Runs -> Managers \cup {Nobody}]
    /\ todo \in [Managers -> SUBSET (Runs \X Scannable)]
    /\ sweep \in [Managers -> SUBSET ShardIds]
    /\ tx \in [Managers -> Transactions \cup {NoTx}]
    /\ faults \in Nat

Init ==
    /\ status = [r \in Runs |-> "absent"]
    /\ createdAt = [r \in Runs |-> 0]
    /\ budget = [r \in Runs |-> FALSE]
    /\ overdue = [r \in Runs |-> FALSE]
    /\ inserting = [r \in Runs |-> FALSE]
    /\ manifest = [r \in Runs |-> FALSE]
    /\ planSize = [r \in Runs |-> 0]
    /\ shard = [k \in ShardIds |-> "none"]
    /\ stream = {}
    /\ marked = {} /\ late = {} /\ notices = 0 /\ onRecord = {}
    /\ lock = [r \in Runs |-> Nobody]
    /\ todo = [m \in Managers |-> {}]
    /\ sweep = [m \in Managers |-> {}]
    /\ tx = [m \in Managers |-> NoTx]
    /\ faults = 0

-----------------------------------------------------------------------------
(* The API: Create, rerunFailed, Cancel.                                   *)

Existing == {r \in Runs : status[r] # "absent"}

Now == Cardinality(Existing) + 1

\* Create's INSERT INTO teo.runs; the manifest is inserted by a later,
\* separate statement.  withBudget: the request carries a budget.
CreateInsertRun(r, withBudget) ==
    /\ status[r] = "absent"
    /\ status' = [status EXCEPT ![r] = "pending"]
    /\ createdAt' = [createdAt EXCEPT ![r] = Now]
    /\ budget' = [budget EXCEPT ![r] = withBudget]
    /\ inserting' = [inserting EXCEPT ![r] = TRUE]
    /\ UNCHANGED <<overdue, manifest, shardVars, mgrVars, faults>>

\* Create's INSERT INTO teo.run_plans.
CreateInsertManifest(r) ==
    /\ inserting[r]
    /\ inserting' = [inserting EXCEPT ![r] = FALSE]
    /\ manifest' = [manifest EXCEPT ![r] = TRUE]
    /\ UNCHANGED <<runVars, shardVars, mgrVars, faults>>

\* The same statement fails: Create drops the error and answers normally.
CreateLoseManifest(r) ==
    /\ inserting[r]
    /\ faults < FaultLimit
    /\ inserting' = [inserting EXCEPT ![r] = FALSE]
    /\ faults' = faults + 1
    /\ UNCHANGED <<runVars, manifest, shardVars, mgrVars>>

\* The GraphQL rerunFailed mutation: both INSERTs in one transaction, for a
\* parent some shard of which has executed a test that failed.  No budget.
RerunFailed(r) ==
    /\ status[r] = "absent"
    /\ OldRuns \/ \E k \in ShardIds : shard[k] \notin {"none", "pending"}
    /\ status' = [status EXCEPT ![r] = "pending"]
    /\ createdAt' = [createdAt EXCEPT ![r] = Now]
    /\ manifest' = [manifest EXCEPT ![r] = TRUE]
    /\ UNCHANGED <<budget, overdue, inserting, shardVars, mgrVars, faults>>

\* A plan transaction whose first UPDATE matched holds the row of r.
RowLocked(r) ==
    \E m \in Managers :
        /\ tx[m].run = r
        /\ tx[m].step \in {"plan", "insert", "planFailed"}
        /\ tx[m].moved

\* Cancel's one guarded UPDATE, which waits for the row lock.
Cancel(r) ==
    /\ ~RowLocked(r)
    /\ status[r] \in {"pending", "planning", "dispatching", "running"}
    /\ status' = [status EXCEPT ![r] = "cancelled"]
    /\ UNCHANGED <<createdAt, budget, overdue, intake, shardVars, mgrVars,
                   faults>>

\* Time passes the budget of a started run.
Deadline(r) ==
    /\ budget[r] /\ ~overdue[r]
    /\ status[r] \in {"dispatching", "running", "finalizing"}
    /\ overdue' = [overdue EXCEPT ![r] = TRUE]
    /\ UNCHANGED <<status, createdAt, budget, intake, shardVars, mgrVars,
                   faults>>

-----------------------------------------------------------------------------
(* The Run Manager: one goroutine per replica, which runs a reconciliation *)
(* pass (scan, then tryHandle for each row of the scan), a budget sweep or *)
(* a reschedule pass (scan, then rescheduleOne for each row).              *)

Idle(m) == tx[m].step = "none"

\* Manager.Run waits for a tick.
Waiting(m) == Idle(m) /\ todo[m] = {} /\ sweep[m] = {}

\* What a SELECT with a LIMIT may return.
IsBatch(batch, eligible, limit) ==
    \/ batch = eligible /\ Cardinality(batch) <= limit
    \/ Cardinality(batch) = limit

ScanEligible == {r \in Runs : status[r] \in Scannable}

\* reconcileOnce's SELECT: the BatchLimit oldest runs that need attention,
\* each with the status it has now.
Scan(m) ==
    /\ Waiting(m)
    /\ ScanEligible # {}
    /\ \E batch \in SUBSET ScanEligible :
          /\ IsBatch(batch, ScanEligible, BatchLimit)
          /\ \A r \in batch, q \in ScanEligible \ batch :
                createdAt[r] <= createdAt[q]
          /\ todo' = [todo EXCEPT ![m] = {<<r, status[r]>> : r \in batch}]
    /\ UNCHANGED <<runVars, intake, shardVars, lock, sweep, tx, faults>>

\* The work list is handled in the order of created_at.
IsNext(m, t) ==
    /\ Idle(m)
    /\ t \in todo[m]
    /\ \A u \in todo[m] : createdAt[t[1]] <= createdAt[u[1]]

\* tryHandle: the advisory lock of the run is taken, by some manager.
SkipLocked(m, t) ==
    /\ IsNext(m, t)
    /\ lock[t[1]] # Nobody
    /\ todo' = [todo EXCEPT ![m] = @ \ {t}]
    /\ UNCHANGED <<runVars, intake, shardVars, lock, sweep, tx, faults>>

\* tryHandle takes the lock and enters the branch of the SCANNED status.
BeginTx(m, t, first, moves) ==
    /\ IsNext(m, t)
    /\ lock[t[1]] = Nobody
    /\ todo' = [todo EXCEPT ![m] = @ \ {t}]
    /\ lock' = [lock EXCEPT ![t[1]] = m]
    /\ tx' = [tx EXCEPT ![m] = [step |-> first, run |-> t[1], index |-> 0,
                                moved |-> moves, anyFailed |-> FALSE]]
    /\ UNCHANGED <<runVars, intake, shardVars, sweep, faults>>

\* Seeded fault: the lock outlives its transaction.
EndTxKeepsLock(m) ==
    /\ lock' = lock
    /\ tx' = [tx EXCEPT ![m] = NoTx]

\* The end of a transaction releases its locks.
EndTx(m) ==
    /\ lock' = [r \in Runs |-> IF lock[r] = m THEN Nobody ELSE lock[r]]
    /\ tx' = [tx EXCEPT ![m] = NoTx]

\* plan: UPDATE to 'planning', guarded by 'pending' (moved: it matched).
BeginPlan(m, t) ==
    /\ t[2] = "pending"
    /\ BeginTx(m, t, "plan", status[t[1]] = "pending")

\* Seeded fault: a missing manifest is taken for an empty one.
LoadManifestUnchecked(m) ==
    /\ tx[m].step = "plan"
    /\ tx' = [tx EXCEPT ![m].step = "insert"]
    /\ UNCHANGED <<runVars, intake, shardVars, lock, todo, sweep, faults>>

\* plan: load the manifest of teo.run_plans.
LoadManifest(m) ==
    /\ tx[m].step = "plan"
    /\ tx' = [tx EXCEPT ![m].step =
                 IF manifest[tx[m].run] THEN "insert" ELSE "planFailed"]
    /\ UNCHANGED <<runVars, intake, shardVars, lock, todo, sweep, faults>>

\* UNIQUE(run_id, index): some index of a plan of n assignments is taken.
UniqueViolation(r, n) == \E i \in 0 .. n - 1 : shard[<<r, i>>] # "none"

\* plan: meta.computed_plan, the INSERTs of the shards, and 'dispatching' if
\* the row is 'planning', which it is for this transaction only when it moved
\* it; then the commit.
CommitPlan(m, n) ==
    LET r == tx[m].run IN
    /\ tx[m].step = "insert"
    /\ ~UniqueViolation(r, n)
    /\ planSize' = [planSize EXCEPT ![r] = n]
    /\ shard' = [k \in ShardIds |->
                    IF k[1] = r /\ k[2] < n THEN "pending" ELSE shard[k]]
    /\ status' = IF tx[m].moved
                 THEN [status EXCEPT ![r] = "dispatching"]
                 ELSE status
    /\ EndTx(m)
    /\ UNCHANGED <<createdAt, budget, overdue, intake, stream, replayVars,
                   todo, sweep, faults>>

\* plan: an INSERT of a shard fails.  The transaction is aborted, so the
\* UPDATE to 'failed' and the commit fail too: nothing is written.
AbortPlan(m, n) ==
    /\ tx[m].step = "insert"
    /\ UniqueViolation(tx[m].run, n)
    /\ EndTx(m)
    /\ UNCHANGED <<runVars, intake, shardVars, todo, sweep, faults>>

\* tryHandle: plan returned an error that left the transaction usable; the
\* UPDATE to 'failed' spares terminal runs.
CommitPlanFailed(m) ==
    LET r == tx[m].run IN
    /\ tx[m].step = "planFailed"
    /\ status' = IF status[r] \notin Terminal
                 THEN [status EXCEPT ![r] = "failed"]
                 ELSE status
    /\ EndTx(m)
    /\ UNCHANGED <<createdAt, budget, overdue, intake, shardVars, todo, sweep,
                   faults>>

BeginDispatch(m, t) ==
    /\ t[2] = "dispatching"
    /\ BeginTx(m, t, "dispatch", FALSE)

\* publishShards: a message for each pending shard of the plan, sent before
\* the commit and not undone by a rollback; a failed publish is only logged.
PublishShards(m) ==
    LET r       == tx[m].run
        pending == {k \in ShardIds : k[1] = r /\ shard[k] = "pending"
                                              /\ k[2] < planSize[r]}
    IN
    /\ tx[m].step = "dispatch"
    /\ \E sent \in SUBSET (IF UseNATS THEN pending ELSE {}) :
          stream' = stream \cup sent
    /\ tx' = [tx EXCEPT ![m].step = "published"]
    /\ UNCHANGED <<runVars, intake, planSize, shard, replayVars, lock, todo,
                   sweep, faults>>

\* Seeded fault: the UPDATE to 'running' has no guard.
CommitDispatchUnguarded(m) ==
    /\ tx[m].step = "published"
    /\ status' = [status EXCEPT ![tx[m].run] = "running"]
    /\ EndTx(m)
    /\ UNCHANGED <<createdAt, budget, overdue, intake, shardVars, todo, sweep,
                   faults>>

\* dispatch: UPDATE to 'running' guarded by 'dispatching', and the commit.
CommitDispatch(m) ==
    LET r == tx[m].run IN
    /\ tx[m].step = "published"
    /\ status' = IF status[r] = "dispatching"
                 THEN [status EXCEPT ![r] = "running"]
                 ELSE status
    /\ EndTx(m)
    /\ UNCHANGED <<createdAt, budget, overdue, intake, shardVars, todo, sweep,
                   faults>>

BeginFinalize(m, t) ==
    /\ t[2] = "finalizing"
    /\ BeginTx(m, t, "finalize", FALSE)

\* Seeded fault: the verdict is read from the first shard only.
ReadVerdictOfFirst(m) ==
    /\ tx[m].step = "finalize"
    /\ tx' = [tx EXCEPT ![m].step = "verdict",
                        ![m].anyFailed = shard[<<tx[m].run, 0>>] = "failed"]
    /\ UNCHANGED <<runVars, intake, shardVars, lock, todo, sweep, faults>>

\* What finalize takes for a failure: 'preempted' is none.
CountsAsFailed(k) == shard[k] \in {"failed", "lost"}

AnyFailed(r) == \E k \in ShardIds : k[1] = r /\ CountsAsFailed(k)

\* finalize: SELECT EXISTS a failed or lost shard.
ReadVerdict(m) ==
    /\ tx[m].step = "finalize"
    /\ tx' = [tx EXCEPT ![m].step = "verdict",
                        ![m].anyFailed = AnyFailed(tx[m].run)]
    /\ UNCHANGED <<runVars, intake, shardVars, lock, todo, sweep, faults>>

\* finalize: UPDATE to the verdict guarded by 'finalizing', and the commit.
CommitFinalize(m) ==
    LET r == tx[m].run IN
    /\ tx[m].step = "verdict"
    /\ status' = IF status[r] = "finalizing"
                 THEN [status EXCEPT ![r] =
                          IF tx[m].anyFailed THEN "failed" ELSE "succeeded"]
                 ELSE status
    /\ EndTx(m)
    /\ UNCHANGED <<createdAt, budget, overdue, intake, shardVars, todo, sweep,
                   faults>>

\* A statement or the commit fails: the deferred Rollback ends the attempt.
Rollback(m) ==
    /\ ~Idle(m)
    /\ faults < FaultLimit
    /\ faults' = faults + 1
    /\ EndTx(m)
    /\ UNCHANGED <<runVars, intake, shardVars, todo, sweep>>

\* The process dies and restarts: its session ends, its work list is gone.
Crash(m) ==
    /\ ~Waiting(m)
    /\ faults < FaultLimit
    /\ faults' = faults + 1
    /\ todo' = [todo EXCEPT ![m] = {}]
    /\ sweep' = [sweep EXCEPT ![m] = {}]
    /\ EndTx(m)
    /\ UNCHANGED <<runVars, intake, shardVars>>

\* Seeded fault: the sweep forgets runs that are executing.
BudgetedNotRunning == {"planning", "dispatching"}

\* Statuses the budget sweep fails.
Budgeted == {"planning", "dispatching", "running"}

\* checkBudgets: one UPDATE over every run past its budget.
CheckBudgets(m) ==
    LET expired == {r \in Runs : overdue[r] /\ status[r] \in Budgeted} IN
    /\ Waiting(m)
    /\ expired # {}
    /\ status' = [r \in Runs |-> IF r \in expired THEN "failed" ELSE status[r]]
    /\ UNCHANGED <<createdAt, budget, overdue, intake, shardVars, mgrVars,
                   faults>>

\* reschedulePreempted's SELECT: preempted or lost shards without the marker,
\* of runs under way that have a manifest.
SweepEligible ==
    {k \in ShardIds : /\ shard[k] \in {"preempted", "lost"}
                      /\ status[k[1]] \in {"dispatching", "running"}
                      /\ manifest[k[1]]
                      /\ k \notin marked}

SweepScan(m) ==
    /\ Waiting(m)
    /\ SweepEligible # {}
    /\ \E batch \in SUBSET SweepEligible :
          /\ IsBatch(batch, SweepEligible, SweepLimit)
          /\ sweep' = [sweep EXCEPT ![m] = batch]
    /\ UNCHANGED <<runVars, intake, shardVars, lock, todo, tx, faults>>

\* rescheduleOne: the advisory lock of the run is taken.
SkipReschedule(m, k) ==
    /\ Idle(m) /\ k \in sweep[m]
    /\ lock[k[1]] # Nobody
    /\ sweep' = [sweep EXCEPT ![m] = @ \ {k}]
    /\ UNCHANGED <<runVars, intake, shardVars, lock, todo, tx, faults>>

\* rescheduleOne takes the lock.  It reads neither the status of the shard
\* nor its marker nor the status of the run again.
BeginReschedule(m, k) ==
    /\ Idle(m) /\ k \in sweep[m]
    /\ lock[k[1]] = Nobody
    /\ sweep' = [sweep EXCEPT ![m] = @ \ {k}]
    /\ lock' = [lock EXCEPT ![k[1]] = m]
    /\ tx' = [tx EXCEPT ![m] = [step |-> "reschedule", run |-> k[1],
                                index |-> k[2], moved |-> FALSE,
                                anyFailed |-> FALSE]]
    /\ UNCHANGED <<runVars, intake, shardVars, todo, faults>>

RowsOf(r) == {i \in Indexes : shard[<<r, i>>] # "none"}

\* Seeded fault: the index of the new shard counts from one.
RescheduleOneBased(m) ==
    LET r   == tx[m].run
        new == Cardinality(RowsOf(r)) + 1
    IN
    /\ tx[m].step = "reschedule"
    /\ new \in Indexes
    /\ shard' = [shard EXCEPT ![<<r, new>>] = "pending"]
    /\ marked' = marked \cup {<<r, tx[m].index>>}
    /\ EndTx(m)
    /\ UNCHANGED <<runVars, intake, planSize, stream, late, notices, onRecord,
                   todo, sweep, faults>>

\* rescheduleOne with tests left: a pending shard at index count(*), the
\* marker on the original, and the commit.
Reschedule(m) ==
    LET r   == tx[m].run
        new == Cardinality(RowsOf(r))
    IN
    /\ tx[m].step = "reschedule"
    /\ new \in Indexes
    /\ shard' = [shard EXCEPT ![<<r, new>>] = "pending"]
    /\ marked' = marked \cup {<<r, tx[m].index>>}
    /\ EndTx(m)
    /\ UNCHANGED <<runVars, intake, planSize, stream, late, notices, onRecord,
                   todo, sweep, faults>>

\* rescheduleOne with every test of the shard done: the original succeeds.
RescheduleNothing(m) ==
    LET k == <<tx[m].run, tx[m].index>> IN
    /\ tx[m].step = "reschedule"
    /\ shard' = [shard EXCEPT ![k] = "succeeded"]
    /\ marked' = marked \cup {k}
    /\ EndTx(m)
    /\ UNCHANGED <<runVars, intake, planSize, stream, late, notices, onRecord,
                   todo, sweep, faults>>

-----------------------------------------------------------------------------
(* Workers, seen through shards.status.                                    *)

\* tryClaimAndRun and PullAssignment: a pending shard of a run under way.
ClaimPolled(k) ==
    /\ shard[k] = "pending"
    /\ status[k[1]] \in {"dispatching", "running"}
    /\ shard' = [shard EXCEPT ![k] = "running"]
    /\ UNCHANGED <<runVars, intake, planSize, stream, replayVars, mgrVars,
                   faults>>

\* handleMessage: the shard the message names, if it is pending.
ClaimDelivered(k) ==
    /\ k \in stream
    /\ shard[k] = "pending"
    /\ shard' = [shard EXCEPT ![k] = "running"]
    /\ UNCHANGED <<runVars, intake, planSize, stream, replayVars, mgrVars,
                   faults>>

\* handleMessage: acknowledge a message whose shard is taken or finished.
AckMessage(k) ==
    /\ k \in stream
    /\ shard[k] # "pending"
    /\ stream' = stream \ {k}
    /\ UNCHANGED <<runVars, intake, planSize, shard, replayVars, mgrVars,
                   faults>>

\* executeShard's last UPDATE.
FinishShard(k, outcome) ==
    /\ shard[k] = "running"
    /\ shard' = [shard EXCEPT ![k] = outcome]
    /\ UNCHANGED <<runVars, intake, planSize, stream, replayVars, mgrVars,
                   faults>>

\* beginDrain: a worker told to stop gives its shard up.  writesLate: the
\* worker has looked at draining before, and will still write an outcome.
PreemptShard(k, writesLate) ==
    /\ shard[k] = "running"
    /\ notices < NoticeLimit
    /\ notices' = notices + 1
    /\ shard' = [shard EXCEPT ![k] = "preempted"]
    /\ late' = IF writesLate THEN late \cup {k} ELSE late
    /\ UNCHANGED <<runVars, intake, planSize, stream, marked, onRecord, mgrVars,
                   faults>>

\* executeShard's last UPDATE is by id: it overwrites 'preempted', and what
\* the sweep has written since.
WriteLate(k, outcome) ==
    /\ k \in late
    /\ late' = late \ {k}
    /\ shard' = [shard EXCEPT ![k] = outcome]
    /\ UNCHANGED <<runVars, intake, planSize, stream, marked, notices, onRecord,
                   mgrVars, faults>>

\* The writer of 'finalizing' that finalize waits for; src/ has none, so
\* nothing is supposed of the shards when it writes.
StartFinalizing(r) ==
    /\ Finalizer
    /\ status[r] = "running"
    /\ status' = [status EXCEPT ![r] = "finalizing"]
    /\ onRecord' = onRecord \cup {k \in ShardIds : k[1] = r /\ CountsAsFailed(k)}
    /\ UNCHANGED <<createdAt, budget, overdue, intake, planSize, shard, stream,
                   marked, late, notices, mgrVars, faults>>

-----------------------------------------------------------------------------

\* What a replica does by itself.
TryHandle(m) ==
    \/ \E t \in todo[m] : \/ SkipLocked(m, t)
                          \/ BeginPlan(m, t)
                          \/ BeginDispatch(m, t)
                          \/ BeginFinalize(m, t)
    \/ LoadManifest(m)
    \/ \E n \in 1 .. MaxShards : CommitPlan(m, n) \/ AbortPlan(m, n)
    \/ CommitPlanFailed(m)
    \/ PublishShards(m)
    \/ CommitDispatch(m)
    \/ ReadVerdict(m)
    \/ CommitFinalize(m)

RescheduleOne(m) ==
    \/ \E k \in sweep[m] : SkipReschedule(m, k) \/ BeginReschedule(m, k)
    \/ Reschedule(m)
    \/ RescheduleNothing(m)

ApiStep ==
    \E r \in Runs :
        \/ \E b \in BOOLEAN : CreateInsertRun(r, b)
        \/ CreateInsertManifest(r)
        \/ CreateLoseManifest(r)
        \/ RerunFailed(r)
        \/ Cancel(r)
        \/ Deadline(r)

WorkerStep ==
    \E k \in ShardIds :
        \/ ClaimPolled(k)
        \/ ClaimDelivered(k)
        \/ AckMessage(k)
        \/ \E o \in {"succeeded", "failed"} :
              FinishShard(k, o) \/ WriteLate(k, o)
        \/ \E b \in BOOLEAN : PreemptShard(k, b)

Next ==
    \/ ApiStep
    \/ \E m \in Managers :
          \/ Scan(m) \/ TryHandle(m) \/ CheckBudgets(m)
          \/ SweepScan(m) \/ RescheduleOne(m)
          \/ Rollback(m) \/ Crash(m)
    \/ WorkerStep
    \/ \E r \in Runs : StartFinalizing(r)

Spec == Init /\ [][Next]_vars

\* Each replica's loop keeps running: a ready tick is taken, a transaction
\* that was begun goes on.  Users, workers and time owe nothing.
Fairness ==
    \A m \in Managers : /\ WF_vars(Scan(m))
                        /\ WF_vars(TryHandle(m))
                        /\ WF_vars(CheckBudgets(m))
                        /\ WF_vars(SweepScan(m))
                        /\ WF_vars(RescheduleOne(m))

FairSpec == Spec /\ Fairness

-----------------------------------------------------------------------------
(* Safety.                                                                 *)

\* The rows of a run are numbered without gaps: first those of the stored
\* plan, written with it in one transaction, then replays, of which there are
\* none before a shard carries the marker.  count(*) is thus the next free
\* index and i % count(*) reaches every row, whatever is rolled back, planned
\* from a stale scan or after a cancel, or replayed by several replicas.
RowsAreDense ==
    \A r \in Runs : \E n \in planSize[r] .. MaxRows :
        /\ RowsOf(r) = 0 .. n - 1
        /\ n > planSize[r] => planSize[r] > 0 /\ \E k \in marked : k[1] = r

\* A run still 'pending' has no plan and no shards: the next attempt to plan
\* it cannot meet UNIQUE(run_id, index), which would roll it back for ever.
PendingIsUnplanned ==
    \A r \in Runs : status[r] \in {"absent", "pending"} => planSize[r] = 0

\* A run that left 'pending' towards execution has shards to execute and the
\* manifest from which workers and the reschedule sweep read their tests.
ActiveIsPlanned ==
    \A r \in Runs :
        status[r] \in {"dispatching", "running", "finalizing", "succeeded"}
            => planSize[r] > 0 /\ manifest[r]

\* A failure that was on record when the run became 'finalizing' is not
\* overlooked: unless a sweep has meanwhile found every test of the shard done
\* and made it 'succeeded', the run is not reported succeeded, whichever
\* replica reads the shards, from a list however old.
FailureIsNotOverlooked ==
    \A r \in Runs : status[r] = "succeeded" =>
        \A k \in onRecord : k[1] = r => ~CountsAsFailed(k)

\* Once cancelled, failed or succeeded, a run keeps that status: the guards
\* of plan, dispatch, finalize, cancel and the sweep hold against each other.
TerminalIsFinal ==
    [][\A r \in Runs : status[r] \in Terminal => status'[r] = status[r]]_vars

\* A shard row is never deleted, replanned or handed out a second time, and
\* what a worker or the sweep ended does not run again.
ShardsAdvance ==
    [][\A k \in ShardIds :
          \/ shard'[k] = shard[k]
          \/ shard[k] = "none" /\ shard'[k] = "pending"
          \/ shard[k] = "pending" /\ shard'[k] = "running"
          \/ shard[k] = "running" /\ shard'[k] = "preempted"
          \/ shard[k] \notin {"none", "pending"}
                /\ shard'[k] \in {"succeeded", "failed"}]_vars

\* The two spellings of the cancelled status: the table of statemachine.go
\* uses internal/model's.
ModelStatus(s) == IF s = "cancelled" THEN "canceled" ELSE s

Abstract == INSTANCE RunStateMachine WITH
                status <- [r \in Runs |-> ModelStatus(status[r])]

\* The committed statuses move along the table of statemachine.go, which no
\* code consults.
FollowsStateMachine == Abstract!Spec

-----------------------------------------------------------------------------
(* The inductive invariant behind the safety properties.                   *)

PlanSteps == {"plan", "insert", "planFailed"}

\* An open transaction holds the advisory lock of its run, which exists.
TxHoldsLock ==
    \A m \in Managers : ~Idle(m) =>
        lock[tx[m].run] = m /\ status[tx[m].run] # "absent"

\* While a plan transaction is open the committed status is 'pending' exactly
\* if its first UPDATE matched: the row lock keeps cancels out, the advisory
\* lock the other replicas, and no status leads back to 'pending'.
PlanTxKnowsStatus ==
    \A m \in Managers : tx[m].step \in PlanSteps =>
        (tx[m].moved <=> status[tx[m].run] = "pending")

\* A plan about to be inserted was computed from a stored manifest.
InsertHasManifest ==
    \A m \in Managers : tx[m].step = "insert" => manifest[tx[m].run]

Finalized == {"finalizing", "succeeded", "failed"}

\* A scanned run exists, and once scanned as 'finalizing' stays past it.
ScannedRunsExist ==
    \A m \in Managers : \A t \in todo[m] :
        /\ status[t[1]] # "absent"
        /\ t[2] = "finalizing" => status[t[1]] \in Finalized

\* A finalize transaction works on a run that is, or was, 'finalizing'.
FinalizeTxKnowsStatus ==
    \A m \in Managers :
        tx[m].step \in {"finalize", "verdict"} =>
            status[tx[m].run] \in Finalized

Replayable == {"preempted", "succeeded", "failed", "lost"}

\* What a sweep works on was preempted or lost, and has at most been ended by
\* its worker or another sweep since; the same holds of a marked shard.
SweptWasPreempted ==
    /\ \A m \in Managers : \A k \in sweep[m] :
          status[k[1]] # "absent" /\ shard[k] \in Replayable
    /\ \A m \in Managers : tx[m].step = "reschedule" =>
          shard[<<tx[m].run, tx[m].index>>] \in Replayable

\* Only the worker of a shard that was preempted, and not ended by it yet,
\* writes late.
LateWasPreempted == \A k \in late : shard[k] \in {"preempted", "succeeded"}

\* A failure on record is one no worker will write again: it stays until a
\* sweep makes it a success.
OnRecordIsEnded ==
    \A k \in onRecord :
        /\ status[k[1]] \in Finalized
        /\ k \notin late
        /\ shard[k] \in {"failed", "lost", "succeeded"}

\* A verdict without a failure has seen no failure on record.
VerdictStaysTrue ==
    \A m \in Managers : tx[m].step = "verdict" /\ ~tx[m].anyFailed =>
        \A k \in onRecord : k[1] = tx[m].run => shard[k] = "succeeded"

IInv ==
    /\ TypeOK
    /\ RowsAreDense
    /\ PendingIsUnplanned
    /\ ActiveIsPlanned
    /\ TxHoldsLock
    /\ PlanTxKnowsStatus
    /\ InsertHasManifest
    /\ ScannedRunsExist
    /\ FinalizeTxKnowsStatus
    /\ SweptWasPreempted
    /\ LateWasPreempted
    /\ OnRecordIsEnded
    /\ VerdictStaysTrue
    /\ FailureIsNotOverlooked

-----------------------------------------------------------------------------
(* Liveness, under FairSpec.                                               *)

\* No run stays 'pending': crashes, contention for the lock and a missing
\* manifest only delay the step that plans it or fails it.
PendingIsResolved ==
    \A r \in Runs : status[r] = "pending" ~> status[r] # "pending"

\* A run past its budget ends, even if no worker ever reports.
BudgetIsEnforced ==
    \A r \in Runs : overdue[r] ~> status[r] \in Terminal

-----------------------------------------------------------------------------
(* Claims of the repository that do not hold.                              *)

\* internal/runsvc/service.go: the manifest is stored so that the Run Manager
\* can pick it up.  A run whose manifest was stored is not failed unplanned.
StoredManifestIsPlanned ==
    \A r \in Runs : manifest[r] /\ planSize[r] = 0 => status[r] # "failed"

\* leader_election_integration_test.go: a replica that gets the lock after
\* the run was planned routes to dispatch and never plans it again.
NeverReplans ==
    \A m \in Managers :
        tx[m].step = "plan" => planSize[tx[m].run] = 0

\* docs/backlog/stories.md, S-04-04: cancelling a run stops its dispatch.
CancelStopsDispatch ==
    [][\A k \in ShardIds :
          shard[k] = "pending" /\ shard'[k] = "running"
              => status[k[1]] # "cancelled"]_vars

\* Every shard of the run has an outcome, or has been replayed.
LastShardFinished(r) ==
    /\ RowsOf(r) # {}
    /\ \A i \in RowsOf(r) :
          \/ shard[<<r, i>>] \in {"succeeded", "failed"}
          \/ shard[<<r, i>>] = "preempted" /\ <<r, i>> \in marked

\* docs/architecture/diagrams.md: 'running' goes to 'finalizing' when the
\* last shard has finished, so a run whose shards are done ends.
FinishedRunEnds ==
    \A r \in Runs : LastShardFinished(r) ~> status[r] \in Terminal
=============================================================================
