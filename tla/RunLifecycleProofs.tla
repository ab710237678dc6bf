------------------------- MODULE RunLifecycleProofs -------------------------
(***************************************************************************)
(* Proofs about RunLifecycle, for any finite set of runs, any replicas and *)
(* any bounds.                                                             *)
(***************************************************************************)
EXTENDS RunLifecycle, FiniteSetTheorems, TLAPS

\* The order of creation is a number.
LEMMA NowIsNat == Now \in Nat
<1>1. IsFiniteSet(Existing)
  BY RunsAssumption, FS_Subset DEF Existing
<1>. QED
  BY <1>1, FS_CardinalityType DEF Now

\* What EndTx leaves is well typed.
LEMMA EndTxType ==
    ASSUME TypeOK, NEW m \in Managers, EndTx(m)
    PROVE  /\ lock' \in [Runs -> Managers \cup {Nobody}]
           /\ tx' \in [Managers -> Transactions \cup {NoTx}]
BY DEF TypeOK, EndTx

\* The type invariant.
LEMMA TypeStep == TypeOK /\ [Next]_vars => TypeOK'
<1>. SUFFICES ASSUME TypeOK, [Next]_vars PROVE TypeOK'
  OBVIOUS
<1>. USE DEF runVars, intake, replayVars, shardVars, mgrVars
<1>1. ASSUME NEW r \in Runs, NEW b \in BOOLEAN, CreateInsertRun(r, b)
      PROVE  TypeOK'
  BY <1>1, NowIsNat DEF TypeOK, CreateInsertRun, RunStatuses
<1>2. ASSUME NEW r \in Runs, CreateInsertManifest(r) PROVE TypeOK'
  BY <1>2 DEF TypeOK, CreateInsertManifest
<1>3. ASSUME NEW r \in Runs, CreateLoseManifest(r) PROVE TypeOK'
  BY <1>3 DEF TypeOK, CreateLoseManifest
<1>4. ASSUME NEW r \in Runs, RerunFailed(r) PROVE TypeOK'
  BY <1>4, NowIsNat DEF TypeOK, RerunFailed, RunStatuses
<1>5. ASSUME NEW r \in Runs, Cancel(r) PROVE TypeOK'
  BY <1>5 DEF TypeOK, Cancel, RunStatuses
<1>6. ASSUME NEW r \in Runs, Deadline(r) PROVE TypeOK'
  BY <1>6 DEF TypeOK, Deadline
<1>7. ASSUME NEW m \in Managers, Scan(m) PROVE TypeOK'
  <2>1. \A batch \in SUBSET ScanEligible :
           {<<r, status[r]>> : r \in batch} \subseteq Runs \X Scannable
    BY DEF ScanEligible
  <2>. QED
    BY <1>7, <2>1 DEF TypeOK, Scan
<1>8. ASSUME NEW m \in Managers, NEW t \in todo[m], SkipLocked(m, t)
      PROVE  TypeOK'
  BY <1>8 DEF TypeOK, SkipLocked
<1>9. ASSUME NEW m \in Managers, NEW t \in todo[m],
             NEW first \in TxSteps, NEW moves \in BOOLEAN,
             BeginTx(m, t, first, moves)
      PROVE  TypeOK'
  <2>1. t[1] \in Runs
    BY DEF TypeOK
  <2>2. [step |-> first, run |-> t[1], index |-> 0, moved |-> moves,
         anyFailed |-> FALSE] \in Transactions
    BY <2>1, MaxShardsAssumption DEF Transactions, Indexes
  <2>. QED
    BY <1>9, <2>1, <2>2 DEF TypeOK, BeginTx
<1>10. ASSUME NEW m \in Managers, NEW t \in todo[m],
              BeginPlan(m, t) \/ BeginDispatch(m, t) \/ BeginFinalize(m, t)
       PROVE  TypeOK'
  BY <1>10, <1>9 DEF BeginPlan, BeginDispatch, BeginFinalize, TxSteps
<1>11. ASSUME NEW m \in Managers, LoadManifest(m) PROVE TypeOK'
  BY <1>11 DEF TypeOK, LoadManifest, Transactions, TxSteps, NoTx
<1>12. ASSUME NEW m \in Managers, NEW n \in 1 .. MaxShards, CommitPlan(m, n)
       PROVE  TypeOK'
  <2>1. tx[m] \in Transactions
    BY <1>12 DEF TypeOK, CommitPlan, NoTx
  <2>. QED
    BY <1>12, <2>1, EndTxType, MaxShardsAssumption
       DEF TypeOK, CommitPlan, Transactions, RunStatuses, ShardStatuses
<1>13. ASSUME NEW m \in Managers, NEW n \in 1 .. MaxShards, AbortPlan(m, n)
       PROVE  TypeOK'
  BY <1>13, EndTxType DEF TypeOK, AbortPlan
<1>14. ASSUME NEW m \in Managers, CommitPlanFailed(m) PROVE TypeOK'
  BY <1>14, EndTxType DEF TypeOK, CommitPlanFailed, RunStatuses
<1>15. ASSUME NEW m \in Managers, PublishShards(m) PROVE TypeOK'
  <2>1. stream' \subseteq ShardIds
    BY <1>15 DEF TypeOK, PublishShards
  <2>. QED
    BY <1>15, <2>1 DEF TypeOK, PublishShards, Transactions, TxSteps, NoTx
<1>16. ASSUME NEW m \in Managers, CommitDispatch(m) PROVE TypeOK'
  BY <1>16, EndTxType DEF TypeOK, CommitDispatch, RunStatuses
<1>17. ASSUME NEW m \in Managers, ReadVerdict(m) PROVE TypeOK'
  <2>1. AnyFailed(tx[m].run) \in BOOLEAN
    BY DEF AnyFailed
  <2>2. tx[m] \in Transactions
    BY <1>17 DEF TypeOK, ReadVerdict, NoTx
  <2>3. [tx[m] EXCEPT !.step = "verdict", !.anyFailed = AnyFailed(tx[m].run)]
           \in Transactions
    BY <2>1, <2>2 DEF Transactions, TxSteps
  <2>. QED
    BY <1>17, <2>2, <2>3 DEF TypeOK, ReadVerdict
<1>18. ASSUME NEW m \in Managers, CommitFinalize(m) PROVE TypeOK'
  BY <1>18, EndTxType DEF TypeOK, CommitFinalize, RunStatuses
<1>19. ASSUME NEW m \in Managers, Rollback(m) PROVE TypeOK'
  BY <1>19, EndTxType DEF TypeOK, Rollback
<1>20. ASSUME NEW m \in Managers, Crash(m) PROVE TypeOK'
  BY <1>20, EndTxType DEF TypeOK, Crash
<1>21. ASSUME NEW m \in Managers, CheckBudgets(m) PROVE TypeOK'
  BY <1>21 DEF TypeOK, CheckBudgets, RunStatuses
<1>22. ASSUME NEW k \in ShardIds, ClaimPolled(k) \/ ClaimDelivered(k)
       PROVE  TypeOK'
  BY <1>22 DEF TypeOK, ClaimPolled, ClaimDelivered, ShardStatuses
<1>23. ASSUME NEW k \in ShardIds, AckMessage(k) PROVE TypeOK'
  BY <1>23 DEF TypeOK, AckMessage
<1>24. ASSUME NEW k \in ShardIds, NEW o \in {"succeeded", "failed"},
              FinishShard(k, o)
       PROVE  TypeOK'
  BY <1>24 DEF TypeOK, FinishShard, ShardStatuses
<1>25. ASSUME NEW r \in Runs, StartFinalizing(r) PROVE TypeOK'
  BY <1>25 DEF TypeOK, StartFinalizing, RunStatuses
<1>26. CASE UNCHANGED vars
  BY <1>26 DEF TypeOK, vars
<1>27. ASSUME NEW k \in ShardIds, NEW o \in {"succeeded", "failed"},
              NEW b \in BOOLEAN, WriteLate(k, o) \/ PreemptShard(k, b)
       PROVE  TypeOK'
  BY <1>27 DEF TypeOK, WriteLate, PreemptShard, ShardStatuses
<1>28. ASSUME NEW m \in Managers, SweepScan(m) PROVE TypeOK'
  BY <1>28 DEF TypeOK, SweepScan, SweepEligible
<1>29. ASSUME NEW m \in Managers, NEW k \in sweep[m],
              BeginReschedule(m, k)
       PROVE  TypeOK'
  <2>1. k \in ShardIds /\ k[1] \in Runs /\ k[2] \in Indexes
    BY DEF TypeOK, ShardIds
  <2>2. [step |-> "reschedule", run |-> k[1], index |-> k[2],
         moved |-> FALSE, anyFailed |-> FALSE] \in Transactions
    BY <2>1 DEF Transactions, TxSteps
  <2>. QED
    BY <1>29, <2>1, <2>2 DEF TypeOK, BeginReschedule
<1>31. ASSUME NEW m \in Managers, NEW k \in sweep[m], SkipReschedule(m, k)
       PROVE  TypeOK'
  BY <1>31 DEF TypeOK, SkipReschedule
<1>30. ASSUME NEW m \in Managers, Reschedule(m) \/ RescheduleNothing(m)
       PROVE  TypeOK'
  <2>1. tx[m] \in Transactions
    BY <1>30 DEF TypeOK, Reschedule, RescheduleNothing, NoTx
  <2>2. <<tx[m].run, tx[m].index>> \in ShardIds
    BY <2>1 DEF Transactions, ShardIds
  <2>. QED
    BY <1>30, <2>1, <2>2, EndTxType
       DEF TypeOK, Reschedule, RescheduleNothing, ShardStatuses
<1>. QED
  BY <1>1, <1>2, <1>3, <1>4, <1>5, <1>6, <1>7, <1>8, <1>10, <1>11, <1>12,
     <1>13, <1>14, <1>15, <1>16, <1>17, <1>18, <1>19, <1>20, <1>21, <1>22,
     <1>23, <1>24, <1>25, <1>26, <1>27, <1>28, <1>29, <1>30, <1>31
     DEF Next, ApiStep, TryHandle, RescheduleOne, WorkerStep

\* No run yet: everything is well typed.
LEMMA TypeInit == Init => TypeOK
BY MaxShardsAssumption DEF Init, TypeOK

\* Every variable keeps its type: committed statuses stay within the CHECK
\* constraints of the schema and transactions are about runs that exist.
THEOREM TypeCorrect == Spec => []TypeOK
BY TypeInit, TypeStep, PTL DEF Spec

-----------------------------------------------------------------------------
(* The inductive invariant.                                                *)

\* The invariant of a database without runs.
LEMMA InvInit == Init => IInv
<1>. SUFFICES ASSUME Init PROVE IInv
  OBVIOUS
<1>1. TypeOK
  BY TypeInit
<1>2. RowsAreDense
  <2>1. \A r \in Runs : planSize[r] = 0 /\ RowsOf(r) = {}
    BY DEF Init, RowsOf, ShardIds
  <2>2. 0 \in 0 .. MaxRows /\ 0 .. 0 - 1 = {}
    BY MaxShardsAssumption
  <2>. QED
    BY <2>1, <2>2 DEF RowsAreDense
<1>3. /\ PendingIsUnplanned /\ ActiveIsPlanned /\ TxHoldsLock
      /\ PlanTxKnowsStatus /\ InsertHasManifest /\ ScannedRunsExist
      /\ FinalizeTxKnowsStatus /\ SweptWasPreempted /\ LateWasPreempted
      /\ OnRecordIsEnded /\ VerdictStaysTrue /\ FailureIsNotOverlooked
  BY DEF Init, PendingIsUnplanned, ActiveIsPlanned, TxHoldsLock, Idle,
         PlanTxKnowsStatus, InsertHasManifest, ScannedRunsExist,
         FinalizeTxKnowsStatus, SweptWasPreempted, LateWasPreempted,
         OnRecordIsEnded, VerdictStaysTrue, FailureIsNotOverlooked, NoTx,
         PlanSteps
<1>. QED
  BY <1>1, <1>2, <1>3 DEF IInv

\* A transaction that is open is about a run; a closed one is at no step.
LEMMA TxShape ==
    ASSUME TypeOK, NEW m \in Managers
    PROVE  /\ tx[m].step # "none" =>
                 /\ tx[m] \in Transactions
                 /\ tx[m].run \in Runs
           /\ Idle(m) <=> tx[m].step = "none"
           /\ tx[m].step \in TxSteps \cup {"none"}
BY DEF TypeOK, Transactions, NoTx, Idle, TxSteps

\* A transaction that replays is about a shard.
LEMMA TxShard ==
    ASSUME TypeOK, NEW m \in Managers, tx[m].step # "none"
    PROVE  <<tx[m].run, tx[m].index>> \in ShardIds
BY DEF TypeOK, Transactions, NoTx, ShardIds

\* Shard keys are pairs of a run and an index.
LEMMA ShardKeys == \A r \in Runs, i \in Indexes : <<r, i>> \in ShardIds
BY DEF ShardIds

\* A plan that commits is the first of its run: index 0 was free, and a
\* stored plan owns it.
LEMMA PlansOnce ==
    ASSUME IInv, NEW m \in Managers, NEW n \in 1 .. MaxShards, CommitPlan(m, n)
    PROVE  /\ tx[m].run \in Runs
           /\ planSize[tx[m].run] = 0
           /\ \A i \in Indexes : shard[<<tx[m].run, i>>] = "none"
<1>. DEFINE r == tx[m].run
<1>1. r \in Runs
  BY TxShape DEF CommitPlan, IInv
<1>2. 0 \in Indexes /\ 0 \in 0 .. n - 1
  BY MaxShardsAssumption DEF Indexes
<1>3. shard[<<r, 0>>] = "none"
  BY <1>2 DEF CommitPlan, UniqueViolation
<1>4. PICK k \in planSize[r] .. MaxRows :
         /\ RowsOf(r) = 0 .. k - 1
         /\ k > planSize[r] => planSize[r] > 0
  BY <1>1 DEF IInv, RowsAreDense
<1>5. planSize[r] \in Nat
  BY <1>1, MaxShardsAssumption DEF IInv, TypeOK
<1>6. 0 \notin RowsOf(r)
  BY <1>3 DEF RowsOf
<1>7. k = 0 /\ planSize[r] = 0
  BY <1>4, <1>5, <1>6, MaxShardsAssumption
<1>8. RowsOf(r) = {}
  BY <1>4, <1>7
<1>. QED
  BY <1>1, <1>7, <1>8 DEF RowsOf

\* The rows of a run with n of them are counted right.
LEMMA DenseCount ==
    ASSUME NEW r \in Runs, NEW n \in Nat, RowsOf(r) = 0 .. n - 1
    PROVE  Cardinality(RowsOf(r)) = n
<1>1. 0 \in Int /\ n - 1 \in Int
  OBVIOUS
<1>2. Cardinality(0 .. (n - 1)) = IF 0 > n - 1 THEN 0 ELSE (n - 1) - 0 + 1
  BY <1>1, FS_Interval
<1>. QED
  BY <1>2

\* A replay that commits takes the next free index of a planned run.
LEMMA ReplaysAppend ==
    ASSUME IInv, NEW m \in Managers, Reschedule(m)
    PROVE  LET r == tx[m].run
               n == Cardinality(RowsOf(r))
           IN  /\ r \in Runs /\ n \in Indexes
               /\ RowsOf(r) = 0 .. n - 1
               /\ planSize[r] \in 1 .. n
               /\ <<r, n>> \in ShardIds /\ shard[<<r, n>>] = "none"
<1>. DEFINE r == tx[m].run
            k == <<r, tx[m].index>>
<1>1. r \in Runs /\ tx[m].index \in Indexes /\ shard[k] # "none"
  BY TxShape
     DEF IInv, Reschedule, SweptWasPreempted, Replayable, Transactions
<1>2. planSize[r] \in Nat
  BY <1>1, MaxShardsAssumption DEF IInv, TypeOK
<1>3. PICK n \in planSize[r] .. MaxRows :
         /\ RowsOf(r) = 0 .. n - 1
         /\ n > planSize[r] => planSize[r] > 0
  BY <1>1 DEF IInv, RowsAreDense
<1>4. n \in Nat /\ planSize[r] <= n
  BY <1>2, <1>3, MaxShardsAssumption
<1>5. Cardinality(RowsOf(r)) = n
  BY <1>1, <1>3, <1>4, DenseCount
<1>6. tx[m].index \in 0 .. n - 1
  BY <1>1, <1>3 DEF RowsOf
<1>7. n > 0 /\ planSize[r] > 0
  BY <1>2, <1>3, <1>4, <1>6
<1>8. n \in Indexes
  BY <1>5 DEF Reschedule
<1>9. n \notin RowsOf(r)
  BY <1>3, <1>4
<1>10. shard[<<r, n>>] = "none"
  BY <1>8, <1>9 DEF RowsOf
<1>. QED
  BY <1>1, <1>2, <1>3, <1>4, <1>5, <1>7, <1>8, <1>10 DEF ShardIds

\* A step that neither plans nor replays and keeps the rows keeps the order.
LEMMA DenseStays ==
    ASSUME IInv, planSize' = planSize, marked \subseteq marked',
           \A k \in ShardIds : shard'[k] # "none" <=> shard[k] # "none"
    PROVE  RowsAreDense'
<1>1. \A r \in Runs : RowsOf(r)' = RowsOf(r)
  BY ShardKeys DEF RowsOf
<1>. QED
  BY <1>1, ZenonT(60) DEF IInv, RowsAreDense

\* Only the plan of a run without shards and a replay add rows: the plan from
\* index 0, which was free, the replay at the next free index.
LEMMA StepRowsAreDense ==
    ASSUME IInv, TypeOK', [Next]_vars PROVE RowsAreDense'
<1>. USE DEF runVars, intake, replayVars, shardVars, mgrVars
<1>1. ASSUME NEW m \in Managers, NEW n \in 1 .. MaxShards, CommitPlan(m, n)
      PROVE  RowsAreDense'
  <2>2. PICK r \in Runs : r = tx[m].run
    BY <1>1, PlansOnce
  <2>1. \A q \in Runs, i \in Indexes :
           shard'[<<q, i>>] = IF q = r /\ i < n THEN "pending" ELSE shard[<<q,
           i>>]
    BY <1>1, <2>2, ShardKeys DEF CommitPlan
  <2>3. \A q \in Runs : planSize'[q] = IF q = r THEN n ELSE planSize[q]
    BY <1>1, <2>2 DEF CommitPlan, IInv, TypeOK
  <2>4. \A i \in Indexes : shard[<<r, i>>] = "none"
    BY <1>1, <2>2, PlansOnce
  <2>5. RowsOf(r)' = 0 .. n - 1
    <3>1. \A i \in Indexes : shard'[<<r, i>>] # "none" <=> i < n
      BY <2>1, <2>4
    <3>2. n \in Nat /\ n <= MaxRows
      BY MaxShardsAssumption
    <3>3. \A i : i \in Indexes /\ i < n <=> i \in 0 .. n - 1
      BY <3>2, MaxShardsAssumption DEF Indexes
    <3>4. \A i : i \in RowsOf(r)' <=> i \in Indexes /\ i < n
      BY <3>1 DEF RowsOf
    <3>. QED
      BY <3>3, <3>4
  <2>6. \A q \in Runs \ {r} : RowsOf(q)' = RowsOf(q)
    BY <2>1 DEF RowsOf
  <2>7. n \in n .. MaxRows /\ ~(n > n)
    BY MaxShardsAssumption
  <2>8. ASSUME NEW q \in Runs
        PROVE  (\E k \in planSize[q] .. MaxRows :
                   /\ RowsOf(q) = 0 .. k - 1
                   /\ k > planSize[q] =>
                         planSize[q] > 0 /\ \E j \in marked : j[1] = q)'
    <3>1. CASE q = r
      BY <2>3, <2>5, <2>7, <3>1
    <3>2. CASE q # r
      <4>1. PICK k \in planSize[q] .. MaxRows :
               /\ RowsOf(q) = 0 .. k - 1
               /\ k > planSize[q] =>
                     planSize[q] > 0 /\ \E j \in marked : j[1] = q
        BY DEF IInv, RowsAreDense
      <4>2. planSize'[q] = planSize[q] /\ RowsOf(q)' = RowsOf(q) /\ marked' = marked
        BY <1>1, <2>3, <2>6, <3>2 DEF CommitPlan
      <4>. QED
        BY <4>1, <4>2
    <3>. QED
      BY <3>1, <3>2
  <2>. QED
    BY <2>8 DEF RowsAreDense
<1>2. ASSUME NEW m \in Managers, Reschedule(m) PROVE RowsAreDense'
  <2>0. PICK r \in Runs, n \in Indexes :
           r = tx[m].run /\ n = Cardinality(RowsOf(r))
    BY <1>2, ReplaysAppend
  <2>1. /\ r \in Runs /\ n \in Indexes /\ RowsOf(r) = 0 .. n - 1
        /\ planSize[r] \in 1 .. n /\ <<r, n>> \in ShardIds
    BY <1>2, <2>0, ReplaysAppend
  <2>2. \A q \in Runs, i \in Indexes :
           shard'[<<q, i>>] = IF q = r /\ i = n THEN "pending" ELSE shard[<<q,
           i>>]
    BY <1>2, <2>0, <2>1, ShardKeys DEF Reschedule, IInv, TypeOK
  <2>3. planSize' = planSize /\ marked' = marked \cup {<<r, tx[m].index>>}
    BY <1>2, <2>0 DEF Reschedule
  <2>4. RowsOf(r)' = RowsOf(r) \cup {n}
    BY <2>1, <2>2 DEF RowsOf
  <2>5. RowsOf(r)' = 0 .. (n + 1) - 1 /\ n + 1 \in planSize[r] .. MaxRows
    BY <2>1, <2>4, MaxShardsAssumption DEF Indexes
  <2>6. \A q \in Runs \ {r} : RowsOf(q)' = RowsOf(q)
    BY <2>2 DEF RowsOf
  <2>7. ASSUME NEW q \in Runs
        PROVE  (\E k \in planSize[q] .. MaxRows :
                   /\ RowsOf(q) = 0 .. k - 1
                   /\ k > planSize[q] =>
                         planSize[q] > 0 /\ \E j \in marked : j[1] = q)'
    <3>1. CASE q = r
      <4>1. planSize'[q] > 0
        BY <2>1, <2>3, <3>1
      <4>2. \E j \in marked' : j[1] = q
        <5>1. <<q, tx[m].index>> \in marked' /\ <<q, tx[m].index>>[1] = q
          BY <2>3, <3>1
        <5>. QED
          BY <5>1
      <4>. QED
        BY <2>3, <2>5, <3>1, <4>1, <4>2
    <3>2. CASE q # r
      <4>1. PICK k \in planSize[q] .. MaxRows :
               /\ RowsOf(q) = 0 .. k - 1
               /\ k > planSize[q] =>
                     planSize[q] > 0 /\ \E j \in marked : j[1] = q
        BY DEF IInv, RowsAreDense
      <4>2. RowsOf(q)' = RowsOf(q)
        BY <2>6, <3>2
      <4>. QED
        BY <2>3, <4>1, <4>2
    <3>. QED
      BY <3>1, <3>2
  <2>. QED
    BY <2>7 DEF RowsAreDense
<1>3. ASSUME NEW m \in Managers, RescheduleNothing(m) PROVE RowsAreDense'
  <2>1. shard[<<tx[m].run, tx[m].index>>] # "none"
    BY <1>3 DEF IInv, RescheduleNothing, SweptWasPreempted, Replayable
  <2>2. \A k \in ShardIds : shard'[k] # "none" <=> shard[k] # "none"
    BY <1>3, <2>1 DEF RescheduleNothing, IInv, TypeOK
  <2>. QED
    BY <1>3, <2>2, DenseStays DEF RescheduleNothing
<1>4. ASSUME NEW k \in ShardIds, NEW o \in {"succeeded", "failed"},
             NEW b \in BOOLEAN,
             \/ ClaimPolled(k) \/ ClaimDelivered(k) \/ FinishShard(k, o)
             \/ WriteLate(k, o) \/ PreemptShard(k, b)
      PROVE  RowsAreDense'
  <2>1. shard[k] # "none"
    BY <1>4 DEF ClaimPolled, ClaimDelivered, FinishShard, WriteLate,
                PreemptShard, IInv, LateWasPreempted
  <2>2. \A j \in ShardIds : shard'[j] # "none" <=> shard[j] # "none"
    BY <1>4, <2>1 DEF ClaimPolled, ClaimDelivered, FinishShard, WriteLate,
                      PreemptShard, IInv, TypeOK
  <2>. QED
    BY <1>4, <2>2, DenseStays
       DEF ClaimPolled, ClaimDelivered, FinishShard, WriteLate, PreemptShard
<1>5. CASE UNCHANGED <<planSize, shard, marked>>
  BY <1>5, DenseStays
<1>. QED
  BY <1>1, <1>2, <1>3, <1>4, <1>5, ZenonT(60)
     DEF Next, vars, ApiStep, TryHandle, RescheduleOne, WorkerStep,
         CreateInsertRun, CreateInsertManifest, CreateLoseManifest,
         RerunFailed, Cancel, Deadline, Scan, SkipLocked, BeginPlan, BeginTx,
         BeginDispatch, BeginFinalize, LoadManifest, AbortPlan,
         CommitPlanFailed, PublishShards, CommitDispatch, ReadVerdict,
         CommitFinalize, Rollback, Crash, CheckBudgets, AckMessage,
         StartFinalizing, SweepScan, SkipReschedule, BeginReschedule

\* No status leads back to 'pending', and a plan moves its run on.
LEMMA StepPendingIsUnplanned ==
    ASSUME IInv, TypeOK', [Next]_vars PROVE PendingIsUnplanned'
<1>. USE DEF runVars, intake, replayVars, shardVars, mgrVars
<1>1. ASSUME NEW r \in Runs, NEW b \in BOOLEAN,
             CreateInsertRun(r, b)
      PROVE  PendingIsUnplanned'
  BY <1>1, TxShape
     DEF IInv, TypeOK, PendingIsUnplanned, TxHoldsLock, PlanTxKnowsStatus,
         PlanSteps, Idle, NoTx, CreateInsertRun
<1>2. ASSUME NEW r \in Runs,
             \/ RerunFailed(r) \/ Cancel(r) \/ StartFinalizing(r)
      PROVE  PendingIsUnplanned'
  BY <1>2, TxShape
     DEF IInv, TypeOK, PendingIsUnplanned, TxHoldsLock, PlanTxKnowsStatus,
         PlanSteps, Idle, NoTx, RerunFailed, Cancel, RowLocked,
         StartFinalizing
<1>3. ASSUME NEW m \in Managers, NEW n \in 1 .. MaxShards,
             CommitPlan(m, n)
      PROVE  PendingIsUnplanned'
  BY <1>3, TxShape
     DEF IInv, TypeOK, PendingIsUnplanned, TxHoldsLock, PlanTxKnowsStatus,
         PlanSteps, Idle, NoTx, CommitPlan, EndTx, UniqueViolation
<1>4. ASSUME NEW m \in Managers,
             \/ CommitPlanFailed(m) \/ CommitDispatch(m)
             \/ CommitFinalize(m) \/ CheckBudgets(m)
      PROVE  PendingIsUnplanned'
  BY <1>4, TxShape
     DEF IInv, TypeOK, PendingIsUnplanned, TxHoldsLock, PlanTxKnowsStatus,
         PlanSteps, Idle, NoTx, CommitPlanFailed, EndTx, CommitDispatch,
         CommitFinalize, CheckBudgets, Budgeted
<1>5. CASE UNCHANGED <<status, planSize>>
  BY <1>5 DEF IInv, PendingIsUnplanned, TxHoldsLock, PlanTxKnowsStatus,
         PlanSteps, Idle, NoTx
<1>. QED
  BY <1>1, <1>2, <1>3, <1>4, <1>5, ZenonT(60)
     DEF Next, vars, ApiStep, TryHandle, RescheduleOne, WorkerStep,
         CreateInsertManifest,
         CreateLoseManifest, Deadline, Scan, SkipLocked, BeginPlan, BeginTx,
         BeginDispatch, BeginFinalize, LoadManifest, AbortPlan,
         PublishShards, ReadVerdict, Rollback, Crash, ClaimPolled,
         ClaimDelivered, AckMessage, FinishShard,
         SweepScan, SkipReschedule, BeginReschedule, Reschedule,
         RescheduleNothing,
         PreemptShard, WriteLate

\* A run enters 'dispatching' with the plan it is given.
LEMMA StepActiveIsPlanned ==
    ASSUME IInv, TypeOK', [Next]_vars PROVE ActiveIsPlanned'
<1>. USE DEF runVars, intake, replayVars, shardVars, mgrVars
<1>1. ASSUME NEW r \in Runs, NEW b \in BOOLEAN,
             CreateInsertRun(r, b)
      PROVE  ActiveIsPlanned'
  BY <1>1, TxShape
     DEF IInv, TypeOK, ActiveIsPlanned, PendingIsUnplanned,
         InsertHasManifest, CreateInsertRun
<1>2. ASSUME NEW r \in Runs,
             \/ CreateInsertManifest(r) \/ RerunFailed(r) \/ Cancel(r)
             \/ StartFinalizing(r)
      PROVE  ActiveIsPlanned'
  BY <1>2, TxShape
     DEF IInv, TypeOK, ActiveIsPlanned, PendingIsUnplanned,
         InsertHasManifest, CreateInsertManifest, RerunFailed, Cancel,
         RowLocked, StartFinalizing
<1>3. ASSUME NEW m \in Managers, NEW n \in 1 .. MaxShards,
             CommitPlan(m, n)
      PROVE  ActiveIsPlanned'
  BY <1>3, TxShape
     DEF IInv, TypeOK, ActiveIsPlanned, PendingIsUnplanned,
         InsertHasManifest, CommitPlan, EndTx, UniqueViolation
<1>4. ASSUME NEW m \in Managers,
             \/ CommitPlanFailed(m) \/ CommitDispatch(m)
             \/ CommitFinalize(m) \/ CheckBudgets(m)
      PROVE  ActiveIsPlanned'
  BY <1>4, TxShape
     DEF IInv, TypeOK, ActiveIsPlanned, PendingIsUnplanned,
         InsertHasManifest, CommitPlanFailed, EndTx, CommitDispatch,
         CommitFinalize, CheckBudgets, Budgeted
<1>5. CASE UNCHANGED <<status, planSize, manifest>>
  BY <1>5 DEF IInv, ActiveIsPlanned, PendingIsUnplanned, InsertHasManifest
<1>. QED
  BY <1>1, <1>2, <1>3, <1>4, <1>5, ZenonT(60)
     DEF Next, vars, ApiStep, TryHandle, RescheduleOne, WorkerStep,
         CreateLoseManifest,
         Deadline, Scan, SkipLocked, BeginPlan, BeginTx, BeginDispatch,
         BeginFinalize, LoadManifest, AbortPlan, PublishShards, ReadVerdict,
         Rollback, Crash, ClaimPolled, ClaimDelivered, AckMessage,
         FinishShard,
         SweepScan, SkipReschedule, BeginReschedule, Reschedule,
         RescheduleNothing,
         PreemptShard, WriteLate

\* A lock is released with the transaction that holds it.
LEMMA StepTxHoldsLock ==
    ASSUME IInv, TypeOK', [Next]_vars PROVE TxHoldsLock'
<1>. USE DEF runVars, intake, replayVars, shardVars, mgrVars
<1>1. ASSUME NEW r \in Runs, NEW b \in BOOLEAN,
             CreateInsertRun(r, b)
      PROVE  TxHoldsLock'
  BY <1>1, TxShape, ManagersAssumption
     DEF IInv, TypeOK, TxHoldsLock, ScannedRunsExist, Idle, NoTx,
         CreateInsertRun
<1>2. ASSUME NEW r \in Runs,
             \/ RerunFailed(r) \/ Cancel(r) \/ StartFinalizing(r)
      PROVE  TxHoldsLock'
  BY <1>2, TxShape, ManagersAssumption
     DEF IInv, TypeOK, TxHoldsLock, ScannedRunsExist, Idle, NoTx,
         RerunFailed, Cancel, RowLocked, StartFinalizing
<1>3. ASSUME NEW m \in Managers, NEW t \in todo[m],
             BeginPlan(m, t)
      PROVE  TxHoldsLock'
  BY <1>3, TxShape, ManagersAssumption
     DEF IInv, TypeOK, TxHoldsLock, ScannedRunsExist, Idle, NoTx, BeginPlan,
         BeginTx, IsNext
<1>4. ASSUME NEW m \in Managers, NEW t \in todo[m],
             \/ BeginDispatch(m, t) \/ BeginFinalize(m, t)
      PROVE  TxHoldsLock'
  BY <1>4, TxShape, ManagersAssumption
     DEF IInv, TypeOK, TxHoldsLock, ScannedRunsExist, Idle, NoTx,
         BeginDispatch, BeginTx, IsNext, BeginFinalize
<1>5. ASSUME NEW m \in Managers, LoadManifest(m) PROVE TxHoldsLock'
  BY <1>5, TxShape, ManagersAssumption
     DEF IInv, TypeOK, TxHoldsLock, ScannedRunsExist, Idle, NoTx,
         LoadManifest
<1>6. ASSUME NEW m \in Managers, NEW n \in 1 .. MaxShards,
             CommitPlan(m, n)
      PROVE  TxHoldsLock'
  BY <1>6, TxShape, ManagersAssumption
     DEF IInv, TypeOK, TxHoldsLock, ScannedRunsExist, Idle, NoTx, CommitPlan,
         EndTx, UniqueViolation
<1>7. ASSUME NEW m \in Managers, NEW n \in 1 .. MaxShards,
             AbortPlan(m, n)
      PROVE  TxHoldsLock'
  BY <1>7, TxShape, ManagersAssumption
     DEF IInv, TypeOK, TxHoldsLock, ScannedRunsExist, Idle, NoTx, AbortPlan,
         EndTx
<1>8. ASSUME NEW m \in Managers, CommitPlanFailed(m) PROVE TxHoldsLock'
  BY <1>8, TxShape, ManagersAssumption
     DEF IInv, TypeOK, TxHoldsLock, ScannedRunsExist, Idle, NoTx,
         CommitPlanFailed, EndTx
<1>9. ASSUME NEW m \in Managers, PublishShards(m) PROVE TxHoldsLock'
  BY <1>9, TxShape, ManagersAssumption
     DEF IInv, TypeOK, TxHoldsLock, ScannedRunsExist, Idle, NoTx,
         PublishShards
<1>10. ASSUME NEW m \in Managers,
              \/ CommitDispatch(m) \/ CommitFinalize(m)
       PROVE  TxHoldsLock'
  BY <1>10, TxShape, ManagersAssumption
     DEF IInv, TypeOK, TxHoldsLock, ScannedRunsExist, Idle, NoTx,
         CommitDispatch, EndTx, CommitFinalize
<1>11. ASSUME NEW m \in Managers, ReadVerdict(m) PROVE TxHoldsLock'
  BY <1>11, TxShape, ManagersAssumption
     DEF IInv, TypeOK, TxHoldsLock, ScannedRunsExist, Idle, NoTx,
         ReadVerdict, AnyFailed
<1>13. ASSUME NEW m \in Managers, CheckBudgets(m) PROVE TxHoldsLock'
  BY <1>13, TxShape, ManagersAssumption
     DEF IInv, TypeOK, TxHoldsLock, ScannedRunsExist, Idle, NoTx,
         CheckBudgets, Budgeted
<1>14. CASE UNCHANGED <<status, lock, tx>>
  BY <1>14 DEF IInv, TxHoldsLock, ScannedRunsExist, Idle, NoTx
<1>15. ASSUME NEW m \in Managers, NEW k \in sweep[m],
              BeginReschedule(m, k)
       PROVE  TxHoldsLock'
  BY <1>15, TxShape, ManagersAssumption
     DEF TypeOK, SweptWasPreempted, ShardIds, PlanSteps, BeginReschedule,
         IInv, TxHoldsLock, ScannedRunsExist, Idle, NoTx
<1>16. ASSUME NEW m \in Managers, EndTx(m), UNCHANGED <<status, manifest>>
       PROVE  TxHoldsLock'
  BY <1>16, TxShape, ManagersAssumption
     DEF TypeOK, EndTx, IInv, TxHoldsLock, ScannedRunsExist, Idle, NoTx
<1>. QED
  BY <1>1, <1>2, <1>3, <1>4, <1>5, <1>6, <1>7, <1>8, <1>9, <1>10, <1>11,
     <1>13, <1>14, <1>15, <1>16
     DEF Next, vars, ApiStep, TryHandle, RescheduleOne, WorkerStep,
         CreateInsertManifest,
         CreateLoseManifest, Deadline, Scan, SkipLocked, ClaimPolled,
         ClaimDelivered, AckMessage, FinishShard,
         SweepScan, SkipReschedule, Reschedule, RescheduleNothing,
         PreemptShard, WriteLate, Rollback, Crash

\* Nobody moves a run that a plan transaction has moved.
LEMMA StepPlanTxKnowsStatus ==
    ASSUME IInv, TypeOK', [Next]_vars PROVE PlanTxKnowsStatus'
<1>. USE DEF runVars, intake, replayVars, shardVars, mgrVars
<1>1. ASSUME NEW r \in Runs, NEW b \in BOOLEAN,
             CreateInsertRun(r, b)
      PROVE  PlanTxKnowsStatus'
  BY <1>1, TxShape, ManagersAssumption
     DEF IInv, TypeOK, PlanTxKnowsStatus, TxHoldsLock, ScannedRunsExist,
         PlanSteps, Idle, NoTx, CreateInsertRun
<1>2. ASSUME NEW r \in Runs,
             \/ RerunFailed(r) \/ Cancel(r) \/ StartFinalizing(r)
      PROVE  PlanTxKnowsStatus'
  BY <1>2, TxShape, ManagersAssumption
     DEF IInv, TypeOK, PlanTxKnowsStatus, TxHoldsLock, ScannedRunsExist,
         PlanSteps, Idle, NoTx, RerunFailed, Cancel, RowLocked,
         StartFinalizing
<1>3. ASSUME NEW m \in Managers, NEW t \in todo[m],
             BeginPlan(m, t)
      PROVE  PlanTxKnowsStatus'
  BY <1>3, TxShape, ManagersAssumption, ZenonT(60)
     DEF IInv, TypeOK, PlanTxKnowsStatus, TxHoldsLock, ScannedRunsExist,
         PlanSteps, Idle, NoTx, BeginPlan, BeginTx, IsNext
<1>4. ASSUME NEW m \in Managers, NEW t \in todo[m],
             \/ BeginDispatch(m, t) \/ BeginFinalize(m, t)
      PROVE  PlanTxKnowsStatus'
  BY <1>4, TxShape, ManagersAssumption
     DEF IInv, TypeOK, PlanTxKnowsStatus, TxHoldsLock, ScannedRunsExist,
         PlanSteps, Idle, NoTx, BeginDispatch, BeginTx, IsNext,
         BeginFinalize
<1>5. ASSUME NEW m \in Managers, LoadManifest(m) PROVE PlanTxKnowsStatus'
  BY <1>5, TxShape, ManagersAssumption
     DEF IInv, TypeOK, PlanTxKnowsStatus, TxHoldsLock, ScannedRunsExist,
         PlanSteps, Idle, NoTx, LoadManifest
<1>6. ASSUME NEW m \in Managers, NEW n \in 1 .. MaxShards,
             CommitPlan(m, n)
      PROVE  PlanTxKnowsStatus'
  BY <1>6, TxShape, ManagersAssumption
     DEF IInv, TypeOK, PlanTxKnowsStatus, TxHoldsLock, ScannedRunsExist,
         PlanSteps, Idle, NoTx, CommitPlan, EndTx, UniqueViolation
<1>7. ASSUME NEW m \in Managers, NEW n \in 1 .. MaxShards,
             AbortPlan(m, n)
      PROVE  PlanTxKnowsStatus'
  BY <1>7, TxShape, ManagersAssumption
     DEF IInv, TypeOK, PlanTxKnowsStatus, TxHoldsLock, ScannedRunsExist,
         PlanSteps, Idle, NoTx, AbortPlan, EndTx
<1>8. ASSUME NEW m \in Managers, CommitPlanFailed(m) PROVE PlanTxKnowsStatus'
  BY <1>8, TxShape, ManagersAssumption
     DEF IInv, TypeOK, PlanTxKnowsStatus, TxHoldsLock, ScannedRunsExist,
         PlanSteps, Idle, NoTx, CommitPlanFailed, EndTx
<1>9. ASSUME NEW m \in Managers, PublishShards(m) PROVE PlanTxKnowsStatus'
  BY <1>9, TxShape, ManagersAssumption
     DEF IInv, TypeOK, PlanTxKnowsStatus, TxHoldsLock, ScannedRunsExist,
         PlanSteps, Idle, NoTx, PublishShards
<1>10. ASSUME NEW m \in Managers,
              \/ CommitDispatch(m) \/ CommitFinalize(m)
       PROVE  PlanTxKnowsStatus'
  BY <1>10, TxShape, ManagersAssumption
     DEF IInv, TypeOK, PlanTxKnowsStatus, TxHoldsLock, ScannedRunsExist,
         PlanSteps, Idle, NoTx, CommitDispatch, EndTx, CommitFinalize
<1>11. ASSUME NEW m \in Managers, ReadVerdict(m) PROVE PlanTxKnowsStatus'
  BY <1>11, TxShape, ManagersAssumption
     DEF IInv, TypeOK, PlanTxKnowsStatus, TxHoldsLock, ScannedRunsExist,
         PlanSteps, Idle, NoTx, ReadVerdict, AnyFailed
<1>13. ASSUME NEW m \in Managers, CheckBudgets(m) PROVE PlanTxKnowsStatus'
  BY <1>13, TxShape, ManagersAssumption
     DEF IInv, TypeOK, PlanTxKnowsStatus, TxHoldsLock, ScannedRunsExist,
         PlanSteps, Idle, NoTx, CheckBudgets, Budgeted
<1>14. CASE UNCHANGED <<status, tx>>
  BY <1>14 DEF IInv, PlanTxKnowsStatus, TxHoldsLock, ScannedRunsExist,
         PlanSteps, Idle, NoTx
<1>15. ASSUME NEW m \in Managers, NEW k \in sweep[m],
              BeginReschedule(m, k)
       PROVE  PlanTxKnowsStatus'
  BY <1>15, TxShape, ManagersAssumption
     DEF TypeOK, SweptWasPreempted, ShardIds, PlanSteps, BeginReschedule,
         IInv, PlanTxKnowsStatus, TxHoldsLock, ScannedRunsExist, PlanSteps,
         Idle, NoTx
<1>16. ASSUME NEW m \in Managers, EndTx(m), UNCHANGED <<status, manifest>>
       PROVE  PlanTxKnowsStatus'
  BY <1>16, TxShape, ManagersAssumption
     DEF TypeOK, EndTx, IInv, PlanTxKnowsStatus, TxHoldsLock,
         ScannedRunsExist, PlanSteps, Idle, NoTx
<1>. QED
  BY <1>1, <1>2, <1>3, <1>4, <1>5, <1>6, <1>7, <1>8, <1>9, <1>10, <1>11,
     <1>13, <1>14, <1>15, <1>16
     DEF Next, vars, ApiStep, TryHandle, RescheduleOne, WorkerStep,
         CreateInsertManifest,
         CreateLoseManifest, Deadline, Scan, SkipLocked, ClaimPolled,
         ClaimDelivered, AckMessage, FinishShard,
         SweepScan, SkipReschedule, Reschedule, RescheduleNothing,
         PreemptShard, WriteLate, Rollback, Crash

\* Manifests are not deleted.
LEMMA StepInsertHasManifest ==
    ASSUME IInv, TypeOK', [Next]_vars PROVE InsertHasManifest'
<1>. USE DEF runVars, intake, replayVars, shardVars, mgrVars
<1>1. ASSUME NEW r \in Runs,
             \/ CreateInsertManifest(r) \/ RerunFailed(r)
      PROVE  InsertHasManifest'
  BY <1>1, TxShape
     DEF IInv, TypeOK, InsertHasManifest, NoTx, CreateInsertManifest,
         RerunFailed
<1>2. ASSUME NEW m \in Managers, NEW t \in todo[m],
             BeginPlan(m, t)
      PROVE  InsertHasManifest'
  BY <1>2, TxShape
     DEF IInv, TypeOK, InsertHasManifest, NoTx, BeginPlan, BeginTx, IsNext
<1>3. ASSUME NEW m \in Managers, NEW t \in todo[m],
             \/ BeginDispatch(m, t) \/ BeginFinalize(m, t)
      PROVE  InsertHasManifest'
  BY <1>3, TxShape
     DEF IInv, TypeOK, InsertHasManifest, NoTx, BeginDispatch, BeginTx,
         IsNext, BeginFinalize
<1>4. ASSUME NEW m \in Managers, LoadManifest(m) PROVE InsertHasManifest'
  BY <1>4, TxShape
     DEF IInv, TypeOK, InsertHasManifest, NoTx, LoadManifest
<1>5. ASSUME NEW m \in Managers, NEW n \in 1 .. MaxShards,
             CommitPlan(m, n)
      PROVE  InsertHasManifest'
  BY <1>5, TxShape
     DEF IInv, TypeOK, InsertHasManifest, NoTx, CommitPlan, EndTx,
         UniqueViolation
<1>6. ASSUME NEW m \in Managers, NEW n \in 1 .. MaxShards,
             AbortPlan(m, n)
      PROVE  InsertHasManifest'
  BY <1>6, TxShape
     DEF IInv, TypeOK, InsertHasManifest, NoTx, AbortPlan, EndTx
<1>7. ASSUME NEW m \in Managers, CommitPlanFailed(m) PROVE InsertHasManifest'
  BY <1>7, TxShape
     DEF IInv, TypeOK, InsertHasManifest, NoTx, CommitPlanFailed, EndTx
<1>8. ASSUME NEW m \in Managers, PublishShards(m) PROVE InsertHasManifest'
  BY <1>8, TxShape
     DEF IInv, TypeOK, InsertHasManifest, NoTx, PublishShards
<1>9. ASSUME NEW m \in Managers,
             \/ CommitDispatch(m) \/ CommitFinalize(m)
      PROVE  InsertHasManifest'
  BY <1>9, TxShape
     DEF IInv, TypeOK, InsertHasManifest, NoTx, CommitDispatch, EndTx,
         CommitFinalize
<1>10. ASSUME NEW m \in Managers, ReadVerdict(m) PROVE InsertHasManifest'
  BY <1>10, TxShape
     DEF IInv, TypeOK, InsertHasManifest, NoTx, ReadVerdict, AnyFailed
<1>12. CASE UNCHANGED <<manifest, tx>>
  BY <1>12 DEF IInv, InsertHasManifest, NoTx
<1>13. ASSUME NEW m \in Managers, NEW k \in sweep[m],
              BeginReschedule(m, k)
       PROVE  InsertHasManifest'
  BY <1>13, TxShape
     DEF TypeOK, SweptWasPreempted, ShardIds, PlanSteps, BeginReschedule,
         IInv, InsertHasManifest, NoTx
<1>14. ASSUME NEW m \in Managers, EndTx(m), UNCHANGED <<status, manifest>>
       PROVE  InsertHasManifest'
  BY <1>14, TxShape
     DEF TypeOK, EndTx, IInv, InsertHasManifest, NoTx
<1>. QED
  BY <1>1, <1>2, <1>3, <1>4, <1>5, <1>6, <1>7, <1>8, <1>9, <1>10,
     <1>12, <1>13, <1>14
     DEF Next, vars, ApiStep, TryHandle, RescheduleOne, WorkerStep,
         CreateInsertRun,
         CreateLoseManifest, Cancel, Deadline, Scan, SkipLocked,
         CheckBudgets, ClaimPolled, ClaimDelivered, AckMessage, FinishShard,
         StartFinalizing,
         SweepScan, SkipReschedule, Reschedule, RescheduleNothing,
         PreemptShard, WriteLate, Rollback, Crash

\* Runs are not deleted, and 'finalizing' is left for an outcome.
LEMMA StepScannedRunsExist ==
    ASSUME IInv, TypeOK', [Next]_vars PROVE ScannedRunsExist'
<1>. USE DEF runVars, intake, replayVars, shardVars, mgrVars
<1>1. ASSUME NEW r \in Runs, NEW b \in BOOLEAN,
             CreateInsertRun(r, b)
      PROVE  ScannedRunsExist'
  BY <1>1, TxShape
     DEF IInv, TypeOK, ScannedRunsExist, PlanTxKnowsStatus, PlanSteps,
         Finalized, Scannable, CreateInsertRun
<1>2. ASSUME NEW r \in Runs,
             \/ RerunFailed(r) \/ Cancel(r) \/ StartFinalizing(r)
      PROVE  ScannedRunsExist'
  BY <1>2, TxShape
     DEF IInv, TypeOK, ScannedRunsExist, PlanTxKnowsStatus, PlanSteps,
         Finalized, Scannable, RerunFailed, Cancel, RowLocked,
         StartFinalizing
<1>3. ASSUME NEW m \in Managers,
             \/ CommitPlanFailed(m) \/ CommitDispatch(m)
             \/ CommitFinalize(m) \/ CheckBudgets(m)
      PROVE  ScannedRunsExist'
  BY <1>3, TxShape
     DEF IInv, TypeOK, ScannedRunsExist, PlanTxKnowsStatus, PlanSteps,
         Finalized, Scannable, CommitPlanFailed, EndTx,
         CommitDispatch, CommitFinalize, CheckBudgets, Budgeted
<1>7. ASSUME NEW m \in Managers, Scan(m) PROVE ScannedRunsExist'
  BY <1>7 DEF IInv, TypeOK, ScannedRunsExist, Finalized, Scannable, Scan,
              ScanEligible
<1>8. ASSUME NEW m \in Managers, Crash(m) PROVE ScannedRunsExist'
  BY <1>8 DEF IInv, TypeOK, ScannedRunsExist, Crash
<1>4. ASSUME NEW m \in Managers, NEW t \in todo[m],
             \/ SkipLocked(m, t) \/ BeginPlan(m, t) \/ BeginDispatch(m, t)
             \/ BeginFinalize(m, t)
      PROVE  ScannedRunsExist'
  BY <1>4, TxShape
     DEF IInv, TypeOK, ScannedRunsExist, PlanTxKnowsStatus, PlanSteps,
         Finalized, Scannable, SkipLocked, BeginPlan, BeginTx, IsNext,
         BeginDispatch, BeginFinalize
<1>5. ASSUME NEW m \in Managers, NEW n \in 1 .. MaxShards,
             CommitPlan(m, n)
      PROVE  ScannedRunsExist'
  BY <1>5, TxShape
     DEF IInv, TypeOK, ScannedRunsExist, PlanTxKnowsStatus, PlanSteps,
         Finalized, Scannable, CommitPlan, EndTx, UniqueViolation
<1>6. CASE UNCHANGED <<status, todo>>
  BY <1>6 DEF IInv, ScannedRunsExist, PlanTxKnowsStatus, PlanSteps,
         Finalized, Scannable
<1>. QED
  BY <1>1, <1>2, <1>3, <1>4, <1>5, <1>6, <1>7, <1>8
     DEF Next, vars, ApiStep, TryHandle, RescheduleOne, WorkerStep,
         CreateInsertManifest,
         CreateLoseManifest, Deadline, LoadManifest, AbortPlan,
         PublishShards, ReadVerdict, Rollback, ClaimPolled, ClaimDelivered,
         AckMessage, FinishShard,
         SweepScan, SkipReschedule, BeginReschedule, Reschedule,
         RescheduleNothing,
         PreemptShard, WriteLate

\* The same for the run of a finalize transaction.
LEMMA StepFinalizeTxKnowsStatus ==
    ASSUME IInv, TypeOK', [Next]_vars PROVE FinalizeTxKnowsStatus'
<1>. USE DEF runVars, intake, replayVars, shardVars, mgrVars
<1>1. ASSUME NEW r \in Runs, NEW b \in BOOLEAN,
             CreateInsertRun(r, b)
      PROVE  FinalizeTxKnowsStatus'
  BY <1>1, TxShape
     DEF IInv, TypeOK, FinalizeTxKnowsStatus, ScannedRunsExist, TxHoldsLock,
         PlanTxKnowsStatus, PlanSteps, Finalized, Idle, NoTx,
         CreateInsertRun
<1>2. ASSUME NEW r \in Runs,
             \/ RerunFailed(r) \/ Cancel(r) \/ StartFinalizing(r)
      PROVE  FinalizeTxKnowsStatus'
  BY <1>2, TxShape
     DEF IInv, TypeOK, FinalizeTxKnowsStatus, ScannedRunsExist, TxHoldsLock,
         PlanTxKnowsStatus, PlanSteps, Finalized, Idle, NoTx, RerunFailed,
         Cancel, RowLocked, StartFinalizing
<1>3. ASSUME NEW m \in Managers, NEW t \in todo[m],
             BeginPlan(m, t)
      PROVE  FinalizeTxKnowsStatus'
  BY <1>3, TxShape
     DEF IInv, TypeOK, FinalizeTxKnowsStatus, ScannedRunsExist, TxHoldsLock,
         PlanTxKnowsStatus, PlanSteps, Finalized, Idle, NoTx, BeginPlan,
         BeginTx, IsNext
<1>4. ASSUME NEW m \in Managers, NEW t \in todo[m],
             \/ BeginDispatch(m, t) \/ BeginFinalize(m, t)
      PROVE  FinalizeTxKnowsStatus'
  BY <1>4, TxShape
     DEF IInv, TypeOK, FinalizeTxKnowsStatus, ScannedRunsExist, TxHoldsLock,
         PlanTxKnowsStatus, PlanSteps, Finalized, Idle, NoTx, BeginDispatch,
         BeginTx, IsNext, BeginFinalize
<1>5. ASSUME NEW m \in Managers, LoadManifest(m) PROVE FinalizeTxKnowsStatus'
  BY <1>5, TxShape
     DEF IInv, TypeOK, FinalizeTxKnowsStatus, ScannedRunsExist, TxHoldsLock,
         PlanTxKnowsStatus, PlanSteps, Finalized, Idle, NoTx, LoadManifest
<1>6. ASSUME NEW m \in Managers, NEW n \in 1 .. MaxShards,
             CommitPlan(m, n)
      PROVE  FinalizeTxKnowsStatus'
  BY <1>6, TxShape
     DEF IInv, TypeOK, FinalizeTxKnowsStatus, ScannedRunsExist, TxHoldsLock,
         PlanTxKnowsStatus, PlanSteps, Finalized, Idle, NoTx, CommitPlan,
         EndTx, UniqueViolation
<1>7. ASSUME NEW m \in Managers, NEW n \in 1 .. MaxShards,
             AbortPlan(m, n)
      PROVE  FinalizeTxKnowsStatus'
  BY <1>7, TxShape
     DEF IInv, TypeOK, FinalizeTxKnowsStatus, ScannedRunsExist, TxHoldsLock,
         PlanTxKnowsStatus, PlanSteps, Finalized, Idle, NoTx, AbortPlan,
         EndTx
<1>8. ASSUME NEW m \in Managers,
             CommitPlanFailed(m)
      PROVE  FinalizeTxKnowsStatus'
  BY <1>8, TxShape
     DEF IInv, TypeOK, FinalizeTxKnowsStatus, ScannedRunsExist, TxHoldsLock,
         PlanTxKnowsStatus, PlanSteps, Finalized, Idle, NoTx,
         CommitPlanFailed, EndTx
<1>9. ASSUME NEW m \in Managers,
             PublishShards(m)
      PROVE  FinalizeTxKnowsStatus'
  BY <1>9, TxShape
     DEF IInv, TypeOK, FinalizeTxKnowsStatus, ScannedRunsExist, TxHoldsLock,
         PlanTxKnowsStatus, PlanSteps, Finalized, Idle, NoTx, PublishShards
<1>10. ASSUME NEW m \in Managers,
              \/ CommitDispatch(m) \/ CommitFinalize(m)
       PROVE  FinalizeTxKnowsStatus'
  BY <1>10, TxShape
     DEF IInv, TypeOK, FinalizeTxKnowsStatus, ScannedRunsExist, TxHoldsLock,
         PlanTxKnowsStatus, PlanSteps, Finalized, Idle, NoTx, CommitDispatch,
         EndTx, CommitFinalize
<1>11. ASSUME NEW m \in Managers, ReadVerdict(m) PROVE FinalizeTxKnowsStatus'
  BY <1>11, TxShape
     DEF IInv, TypeOK, FinalizeTxKnowsStatus, ScannedRunsExist, TxHoldsLock,
         PlanTxKnowsStatus, PlanSteps, Finalized, Idle, NoTx, ReadVerdict,
         AnyFailed
<1>13. ASSUME NEW m \in Managers,
              CheckBudgets(m)
       PROVE  FinalizeTxKnowsStatus'
  BY <1>13, TxShape
     DEF IInv, TypeOK, FinalizeTxKnowsStatus, ScannedRunsExist, TxHoldsLock,
         PlanTxKnowsStatus, PlanSteps, Finalized, Idle, NoTx, CheckBudgets,
         Budgeted
<1>14. CASE UNCHANGED <<status, tx>>
  BY <1>14 DEF IInv, FinalizeTxKnowsStatus, ScannedRunsExist, TxHoldsLock,
         PlanTxKnowsStatus, PlanSteps, Finalized, Idle, NoTx
<1>15. ASSUME NEW m \in Managers, NEW k \in sweep[m],
              BeginReschedule(m, k)
       PROVE  FinalizeTxKnowsStatus'
  BY <1>15, TxShape
     DEF TypeOK, SweptWasPreempted, ShardIds, PlanSteps, BeginReschedule,
         IInv, FinalizeTxKnowsStatus, ScannedRunsExist, TxHoldsLock,
         PlanTxKnowsStatus, PlanSteps, Finalized, Idle, NoTx
<1>16. ASSUME NEW m \in Managers, EndTx(m), UNCHANGED <<status, manifest>>
       PROVE  FinalizeTxKnowsStatus'
  BY <1>16, TxShape
     DEF TypeOK, EndTx, IInv, FinalizeTxKnowsStatus, ScannedRunsExist,
         TxHoldsLock, PlanTxKnowsStatus, PlanSteps, Finalized, Idle, NoTx
<1>. QED
  BY <1>1, <1>2, <1>3, <1>4, <1>5, <1>6, <1>7, <1>8, <1>9, <1>10, <1>11,
     <1>13, <1>14, <1>15, <1>16
     DEF Next, vars, ApiStep, TryHandle, RescheduleOne, WorkerStep,
         CreateInsertManifest,
         CreateLoseManifest, Deadline, Scan, SkipLocked, ClaimPolled,
         ClaimDelivered, AckMessage, FinishShard,
         SweepScan, SkipReschedule, Reschedule, RescheduleNothing,
         PreemptShard, WriteLate, Rollback, Crash

\* How a committed status may move in one step.
StatusMove(r) ==
    \/ status'[r] = status[r]
    \/ status[r] = "absent" /\ status'[r] = "pending"
    \/ status[r] = "pending" /\ status'[r] = "dispatching"
    \/ status[r] = "dispatching" /\ status'[r] = "running"
    \/ status[r] = "running" /\ status'[r] = "finalizing"
    \/ status[r] = "finalizing" /\ status'[r] = "succeeded"
    \/ status[r] \in RunStatuses \ Terminal /\ status'[r] = "failed"
    \/ status[r] \in RunStatuses \ (Terminal \cup {"finalizing"})
          /\ status'[r] = "cancelled"

\* How a step moves the status of a run that exists.
LEMMA StatusMoves ==
    ASSUME IInv, [Next]_vars, NEW r \in Runs PROVE StatusMove(r)
<1>. USE DEF runVars, intake, replayVars, shardVars, mgrVars
<1>1. ASSUME NEW q \in Runs, NEW b \in BOOLEAN,
             \/ CreateInsertRun(q, b) \/ RerunFailed(q) \/ Cancel(q)
             \/ StartFinalizing(q)
      PROVE  StatusMove(r)
  BY <1>1 DEF IInv, TypeOK, StatusMove, CreateInsertRun, RerunFailed, Cancel,
              StartFinalizing, RunStatuses, Terminal
<1>2. ASSUME NEW m \in Managers, NEW n \in 1 .. MaxShards, CommitPlan(m, n)
      PROVE  StatusMove(r)
  BY <1>2, TxShape
     DEF IInv, TypeOK, PlanTxKnowsStatus, PlanSteps, StatusMove, CommitPlan
<1>3. ASSUME NEW m \in Managers, CommitPlanFailed(m) PROVE StatusMove(r)
  BY <1>3, TxShape
     DEF IInv, TypeOK, TxHoldsLock, Idle, StatusMove, CommitPlanFailed,
         RunStatuses, Terminal
<1>4. ASSUME NEW m \in Managers,
             CommitDispatch(m) \/ CommitFinalize(m) \/ CheckBudgets(m)
      PROVE  StatusMove(r)
  BY <1>4, TxShape
     DEF IInv, TypeOK, StatusMove, CommitDispatch, CommitFinalize,
         CheckBudgets, Budgeted, RunStatuses, Terminal
<1>5. CASE UNCHANGED status
  BY <1>5 DEF StatusMove
<1>. QED
  BY <1>1, <1>2, <1>3, <1>4, <1>5, ZenonT(60)
     DEF Next, vars, ApiStep, TryHandle, RescheduleOne, WorkerStep,
         CreateInsertManifest,
         CreateLoseManifest, Deadline, Scan, SkipLocked, BeginPlan, BeginTx,
         BeginDispatch, BeginFinalize, LoadManifest, AbortPlan,
         PublishShards, ReadVerdict, Rollback, Crash, ClaimPolled,
         ClaimDelivered, AckMessage, FinishShard, SweepScan, SkipReschedule,
         BeginReschedule, Reschedule, RescheduleNothing,
         PreemptShard, WriteLate

\* How a step moves a shard row, and whether its worker still writes to it.
ShardMove(k) ==
    \/ shard'[k] = shard[k] /\ (k \in late' <=> k \in late)
    \/ shard[k] = "none" /\ shard'[k] = "pending" /\ (k \in late' <=> k \in late)
    \/ shard[k] = "pending" /\ shard'[k] = "running" /\ (k \in late' <=> k \in late)
    \/ shard[k] = "running" /\ shard'[k] \in {"succeeded", "failed"}
          /\ (k \in late' <=> k \in late)
    \/ shard[k] = "running" /\ shard'[k] = "preempted"
    \/ k \in late /\ k \notin late' /\ shard'[k] \in {"succeeded", "failed"}
    \/ shard[k] \in Replayable /\ shard'[k] = "succeeded"
          /\ (k \in late' <=> k \in late)

\* Every step moves every shard row so.
LEMMA ShardMoves ==
    ASSUME IInv, [Next]_vars, NEW k \in ShardIds PROVE ShardMove(k)
<1>. USE DEF runVars, intake, replayVars, shardVars, mgrVars
<1>1. ASSUME NEW m \in Managers, NEW n \in 1 .. MaxShards, CommitPlan(m, n)
      PROVE  ShardMove(k)
  <2>1. PICK q \in Runs, i \in Indexes : k = <<q, i>>
    BY DEF ShardIds
  <2>2. CASE q = tx[m].run
    <3>1. shard[k] = "none"
      BY <1>1, <2>1, <2>2, PlansOnce
    <3>. QED
      BY <1>1, <3>1 DEF CommitPlan, ShardMove
  <2>3. CASE q # tx[m].run
    BY <1>1, <2>1, <2>3 DEF CommitPlan, ShardMove
  <2>. QED
    BY <2>2, <2>3
<1>2. ASSUME NEW m \in Managers, Reschedule(m) PROVE ShardMove(k)
  <2>. DEFINE j == <<tx[m].run, Cardinality(RowsOf(tx[m].run))>>
  <2>1. j \in ShardIds /\ shard[j] = "none"
    BY <1>2, ReplaysAppend
  <2>2. shard' = [shard EXCEPT ![j] = "pending"] /\ late' = late
    BY <1>2 DEF Reschedule
  <2>. HIDE DEF j
  <2>. QED
    BY <2>1, <2>2 DEF IInv, TypeOK, ShardMove
<1>3. ASSUME NEW m \in Managers, RescheduleNothing(m) PROVE ShardMove(k)
  BY <1>3, TxShard
     DEF RescheduleNothing, IInv, TypeOK, SweptWasPreempted, ShardMove
<1>4. ASSUME NEW j \in ShardIds, NEW o \in {"succeeded", "failed"},
             NEW b \in BOOLEAN,
             \/ ClaimPolled(j) \/ ClaimDelivered(j) \/ FinishShard(j, o)
             \/ WriteLate(j, o) \/ PreemptShard(j, b)
      PROVE  ShardMove(k)
  BY <1>4 DEF ClaimPolled, ClaimDelivered, FinishShard, WriteLate,
              PreemptShard, IInv, TypeOK, ShardMove
<1>5. CASE UNCHANGED <<shard, late>>
  BY <1>5 DEF ShardMove
<1>. QED
  BY <1>1, <1>2, <1>3, <1>4, <1>5, ZenonT(60)
     DEF Next, vars, ApiStep, TryHandle, RescheduleOne, WorkerStep,
         CreateInsertRun, CreateInsertManifest, CreateLoseManifest,
         RerunFailed, Cancel, Deadline, Scan, SkipLocked, BeginPlan, BeginTx,
         BeginDispatch, BeginFinalize, LoadManifest, AbortPlan,
         CommitPlanFailed, PublishShards, CommitDispatch, ReadVerdict,
         CommitFinalize, Rollback, Crash, CheckBudgets, AckMessage,
         StartFinalizing, SweepScan, SkipReschedule, BeginReschedule

\* Where the work of a sweep comes from.
LEMMA SweepMoves ==
    ASSUME IInv, [Next]_vars, NEW m \in Managers
    PROVE  sweep'[m] \subseteq sweep[m] \cup SweepEligible
<1>. USE DEF runVars, intake, replayVars, shardVars, mgrVars
<1>1. ASSUME NEW q \in Managers, SweepScan(q) \/ Crash(q)
      PROVE  sweep'[m] \subseteq sweep[m] \cup SweepEligible
  BY <1>1 DEF IInv, TypeOK, SweepScan, Crash
<1>2. ASSUME NEW q \in Managers, NEW k \in sweep[q],
             SkipReschedule(q, k) \/ BeginReschedule(q, k)
      PROVE  sweep'[m] \subseteq sweep[m] \cup SweepEligible
  BY <1>2 DEF IInv, TypeOK, SkipReschedule, BeginReschedule
<1>3. CASE UNCHANGED sweep
  BY <1>3
<1>. QED
  BY <1>1, <1>2, <1>3, ZenonT(60)
     DEF Next, vars, ApiStep, TryHandle, RescheduleOne, WorkerStep,
         CreateInsertRun, CreateInsertManifest, CreateLoseManifest,
         RerunFailed, Cancel, Deadline, Scan, SkipLocked, BeginPlan, BeginTx,
         BeginDispatch, BeginFinalize, LoadManifest, CommitPlan, AbortPlan,
         CommitPlanFailed, PublishShards, CommitDispatch, ReadVerdict,
         CommitFinalize, Rollback, CheckBudgets, AckMessage, StartFinalizing,
         ClaimPolled, ClaimDelivered, FinishShard, WriteLate, PreemptShard,
         Reschedule, RescheduleNothing

\* Where a transaction that replays, and one with a verdict, comes from.
TxMove(m) ==
    /\ tx'[m].step = "reschedule" =>
          tx'[m] = tx[m] \/ <<tx'[m].run, tx'[m].index>> \in sweep[m]
    /\ tx'[m].step = "verdict" => tx'[m] = tx[m] \/ ReadVerdict(m)

\* Every step moves every transaction so.
LEMMA TxMoves ==
    ASSUME IInv, [Next]_vars, NEW m \in Managers
    PROVE  TxMove(m)
<1>. USE DEF runVars, intake, replayVars, shardVars, mgrVars
<1>1. ASSUME NEW q \in Managers, NEW t \in todo[q],
             BeginPlan(q, t) \/ BeginDispatch(q, t) \/ BeginFinalize(q, t)
      PROVE  TxMove(m)
  BY <1>1 DEF TxMove, IInv, TypeOK, BeginPlan, BeginDispatch, BeginFinalize,
     BeginTx
<1>2. ASSUME NEW q \in Managers, NEW k \in sweep[q], BeginReschedule(q, k)
      PROVE  TxMove(m)
  <2>1. k = <<k[1], k[2]>>
    BY DEF IInv, TypeOK, ShardIds
  <2>. QED
    BY <1>2, <2>1 DEF TxMove, IInv, TypeOK, BeginReschedule
<1>3. ASSUME NEW q \in Managers,
LoadManifest(q) \/ PublishShards(q) PROVE TxMove(m)
  BY <1>3 DEF TxMove, IInv, TypeOK, Transactions, NoTx, LoadManifest,
     PublishShards
<1>4. ASSUME NEW q \in Managers, ReadVerdict(q) PROVE TxMove(m)
  <2>1. CASE q = m
    <3>1. tx'[m].step = "verdict"
      BY <1>4, <2>1 DEF IInv, TypeOK, Transactions, NoTx, ReadVerdict
    <3>. QED
      BY <1>4, <2>1, <3>1 DEF TxMove
  <2>2. CASE q # m
    BY <1>4, <2>2 DEF TxMove, IInv, TypeOK, ReadVerdict
  <2>. QED
    BY <2>1, <2>2
<1>5. ASSUME NEW q \in Managers, EndTx(q) PROVE TxMove(m)
  BY <1>5 DEF TxMove, IInv, TypeOK, EndTx, NoTx
<1>6. CASE UNCHANGED tx
  BY <1>6 DEF TxMove
<1>7. \/ \E q \in Managers : EndTx(q)
      \/ \E q \in Managers : LoadManifest(q) \/ PublishShards(q) \/ ReadVerdict(q)
      \/ \E q \in Managers : \E t \in todo[q] :
            BeginPlan(q, t) \/ BeginDispatch(q, t) \/ BeginFinalize(q, t)
      \/ \E q \in Managers : \E k \in sweep[q] : BeginReschedule(q, k)
      \/ UNCHANGED tx
  BY ZenonT(60)
     DEF Next, vars, ApiStep, TryHandle, RescheduleOne, WorkerStep,
         CreateInsertRun, CreateInsertManifest, CreateLoseManifest,
         RerunFailed, Cancel, Deadline, Scan, SkipLocked, CommitPlan,
         AbortPlan, CommitPlanFailed, CommitDispatch, CommitFinalize,
         Rollback, Crash, CheckBudgets, AckMessage, StartFinalizing,
         ClaimPolled, ClaimDelivered, FinishShard, WriteLate, PreemptShard,
         SweepScan, SkipReschedule, Reschedule, RescheduleNothing
<1>. QED
  BY <1>1, <1>2, <1>3, <1>4, <1>5, <1>6, <1>7, Zenon

\* When failures go on record.
LEMMA RecordMoves ==
    ASSUME IInv, [Next]_vars, NEW k \in onRecord'
    PROVE  \/ k \in onRecord
           \/ /\ status[k[1]] = "running" /\ status'[k[1]] = "finalizing"
              /\ k \in ShardIds /\ CountsAsFailed(k)
              /\ shard' = shard /\ late' = late /\ tx' = tx
<1>. USE DEF runVars, intake, replayVars, shardVars, mgrVars
<1>1. CASE onRecord' = onRecord
  BY <1>1
<1>2. ASSUME NEW r \in Runs, StartFinalizing(r)
      PROVE  \/ k \in onRecord
             \/ /\ status[k[1]] = "running" /\ status'[k[1]] = "finalizing"
                /\ k \in ShardIds /\ CountsAsFailed(k)
                /\ shard' = shard /\ late' = late /\ tx' = tx
  BY <1>2 DEF StartFinalizing, IInv, TypeOK
<1>3. onRecord' = onRecord \/ \E r \in Runs : StartFinalizing(r)
  BY ZenonT(60)
     DEF Next, vars, ApiStep, TryHandle, RescheduleOne, WorkerStep,
         CreateInsertRun, CreateInsertManifest, CreateLoseManifest,
         RerunFailed, Cancel, Deadline, Scan, SkipLocked, BeginPlan, BeginTx,
         BeginDispatch, BeginFinalize, LoadManifest, CommitPlan, AbortPlan,
         CommitPlanFailed, PublishShards, CommitDispatch, ReadVerdict,
         CommitFinalize, Rollback, Crash, CheckBudgets, AckMessage,
         ClaimPolled, ClaimDelivered, FinishShard, WriteLate, PreemptShard,
         SweepScan, SkipReschedule, BeginReschedule, Reschedule,
         RescheduleNothing
<1>. QED
  BY <1>1, <1>2, <1>3

\* A run that is reported succeeded was 'finalizing', and the verdict that was
\* written had seen no failure.
LEMMA SuccessMoves ==
    ASSUME IInv, [Next]_vars, NEW r \in Runs,
           status[r] # "succeeded", status'[r] = "succeeded"
    PROVE  /\ UNCHANGED <<shard, late, onRecord>>
           /\ \E m \in Managers :
                 tx[m].step = "verdict" /\ tx[m].run = r /\ ~tx[m].anyFailed
<1>. USE DEF runVars, intake, replayVars, shardVars, mgrVars
<1>1. ASSUME NEW q \in Runs, NEW b \in BOOLEAN,
             \/ CreateInsertRun(q, b) \/ RerunFailed(q) \/ Cancel(q)
             \/ StartFinalizing(q)
      PROVE  FALSE
  BY <1>1 DEF IInv, TypeOK, CreateInsertRun, RerunFailed, Cancel,
              StartFinalizing
<1>2. ASSUME NEW m \in Managers, NEW n \in 1 .. MaxShards,
             \/ CommitPlan(m, n) \/ CommitPlanFailed(m) \/ CommitDispatch(m)
             \/ CheckBudgets(m)
      PROVE  FALSE
  BY <1>2, TxShape DEF IInv, TypeOK, CommitPlan, CommitPlanFailed,
                       CommitDispatch, CheckBudgets
<1>3. ASSUME NEW m \in Managers, CommitFinalize(m)
      PROVE  /\ UNCHANGED <<shard, late, onRecord>>
             /\ tx[m].step = "verdict" /\ tx[m].run = r /\ ~tx[m].anyFailed
  BY <1>3, TxShape DEF IInv, TypeOK, CommitFinalize
<1>4. CASE UNCHANGED status
  BY <1>4
<1>5. 1 \in 1 .. MaxShards /\ TRUE \in BOOLEAN
  BY MaxShardsAssumption
<1>. QED
  BY <1>1, <1>2, <1>3, <1>4, <1>5, ZenonT(60)
     DEF Next, vars, ApiStep, TryHandle, RescheduleOne, WorkerStep,
         CreateInsertManifest, CreateLoseManifest, Deadline, Scan,
         SkipLocked, BeginPlan, BeginTx, BeginDispatch, BeginFinalize,
         LoadManifest, AbortPlan, PublishShards, ReadVerdict, Rollback,
         Crash, AckMessage, ClaimPolled, ClaimDelivered, FinishShard,
         WriteLate, PreemptShard, SweepScan, SkipReschedule, BeginReschedule,
         Reschedule, RescheduleNothing

\* What concerns replays, late outcomes and the verdict is kept.
LEMMA StepReplays ==
    ASSUME IInv, TypeOK', [Next]_vars
    PROVE  /\ SweptWasPreempted' /\ LateWasPreempted' /\ OnRecordIsEnded'
           /\ VerdictStaysTrue' /\ FailureIsNotOverlooked'
<1>1. \A k \in ShardIds : shard[k] \in Replayable => shard'[k] \in Replayable
  BY ShardMoves DEF ShardMove, Replayable
<1>2. SweptWasPreempted'
  <2>1. ASSUME NEW m \in Managers, NEW k \in sweep'[m]
        PROVE  status'[k[1]] # "absent" /\ shard'[k] \in Replayable
    <3>1. k \in ShardIds /\ k[1] \in Runs
      BY DEF TypeOK, ShardIds
    <3>2. status[k[1]] # "absent" /\ shard[k] \in Replayable
      BY SweepMoves DEF IInv, SweptWasPreempted, SweepEligible, Replayable
    <3>. QED
      BY <1>1, <3>1, <3>2, StatusMoves DEF StatusMove
  <2>2. ASSUME NEW m \in Managers, tx'[m].step = "reschedule"
        PROVE  shard'[<<tx'[m].run, tx'[m].index>>] \in Replayable
    <3>. DEFINE k == <<tx'[m].run, tx'[m].index>>
    <3>1. k \in ShardIds
      BY <2>2 DEF TypeOK, Transactions, NoTx, ShardIds
    <3>2. shard[k] \in Replayable
      BY <2>2, TxMoves DEF TxMove, IInv, SweptWasPreempted
    <3>. QED
      BY <1>1, <3>1, <3>2
  <2>. QED
    BY <2>1, <2>2 DEF SweptWasPreempted
<1>3. LateWasPreempted'
  BY ShardMoves DEF IInv, TypeOK, LateWasPreempted, ShardMove
<1>4. ASSUME NEW k \in ShardIds, k \notin late,
             shard[k] \in {"failed", "lost", "succeeded"}
      PROVE  /\ k \notin late' /\ shard'[k] \in {"failed", "lost", "succeeded"}
             /\ shard[k] = "succeeded" => shard'[k] = "succeeded"
  BY <1>4, ShardMoves DEF ShardMove, Replayable
<1>5. \A k \in onRecord' : k \in ShardIds /\ k[1] \in Runs
  BY DEF TypeOK, ShardIds
<1>6. OnRecordIsEnded'
  <2>. SUFFICES ASSUME NEW k \in onRecord'
                PROVE  /\ status'[k[1]] \in Finalized
                       /\ k \notin late'
                       /\ shard'[k] \in {"failed", "lost", "succeeded"}
    BY DEF OnRecordIsEnded
  <2>1. CASE k \in onRecord
    <3>1. /\ status[k[1]] \in Finalized /\ k \notin late
          /\ shard[k] \in {"failed", "lost", "succeeded"}
      BY <2>1 DEF IInv, OnRecordIsEnded
    <3>2. status'[k[1]] \in Finalized
      BY <1>5, <3>1, StatusMoves DEF StatusMove, Finalized, Terminal
    <3>. QED
      BY <1>4, <1>5, <3>1, <3>2
  <2>2. CASE k \notin onRecord
    BY <2>2, RecordMoves
       DEF IInv, LateWasPreempted, CountsAsFailed, Finalized
  <2>. QED
    BY <2>1, <2>2
<1>7. VerdictStaysTrue'
  <2>. SUFFICES ASSUME NEW m \in Managers, tx'[m].step = "verdict",
                       ~tx'[m].anyFailed, NEW k \in onRecord',
                       k[1] = tx'[m].run
                PROVE  shard'[k] = "succeeded"
    BY DEF VerdictStaysTrue
  <2>1. CASE tx'[m] = tx[m]
    <3>1. status[k[1]] \in Finalized
      BY <2>1 DEF IInv, FinalizeTxKnowsStatus
    <3>2. k \in onRecord
      BY <3>1, RecordMoves DEF Finalized
    <3>3. shard[k] = "succeeded" /\ k \notin late
      BY <2>1, <3>2 DEF IInv, VerdictStaysTrue, OnRecordIsEnded
    <3>. QED
      BY <1>4, <1>5, <3>3
  <2>2. CASE ReadVerdict(m)
    <3>1. tx'[m].run = tx[m].run /\ (tx'[m].anyFailed <=> AnyFailed(tx[m].run))
      BY <2>2 DEF IInv, TypeOK, Transactions, NoTx, ReadVerdict, AnyFailed
    <3>2. shard' = shard /\ onRecord' = onRecord
      BY <2>2 DEF ReadVerdict, shardVars, replayVars
    <3>3. ~CountsAsFailed(k)
      BY <1>5, <3>1 DEF AnyFailed
    <3>. QED
      BY <3>2, <3>3 DEF IInv, OnRecordIsEnded, CountsAsFailed
  <2>. QED
    BY <2>1, <2>2, TxMoves DEF TxMove
<1>8. FailureIsNotOverlooked'
  <2>. SUFFICES ASSUME NEW r \in Runs, status'[r] = "succeeded",
                       NEW k \in onRecord', k[1] = r
                PROVE  shard'[k] \notin {"failed", "lost"}
    BY DEF FailureIsNotOverlooked, CountsAsFailed
  <2>1. k \in onRecord
    BY RecordMoves
  <2>2. k \notin late /\ shard[k] \in {"failed", "lost", "succeeded"}
    BY <2>1 DEF IInv, OnRecordIsEnded
  <2>3. CASE status[r] = "succeeded"
    <3>1. shard[k] = "succeeded"
      BY <2>1, <2>2, <2>3 DEF IInv, FailureIsNotOverlooked, CountsAsFailed
    <3>. QED
      BY <1>4, <1>5, <2>2, <3>1
  <2>4. CASE status[r] # "succeeded"
    <3>1. shard' = shard
      BY <2>4, SuccessMoves
    <3>2. shard[k] = "succeeded"
      BY <2>1, <2>4, SuccessMoves DEF IInv, VerdictStaysTrue
    <3>. QED
      BY <3>1, <3>2
  <2>. QED
    BY <2>3, <2>4
<1>. QED
  BY <1>2, <1>3, <1>6, <1>7, <1>8

\* Every step keeps the invariant.
LEMMA InvStep == IInv /\ [Next]_vars => IInv'
<1>. SUFFICES ASSUME IInv, [Next]_vars PROVE IInv'
  OBVIOUS
<1>1. TypeOK'
  BY TypeStep DEF IInv
<1>. QED
  BY <1>1, StepRowsAreDense, StepPendingIsUnplanned, StepActiveIsPlanned,
     StepTxHoldsLock, StepPlanTxKnowsStatus, StepInsertHasManifest,
     StepScannedRunsExist, StepFinalizeTxKnowsStatus, StepReplays
     DEF IInv

\* The invariant that ties transactions, locks and work lists of the replicas
\* to the committed rows holds in every reachable state.
THEOREM Invariant == Spec => []IInv
BY InvInit, InvStep, PTL DEF Spec

\* However many replicas plan from stale scans and replay from stale sweeps,
\* the rows of a run are its plan's followed by replays, without a gap: plan's
\* transaction, UNIQUE(run_id, index) and the advisory lock suffice.
THEOREM PlanAgreement == Spec => []RowsAreDense
<1>1. IInv => RowsAreDense
  BY DEF IInv
<1>. QED
  BY <1>1, Invariant, PTL

\* A pending run never carries shards, so planning it can always succeed.
THEOREM PendingUnplanned == Spec => []PendingIsUnplanned
<1>1. IInv => PendingIsUnplanned
  BY DEF IInv
<1>. QED
  BY <1>1, Invariant, PTL

\* A run under way has a plan, shards and a manifest.
THEOREM ActivePlanned == Spec => []ActiveIsPlanned
<1>1. IInv => ActiveIsPlanned
  BY DEF IInv
<1>. QED
  BY <1>1, Invariant, PTL

\* finalize never reports success over a failure that was on record when the
\* run became 'finalizing', however late outcomes and stale sweeps write.
THEOREM VerdictSound == Spec => []FailureIsNotOverlooked
<1>1. IInv => FailureIsNotOverlooked
  BY DEF IInv
<1>. QED
  BY <1>1, Invariant, PTL

-----------------------------------------------------------------------------
(* Steps.                                                                  *)

\* No interleaving of cancels, budget sweeps and replicas with stale work
\* lists takes a run out of a terminal status.
THEOREM TerminalFinal == Spec => TerminalIsFinal
<1>1. IInv /\ [Next]_vars
        => [\A r \in Runs : status[r] \in Terminal => status'[r] = status[r]]_vars
  BY StatusMoves DEF StatusMove, Terminal, RunStatuses
<1>. QED
  BY <1>1, Invariant, PTL DEF Spec, TerminalIsFinal

\* A shard row is planned once and claimed once, and never runs again after it
\* was preempted or ended.
THEOREM ShardsOnlyAdvance == Spec => ShardsAdvance
<1>. DEFINE Advance ==
       \A k \in ShardIds :
          \/ shard'[k] = shard[k]
          \/ shard[k] = "none" /\ shard'[k] = "pending"
          \/ shard[k] = "pending" /\ shard'[k] = "running"
          \/ shard[k] = "running" /\ shard'[k] = "preempted"
          \/ shard[k] \notin {"none", "pending"}
                /\ shard'[k] \in {"succeeded", "failed"}
<1>1. ASSUME IInv, [Next]_vars PROVE Advance
  BY <1>1, ShardMoves DEF IInv, LateWasPreempted, ShardMove, Replayable
<1>2. IInv /\ [Next]_vars => [Advance]_vars
  BY <1>1
<1>. QED
  BY <1>2, Invariant, PTL DEF Spec, ShardsAdvance

\* RunLifecycle implements RunStateMachine: the guards spread over the Run
\* Manager, the API and the sweep together enforce the table of moves.
THEOREM Refinement == Spec => FollowsStateMachine
<1>. DEFINE mapped == [r \in Runs |-> ModelStatus(status[r])]
<1>1. Init => Abstract!Init
  BY DEF Init, Abstract!Init, ModelStatus
<1>2. ASSUME IInv, [Next]_vars PROVE Abstract!Next \/ mapped' = mapped
  <2>1. TypeOK /\ TypeOK'
    BY <1>2, TypeStep DEF IInv
  <2>2. mapped' \in [Runs -> Abstract!RunStatuses \cup {"absent"}]
    BY <2>1 DEF TypeOK, ModelStatus, RunStatuses, Abstract!RunStatuses
  <2>3. ASSUME NEW r \in Runs
        PROVE  \/ mapped'[r] = mapped[r]
               \/ mapped[r] = "absent" /\ mapped'[r] = "pending"
               \/ Abstract!VisibleMove(mapped[r], mapped'[r])
    BY <1>2, <2>1, StatusMoves
       DEF TypeOK, StatusMove, ModelStatus, RunStatuses, Terminal,
           Abstract!VisibleMove, Abstract!CanTransition, Abstract!allowed,
           Abstract!RunStatuses
  <2>. QED
    BY <2>2, <2>3 DEF Abstract!Next
<1>3. IInv /\ [Next]_vars => [Abstract!Next]_mapped
  BY <1>2
<1>. QED
  BY <1>1, <1>3, Invariant, PTL DEF Spec, FollowsStateMachine, Abstract!Spec
=============================================================================
