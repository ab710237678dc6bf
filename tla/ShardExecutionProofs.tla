------------------------ MODULE ShardExecutionProofs ------------------------
(***************************************************************************)
(* No two threads of the fleet execute the same shard; a replica of the    *)
(* Run Manager replays a shard once at most; until something is replayed   *)
(* the workers share the tests out exactly.  Proved for any number of      *)
(* workers, replicas, tests and shards, and any bound on the faults.       *)
(***************************************************************************)
EXTENDS ShardExecution, FiniteSetTheorems, TLAPS

\* count(*) is the first index without a row.
LEMMA RowCount ==
    ASSUME RowsAreContiguous
    PROVE  /\ Cardinality(Rows) \in 0 .. MaxShards
           /\ Rows = 0 .. Cardinality(Rows) - 1
<1>1. PICK n \in 0 .. MaxShards : Rows = 0 .. n - 1
  BY DEF RowsAreContiguous
<1>2. n \in Nat
  BY <1>1, SizesAssumption
<1>3. Cardinality(0 .. n - 1) = IF 0 > n - 1 THEN 0 ELSE n - 1 - 0 + 1
  BY <1>2, FS_Interval
<1>4. Cardinality(Rows) = n
  BY <1>1, <1>2, <1>3
<1>. QED
  BY <1>1, <1>4

\* The sweep's INSERT takes an index without a row.
LEMMA AppendIsFree ==
    ASSUME RowsAreContiguous, Cardinality(Rows) \in Indexes
    PROVE  shard[Cardinality(Rows)] = "none"
<1>1. Cardinality(Rows) \in Nat /\ Cardinality(Rows) \notin Rows
  BY RowCount, SizesAssumption
<1>. QED
  BY <1>1 DEF Rows

\* What a claim loads is tests of the manifest.
LEMMA LoadedTests ==
    ASSUME TypeOK, NEW i \in Indexes
    PROVE  loadTestsForShard(i) \in SUBSET Tests
BY DEF TypeOK, loadTestsForShard, RoundRobin

\* A change of control state keeps the type of thread.
LEMMA GotoType ==
    ASSUME TypeOK, NEW a \in Threads, NEW s \in Steps, Goto(a, s)
    PROVE  thread' \in [Threads -> ThreadStates]
BY DEF TypeOK, Goto, ThreadStates

\* A thread with nothing to do.
LEMMA IdleThreadType == IdleThread \in ThreadStates
BY DEF IdleThread, ThreadStates, Steps

\* The planned run is well typed.
LEMMA TypeInit == Init => TypeOK
BY SizesAssumption, IdleThreadType
   DEF Init, TypeOK, ShardStatuses, Planned, Indexes

\* Every step keeps the types.
LEMMA TypeStep == ClaimInv /\ [Next]_vars => TypeOK'
<1>. SUFFICES ASSUME ClaimInv, [Next]_vars PROVE TypeOK'
  OBVIOUS
<1>. USE DEF db, past, queue, agents, SetShard, ShardStatuses
<1>0. \A w \in Workers : <<w, "poll">> \in Threads /\ <<w, "nats">> \in Threads
  BY DEF Threads
<1>1. ASSUME NEW w \in Workers, PollTick(w) \/ PollNothing(w) \/ PollFails(w)
      PROVE  TypeOK'
  <2>1. thread' \in [Threads -> ThreadStates]
    BY <1>0, <1>1, GotoType DEF ClaimInv, PollTick, PollNothing, PollFails, Steps
  <2>. QED
    BY <1>1, <2>1 DEF ClaimInv, TypeOK, PollTick, PollNothing, PollFails, DbError
<1>2. ASSUME NEW w \in Workers, NEW i \in Indexes, PollClaim(w, i) PROVE TypeOK'
  BY <1>0, <1>2, LoadedTests DEF ClaimInv, TypeOK, PollClaim, ThreadStates, Steps
<1>3. ASSUME NEW w \in Workers, NEW i \in Indexes, Deliver(w, i) PROVE TypeOK'
  BY <1>0, <1>3 DEF ClaimInv, TypeOK, Deliver, ThreadStates, Steps
<1>4. ASSUME NEW i \in Indexes, Redeliver(i) PROVE TypeOK'
  BY <1>4 DEF ClaimInv, TypeOK, Redeliver
<1>5. ASSUME NEW w \in Workers, Nak(w) \/ NatsDrop(w) PROVE TypeOK'
  BY <1>0, <1>5, IdleThreadType
     DEF ClaimInv, TypeOK, Nak, NatsDrop, Ack, DbError
<1>6. ASSUME NEW w \in Workers, NatsClaim(w) PROVE TypeOK'
  <2>1. thread[<<w, "nats">>].shard \in Planned /\ thread[<<w, "nats">>].shard \in Indexes
    BY <1>0, <1>6 DEF ClaimInv, ThreadsNameShards, NatsClaim, At
  <2>2. Assignment[thread[<<w, "nats">>].shard] \in SUBSET Tests
    BY <2>1, AssignmentAssumption
  <2>. QED
    BY <1>0, <1>6, <2>1, <2>2 DEF ClaimInv, TypeOK, NatsClaim, ThreadStates, Steps
<1>7. ASSUME NEW a \in Threads, StoreCurrent(a) PROVE TypeOK'
  <2>1. a[1] \in Workers
    BY DEF Threads
  <2>. QED
    BY <1>7, <2>1, GotoType DEF ClaimInv, TypeOK, StoreCurrent, ThreadStates, Steps
<1>8. ASSUME NEW a \in Threads, NEW t \in Tests, RecordResult(a, t) PROVE TypeOK'
  <2>1. thread' \in [Threads -> ThreadStates]
    BY <1>8 DEF ClaimInv, TypeOK, RecordResult, ThreadStates
  <2>2. executed' \in [Indexes -> SUBSET Tests]
    BY <1>8 DEF ClaimInv, TypeOK, RecordResult
  <2>. QED
    BY <1>8, <2>1, <2>2 DEF ClaimInv, TypeOK, RecordResult
<1>8a. ASSUME NEW a \in Threads, NEW t \in Tests, LoseResult(a, t) PROVE TypeOK'
  <2>1. thread' \in [Threads -> ThreadStates]
    BY <1>8a DEF ClaimInv, TypeOK, LoseResult, ThreadStates
  <2>. QED
    BY <1>8a, <2>1 DEF ClaimInv, TypeOK, LoseResult, DbError
<1>9. ASSUME NEW a \in Threads,
             \/ ExecuteReturns(a) \/ ExecuteFails(a) \/ CheckDraining(a)
             \/ LoseOutcome(a)
      PROVE  TypeOK'
  <2>1. thread' \in [Threads -> ThreadStates]
    BY <1>9, GotoType
       DEF ClaimInv, ExecuteReturns, ExecuteFails, CheckDraining, LoseOutcome,
           Steps, At
  <2>. QED
    BY <1>9, <2>1
       DEF ClaimInv, TypeOK, ExecuteReturns, ExecuteFails, CheckDraining,
           LoseOutcome, DbError
<1>10. ASSUME NEW a \in Threads, WriteOutcome(a) PROVE TypeOK'
  BY <1>10, GotoType DEF ClaimInv, TypeOK, WriteOutcome, Steps
<1>11. ASSUME NEW a \in Threads, Leave(a) PROVE TypeOK'
  BY <1>11, IdleThreadType DEF ClaimInv, TypeOK, Leave, Ack
<1>12. ASSUME NEW w \in Workers, SpotNotice(w) \/ DrainLoad(w) \/ DrainMarkFails(w)
       PROVE  TypeOK'
  BY <1>12 DEF ClaimInv, TypeOK, SpotNotice, DrainLoad, DrainMarkFails, DbError
<1>13. ASSUME NEW w \in Workers, DrainMark(w) PROVE TypeOK'
  BY <1>13 DEF ClaimInv, TypeOK, DrainMark
<1>14. ASSUME NEW w \in Workers, ExitDrained(w) \/ CrashWorker(w) PROVE TypeOK'
  BY <1>14, IdleThreadType DEF ClaimInv, TypeOK, ExitDrained, CrashWorker, Replace
<1>15. ASSUME NEW m \in Managers, SweepScan(m) PROVE TypeOK'
  BY <1>15 DEF ClaimInv, TypeOK, SweepScan
<1>16. ASSUME NEW m \in Managers, NEW i \in Indexes, RescheduleNothing(m, i)
       PROVE  TypeOK'
  BY <1>16 DEF ClaimInv, TypeOK, RescheduleNothing
<1>17. ASSUME NEW m \in Managers, NEW i \in Indexes, Reschedule(m, i) PROVE TypeOK'
  <2>1. Remaining(i) \in SUBSET Tests
    BY DEF Remaining, RoundRobin
  <2>. QED
    BY <1>17, <2>1 DEF ClaimInv, TypeOK, Reschedule
<1>18. ASSUME NEW m \in Managers, NEW i \in Indexes, RescheduleSkipped(m, i)
       PROVE  TypeOK'
  BY <1>18 DEF ClaimInv, TypeOK, RescheduleSkipped
<1>19. CASE RunEnds
  <2>1. faults' \in Nat
    BY <1>19 DEF ClaimInv, TypeOK, RunEnds
  <2>. QED
    BY <1>19, <2>1 DEF ClaimInv, TypeOK, RunEnds, past, queue, agents
<1>20. CASE UNCHANGED vars
  BY <1>20 DEF ClaimInv, TypeOK, vars
<1>. QED
  BY <1>1, <1>2, <1>3, <1>4, <1>5, <1>6, <1>7, <1>8, <1>8a, <1>9, <1>10, <1>11,
     <1>12, <1>13, <1>14, <1>15, <1>16, <1>17, <1>18, <1>19, <1>20
     DEF Next, PollStep, NatsStep, DrainStep, ThreadStep, SweepStep, FailStep,
         FailThread

-----------------------------------------------------------------------------
(* How a step changes shard rows: one row, in one of four ways.            *)

\* No step but the sweep's INSERT makes a row or puts one back to 'pending'.
LEMMA ShardMoves ==
    ASSUME ClaimInv, [Next]_vars
    PROVE  \/ UNCHANGED shard
           \/ \E i \in Indexes : /\ shard[i] # "none"
                                 /\ shard' = [shard EXCEPT ![i] = shard'[i]]
                                 /\ shard'[i] \in ShardStatuses \ {"none", "pending"}
           \/ \E m \in Managers, i \in Indexes : Reschedule(m, i)
<1>. USE DEF db, past, queue, agents, SetShard
<1>. DEFINE Moved(i) == /\ shard[i] # "none"
                        /\ shard' = [shard EXCEPT ![i] = shard'[i]]
                        /\ shard'[i] \in ShardStatuses \ {"none", "pending"}
<1>1. ASSUME NEW w \in Workers, NEW i \in Indexes, PollClaim(w, i) PROVE Moved(i)
  BY <1>1 DEF ClaimInv, TypeOK, PollClaim, ShardStatuses
<1>2. ASSUME NEW w \in Workers, NatsClaim(w)
      PROVE  \E i \in Indexes : Moved(i)
  <2>1. <<w, "nats">> \in Threads
    BY DEF Threads
  <2>2. thread[<<w, "nats">>].shard \in Indexes
    BY <1>2, <2>1 DEF ClaimInv, ThreadsNameShards, NatsClaim, At
  <2>3. Moved(thread[<<w, "nats">>].shard)
    BY <1>2, <2>2 DEF ClaimInv, TypeOK, NatsClaim, ShardStatuses
  <2>. QED
    BY <2>2, <2>3
<1>3. ASSUME NEW a \in Threads, WriteOutcome(a)
      PROVE  \E i \in Indexes : Moved(i)
  <2>1. thread[a].shard \in Indexes /\ Holds(a, thread[a].shard)
    BY <1>3 DEF ClaimInv, ThreadsNameShards, WriteOutcome, At, Holds
  <2>2. shard[thread[a].shard] # "none"
    BY <2>1 DEF ClaimInv, HeldIsClaimed
  <2>3. Moved(thread[a].shard)
    BY <1>3, <2>1, <2>2 DEF ClaimInv, TypeOK, WriteOutcome, ShardStatuses
  <2>. QED
    BY <2>1, <2>3
<1>4. ASSUME NEW w \in Workers, DrainMark(w)
      PROVE  UNCHANGED shard \/ \E i \in Indexes : Moved(i)
  <2>. DEFINE i == drainShard[w]
  <2>1. i \in Indexes
    BY <1>4 DEF ClaimInv, ThreadsNameShards, DrainMark
  <2>2. CASE shard[i] = "running"
    <3>1. Moved(i)
      BY <1>4, <2>1, <2>2 DEF ClaimInv, TypeOK, DrainMark, ShardStatuses
    <3>. QED
      BY <2>1, <3>1
  <2>3. CASE shard[i] # "running"
    BY <1>4, <2>1, <2>3 DEF ClaimInv, TypeOK, DrainMark
  <2>. QED
    BY <2>2, <2>3
<1>5. ASSUME NEW m \in Managers, NEW i \in Indexes, RescheduleNothing(m, i)
      PROVE  Moved(i)
  BY <1>5 DEF ClaimInv, TypeOK, SweepIsOfRows, Rows, RescheduleNothing, ShardStatuses
<1>. QED
  BY <1>1, <1>2, <1>3, <1>4, <1>5
     DEF Next, vars, PollStep, NatsStep, DrainStep, ThreadStep, SweepStep,
         FailStep, FailThread, PollFails, LoseResult, LoseOutcome, DrainMarkFails,
         PollTick, PollNothing, Deliver, Redeliver, Nak, NatsDrop,
         StoreCurrent, RecordResult, ExecuteReturns, ExecuteFails,
         CheckDraining, Leave, SpotNotice, DrainLoad, ExitDrained,
         CrashWorker, SweepScan, RescheduleSkipped, RunEnds

\* Rows are never deleted and are appended one at a time.
LEMMA RowsGrow ==
    ASSUME ClaimInv, [Next]_vars
    PROVE  /\ Rows' = Rows \/ Rows' = Rows \cup {Cardinality(Rows)}
           /\ RowsAreContiguous'
<1>1. CASE UNCHANGED shard
  <2>1. Rows' = Rows
    BY <1>1 DEF Rows
  <2>. QED
    BY <2>1 DEF ClaimInv, RowsAreContiguous
<1>2. ASSUME NEW i \in Indexes, shard[i] # "none",
             shard' = [shard EXCEPT ![i] = shard'[i]],
             shard'[i] \in ShardStatuses \ {"none", "pending"}
      PROVE  Rows' = Rows /\ RowsAreContiguous'
  <2>1. \A j \in Indexes : shard'[j] # "none" <=> shard[j] # "none"
    BY <1>2 DEF ClaimInv, TypeOK
  <2>2. Rows' = Rows
    BY <2>1 DEF Rows
  <2>. QED
    BY <2>2 DEF ClaimInv, RowsAreContiguous
<1>3. ASSUME NEW m \in Managers, NEW i \in Indexes, Reschedule(m, i)
      PROVE  Rows' = Rows \cup {Cardinality(Rows)} /\ RowsAreContiguous'
  <2>. DEFINE n == Cardinality(Rows)
  <2>1. n \in Indexes /\ n \in 0 .. MaxShards /\ Rows = 0 .. n - 1
    BY <1>3, RowCount DEF ClaimInv, Reschedule
  <2>2. \A j \in Indexes : shard'[j] # "none" <=> shard[j] # "none" \/ j = n
    BY <1>3, <2>1 DEF ClaimInv, TypeOK, Reschedule, SetShard
  <2>3. Rows' = Rows \cup {n}
    BY <2>1, <2>2 DEF Rows
  <2>4. n + 1 \in 0 .. MaxShards /\ Rows' = 0 .. (n + 1) - 1
    BY <2>1, <2>3, SizesAssumption DEF Indexes
  <2>. QED
    BY <2>3, <2>4 DEF RowsAreContiguous
<1>. QED
  BY <1>1, <1>2, <1>3, ShardMoves

\* The sweep's work lists stay within the rows.
LEMMA SweepStepInv ==
    ASSUME ClaimInv, TypeOK', [Next]_vars PROVE SweepIsOfRows'
<1>1. Rows \subseteq Rows'
  BY RowsGrow
<1>. USE DEF db, past, queue, agents
<1>2. \/ UNCHANGED sweep
      \/ \E m \in Managers : SweepScan(m)
      \/ \E m \in Managers, i \in Indexes :
            RescheduleNothing(m, i) \/ Reschedule(m, i) \/ RescheduleSkipped(m, i)
  BY DEF Next, vars, PollStep, NatsStep, DrainStep, ThreadStep, SweepStep,
         FailStep, FailThread, PollFails, LoseResult, LoseOutcome, DrainMarkFails,
         PollTick, PollNothing, PollClaim, Deliver, Redeliver, Nak, NatsDrop,
         NatsClaim, StoreCurrent, RecordResult, ExecuteReturns, ExecuteFails,
         CheckDraining, WriteOutcome, Leave, SpotNotice, DrainLoad, DrainMark,
         ExitDrained, CrashWorker, RunEnds
<1>3. CASE UNCHANGED sweep
  BY <1>1, <1>3 DEF ClaimInv, SweepIsOfRows
<1>4. ASSUME NEW m \in Managers, SweepScan(m) PROVE SweepIsOfRows'
  <2>1. {i \in Indexes : SweepDue(i)} \subseteq Rows
    BY DEF SweepDue, Rows
  <2>. QED
    BY <1>1, <1>4, <2>1 DEF ClaimInv, TypeOK, SweepIsOfRows, SweepScan
<1>5. ASSUME NEW m \in Managers, NEW i \in Indexes,
             sweep' = [sweep EXCEPT ![m] = @ \ {i}]
      PROVE  SweepIsOfRows'
  BY <1>1, <1>5 DEF ClaimInv, TypeOK, SweepIsOfRows
<1>. QED
  BY <1>2, <1>3, <1>4, <1>5 DEF RescheduleNothing, Reschedule, RescheduleSkipped

-----------------------------------------------------------------------------
(* Threads.                                                                *)

\* A step leaves every thread alone, or changes one in one of these ways:
\* it is cleared or moves on before a claim, takes a message, moves on
\* without changing its shard, or claims a pending shard; or it clears all
\* threads of one worker.
LEMMA ThreadMoves ==
    ASSUME ClaimInv, [Next]_vars, NEW a \in Threads
    PROVE  \/ thread'[a] = thread[a]
           \/ thread'[a].step \in {"idle", "polling"}
           \/ /\ thread'[a].step = "delivered"
              /\ thread'[a].shard \in Planned
              /\ a[2] = "nats"
           \/ /\ thread'[a].shard = thread[a].shard
              /\ thread[a].step \notin {"idle", "polling", "delivered"}
              /\ thread'[a].step \notin {"idle", "polling", "delivered"}
           \/ /\ thread'[a].step = "claimed"
              /\ thread'[a].shard \in Indexes
              /\ shard[thread'[a].shard] = "pending"
              /\ shard' = [shard EXCEPT ![thread'[a].shard] = "running"]
              /\ \A b \in Threads \ {a} : thread'[b] = thread[b]
<1>. DEFINE Goal ==
        \/ thread'[a] = thread[a]
        \/ thread'[a].step \in {"idle", "polling"}
        \/ /\ thread'[a].step = "delivered"
           /\ thread'[a].shard \in Planned
           /\ a[2] = "nats"
        \/ /\ thread'[a].shard = thread[a].shard
           /\ thread[a].step \notin {"idle", "polling", "delivered"}
           /\ thread'[a].step \notin {"idle", "polling", "delivered"}
        \/ /\ thread'[a].step = "claimed"
           /\ thread'[a].shard \in Indexes
           /\ shard[thread'[a].shard] = "pending"
           /\ shard' = [shard EXCEPT ![thread'[a].shard] = "running"]
           /\ \A b \in Threads \ {a} : thread'[b] = thread[b]
<1>. USE DEF db, past, queue, agents, SetShard, Goto, At
<1>0. \A w \in Workers : <<w, "poll">> \in Threads /\ <<w, "nats">> \in Threads
  BY DEF Threads
<1>t. thread \in [Threads -> ThreadStates]
  BY DEF ClaimInv, TypeOK
<1>1. ASSUME NEW w \in Workers, PollTick(w) \/ PollNothing(w) \/ PollFails(w)
      PROVE  Goal
  BY <1>0, <1>t, <1>1 DEF PollTick, PollNothing, PollFails, ThreadStates
<1>2. ASSUME NEW w \in Workers, NEW i \in Indexes, PollClaim(w, i) PROVE Goal
  <2>. DEFINE c == <<w, "poll">>
  <2>3. c \in Threads
    BY <1>0
  <2>4. /\ thread' = [thread EXCEPT ![c] = thread'[c]]
        /\ thread'[c].step = "claimed" /\ thread'[c].shard \in Indexes
        /\ shard[thread'[c].shard] = "pending"
        /\ shard' = [shard EXCEPT ![thread'[c].shard] = "running"]
    BY <1>t, <1>2, <2>3 DEF PollClaim
  <2>5. CASE a = c
    BY <1>t, <2>3, <2>4, <2>5
  <2>6. CASE a # c
    BY <1>t, <2>3, <2>4, <2>6
  <2>. QED
    BY <2>5, <2>6
<1>3. ASSUME NEW w \in Workers, NEW i \in Indexes, Deliver(w, i) PROVE Goal
  <2>1. i \in Planned
    BY <1>3 DEF ClaimInv, TypeOK, Deliver
  <2>. QED
    BY <1>0, <1>t, <1>3, <2>1 DEF Deliver
<1>5. ASSUME NEW w \in Workers, Nak(w) \/ NatsDrop(w) PROVE Goal
  BY <1>0, <1>t, <1>5 DEF Nak, NatsDrop, IdleThread
<1>6. ASSUME NEW w \in Workers, NatsClaim(w) PROVE Goal
  <2>1. thread[<<w, "nats">>].shard \in Indexes
    BY <1>0, <1>6 DEF ClaimInv, ThreadsNameShards, NatsClaim
  <2>. DEFINE c == <<w, "nats">>
  <2>3. c \in Threads
    BY <1>0
  <2>4. /\ thread' = [thread EXCEPT ![c] = thread'[c]]
        /\ thread'[c].step = "claimed" /\ thread'[c].shard \in Indexes
        /\ shard[thread'[c].shard] = "pending"
        /\ shard' = [shard EXCEPT ![thread'[c].shard] = "running"]
    BY <1>t, <1>6, <2>1, <2>3 DEF NatsClaim
  <2>5. CASE a = c
    BY <1>t, <2>3, <2>4, <2>5
  <2>6. CASE a # c
    BY <1>t, <2>3, <2>4, <2>6
  <2>. QED
    BY <2>5, <2>6
<1>7. ASSUME NEW b \in Threads, StoreCurrent(b) PROVE Goal
  BY <1>t, <1>7 DEF StoreCurrent, ThreadStates
<1>8. ASSUME NEW b \in Threads, NEW t \in Tests, RecordResult(b, t) PROVE Goal
  BY <1>t, <1>8 DEF RecordResult, ThreadStates
<1>8a. ASSUME NEW b \in Threads, NEW t \in Tests, LoseResult(b, t) PROVE Goal
  BY <1>t, <1>8a DEF LoseResult, ThreadStates
<1>9. ASSUME NEW b \in Threads,
             \/ ExecuteReturns(b) \/ ExecuteFails(b) \/ CheckDraining(b)
             \/ LoseOutcome(b)
      PROVE  Goal
  BY <1>t, <1>9
     DEF ExecuteReturns, ExecuteFails, CheckDraining, LoseOutcome, ThreadStates
<1>10. ASSUME NEW b \in Threads, WriteOutcome(b) PROVE Goal
  BY <1>t, <1>10 DEF WriteOutcome, ThreadStates
<1>11. ASSUME NEW b \in Threads, Leave(b) PROVE Goal
  BY <1>t, <1>11 DEF Leave, IdleThread
<1>14. ASSUME NEW w \in Workers, ExitDrained(w) \/ CrashWorker(w) PROVE Goal
  BY <1>t, <1>14 DEF ExitDrained, CrashWorker, Replace, IdleThread
<1>15. CASE UNCHANGED thread
  BY <1>15
<1>. QED
  BY <1>1, <1>2, <1>3, <1>5, <1>6, <1>7, <1>8, <1>8a, <1>9, <1>10, <1>11, <1>14,
     <1>15
     DEF Next, vars, PollStep, NatsStep, DrainStep, ThreadStep, SweepStep,
         FailStep, FailThread, PollFails, LoseResult, LoseOutcome, DrainMarkFails,
         Redeliver, SpotNotice, DrainLoad, DrainMark, SweepScan,
         RescheduleNothing, Reschedule, RescheduleSkipped, RunEnds

\* Threads past a claim, and drains, keep naming shards.
LEMMA NamesStep ==
    ASSUME ClaimInv, TypeOK', [Next]_vars PROVE ThreadsNameShards'
<1>1. Planned \subseteq Indexes
  BY SizesAssumption DEF Planned, Indexes
<1>2. ASSUME NEW a \in Threads, thread'[a].step \notin {"idle", "polling"}
      PROVE  thread'[a].shard \in Indexes
  BY <1>1, <1>2, ThreadMoves DEF ClaimInv, ThreadsNameShards
<1>3. ASSUME NEW w \in Workers, thread'[<<w, "nats">>].step = "delivered"
      PROVE  thread'[<<w, "nats">>].shard \in Planned
  <2>. DEFINE a == <<w, "nats">>
  <2>1. a \in Threads
    BY DEF Threads
  <2>2. thread'[a].shard \in Planned \/ thread'[a] = thread[a]
    BY <1>3, <2>1, ThreadMoves
  <2>. QED
    BY <1>3, <2>1, <2>2 DEF ClaimInv, ThreadsNameShards, At
<1>4. ASSUME NEW w \in Workers, drain'[w] = "loaded"
      PROVE  drainShard'[w] \in Indexes
  <2>. USE DEF db, past, queue, agents
  <2>1. \/ UNCHANGED <<drain, drainShard>>
        \/ \E v \in Workers : \/ SpotNotice(v) \/ DrainLoad(v) \/ DrainMark(v)
                              \/ DrainMarkFails(v) \/ ExitDrained(v) \/ CrashWorker(v)
    BY DEF Next, vars, PollStep, NatsStep, DrainStep, ThreadStep, SweepStep,
         FailStep, FailThread, PollFails, LoseResult, LoseOutcome, DrainMarkFails,
           PollTick, PollNothing, PollClaim, Deliver, Redeliver, Nak, NatsDrop,
           NatsClaim, StoreCurrent, RecordResult, ExecuteReturns, ExecuteFails,
           CheckDraining, WriteOutcome, Leave, SweepScan, RescheduleNothing,
           Reschedule, RescheduleSkipped, RunEnds
  <2>2. ASSUME NEW v \in Workers,
               SpotNotice(v) \/ DrainLoad(v) \/ DrainMark(v) \/ DrainMarkFails(v)
        PROVE  drainShard'[w] \in Indexes
    BY <1>4, <2>2
       DEF ClaimInv, TypeOK, ThreadsNameShards, SpotNotice, DrainLoad, DrainMark,
           DrainMarkFails
  <2>3. ASSUME NEW v \in Workers, ExitDrained(v) \/ CrashWorker(v)
        PROVE  drainShard'[w] \in Indexes
    BY <1>4, <2>3
       DEF ClaimInv, TypeOK, ThreadsNameShards, ExitDrained, CrashWorker, Replace
  <2>. QED
    BY <1>4, <2>1, <2>2, <2>3 DEF ClaimInv, ThreadsNameShards
<1>. QED
  BY <1>2, <1>3, <1>4 DEF ThreadsNameShards, At

\* A shard that was claimed is never claimable again.
LEMMA ClaimedStays ==
    ASSUME ClaimInv, [Next]_vars, NEW i \in Indexes,
           shard[i] \notin {"none", "pending"}
    PROVE  shard'[i] \notin {"none", "pending"}
<1>1. ASSUME NEW m \in Managers, NEW j \in Indexes, Reschedule(m, j)
      PROVE  shard'[i] = shard[i]
  <2>1. Cardinality(Rows) # i
    BY <1>1, AppendIsFree DEF ClaimInv, Reschedule
  <2>. QED
    BY <1>1, <2>1 DEF ClaimInv, TypeOK, Reschedule, SetShard
<1>. QED
  BY <1>1, ShardMoves DEF ClaimInv, TypeOK

\* A thread that holds a shard after the step held it before, or the step is
\* its claim of a pending shard and no other thread moves.
LEMMA HoldMoves ==
    ASSUME ClaimInv, [Next]_vars, NEW a \in Threads, NEW i \in Indexes,
           Holds(a, i)'
    PROVE  \/ Holds(a, i)
           \/ /\ shard[i] = "pending" /\ shard'[i] = "running"
              /\ \A b \in Threads \ {a} : thread'[b] = thread[b]
BY ThreadMoves DEF Holds, ClaimInv, TypeOK

\* What is held stays claimed.
LEMMA HeldStep == ASSUME ClaimInv, [Next]_vars PROVE HeldIsClaimed'
<1>. SUFFICES ASSUME NEW a \in Threads, NEW i \in Indexes, Holds(a, i)'
              PROVE  shard'[i] \notin {"none", "pending"}
  BY DEF HeldIsClaimed
<1>1. CASE Holds(a, i)
  BY <1>1, ClaimedStays DEF ClaimInv, HeldIsClaimed
<1>2. CASE shard'[i] = "running"
  BY <1>2
<1>. QED
  BY <1>1, <1>2, HoldMoves

\* A claim finds nobody at the shard: whoever held it would have taken the
\* row out of 'pending' for good.
LEMMA OneThreadStep == ASSUME ClaimInv, [Next]_vars PROVE OneThreadPerShard'
<1>. SUFFICES ASSUME NEW a \in Threads, NEW b \in Threads, NEW i \in Indexes,
                     Holds(a, i)', Holds(b, i)', a # b
              PROVE  FALSE
  BY DEF OneThreadPerShard
<1>1. CASE Holds(a, i) /\ Holds(b, i)
  BY <1>1 DEF ClaimInv, OneThreadPerShard
<1>2. ASSUME NEW c \in Threads, NEW d \in Threads, c # d, Holds(d, i)',
             shard[i] = "pending",
             \A e \in Threads \ {c} : thread'[e] = thread[e]
      PROVE  FALSE
  <2>1. Holds(d, i)
    BY <1>2 DEF Holds
  <2>. QED
    BY <1>2, <2>1 DEF ClaimInv, HeldIsClaimed
<1>3. CASE ~Holds(a, i)
  <2>1. shard[i] = "pending" /\ \A e \in Threads \ {a} : thread'[e] = thread[e]
    BY <1>3, HoldMoves
  <2>. QED
    BY <1>2, <2>1
<1>4. CASE ~Holds(b, i)
  <2>1. shard[i] = "pending" /\ \A e \in Threads \ {b} : thread'[e] = thread[e]
    BY <1>4, HoldMoves
  <2>. QED
    BY <1>2, <2>1
<1>. QED
  BY <1>1, <1>3, <1>4

-----------------------------------------------------------------------------
(* The theorems.                                                           *)

\* Before anybody claims, nothing is held.
LEMMA ClaimInit == Init => ClaimInv
<1>. SUFFICES ASSUME Init PROVE ClaimInv
  OBVIOUS
<1>1. TypeOK
  BY TypeInit
<1>2. \A a \in Threads : thread[a] = IdleThread
  BY DEF Init
<1>3. ThreadsNameShards
  <2>1. \A w \in Workers : <<w, "nats">> \in Threads
    BY DEF Threads
  <2>. QED
    BY <1>2, <2>1 DEF Init, ThreadsNameShards, IdleThread, At
<1>4. RowsAreContiguous
  <2>1. Rows = 0 .. NumShards - 1
    BY SizesAssumption DEF Init, Rows, Planned, Indexes
  <2>. QED
    BY <2>1, SizesAssumption DEF RowsAreContiguous
<1>5. SweepIsOfRows
  BY DEF Init, SweepIsOfRows
<1>6. HeldIsClaimed /\ OneThreadPerShard
  BY <1>2 DEF HeldIsClaimed, OneThreadPerShard, Holds, IdleThread
<1>. QED
  BY <1>1, <1>3, <1>4, <1>5, <1>6 DEF ClaimInv

\* Every step of the fleet, the stream and the sweep keeps the invariant.
LEMMA ClaimStep == ClaimInv /\ [Next]_vars => ClaimInv'
<1>. SUFFICES ASSUME ClaimInv, [Next]_vars PROVE ClaimInv'
  OBVIOUS
<1>1. TypeOK'
  BY TypeStep
<1>2. ThreadsNameShards' /\ SweepIsOfRows'
  BY <1>1, NamesStep, SweepStepInv
<1>3. RowsAreContiguous'
  BY RowsGrow
<1>4. HeldIsClaimed' /\ OneThreadPerShard'
  BY HeldStep, OneThreadStep
<1>. QED
  BY <1>1, <1>2, <1>3, <1>4 DEF ClaimInv

\* The claim discipline is invariant: rows without gaps, threads that name
\* the shard they claimed, and no claimed shard back in 'pending'.
THEOREM ClaimInvariant == Spec => []ClaimInv
<1>. QED
  BY ClaimInit, ClaimStep, PTL DEF Spec

\* Every variable keeps its type, for every fleet size and fault bound.
THEOREM ExecutionTypeCorrect == Spec => []TypeOK
<1>1. ClaimInv => TypeOK
  BY DEF ClaimInv
<1>. QED
  BY <1>1, ClaimInvariant, PTL

\* No two threads of the fleet, polling or fed by the stream, ever execute
\* the same shard, whatever is redelivered, drained, lost or replayed.
THEOREM NoSharedShard == Spec => []OneThreadPerShard
<1>1. ClaimInv => OneThreadPerShard
  BY DEF ClaimInv
<1>. QED
  BY <1>1, ClaimInvariant, PTL

-----------------------------------------------------------------------------
(* Replays.                                                                *)

\* What a step does to the marker, the work lists and the origins: a scan, a
\* replay, a shard found finished, a skip, or nothing.
LEMMA SweepMoves ==
    ASSUME [Next]_vars
    PROVE  \/ UNCHANGED <<marked, sweep, origin, replayer, reshard>>
           \/ \E m \in Managers : SweepScan(m)
           \/ \E m \in Managers, i \in Indexes :
                 \/ RescheduleNothing(m, i) \/ Reschedule(m, i)
                 \/ RescheduleSkipped(m, i)
<1>. USE DEF db, past, queue, agents
<1>. QED
  BY ZenonT(60) DEF Next, vars, PollStep, NatsStep, DrainStep, ThreadStep, SweepStep,
         FailStep, FailThread, PollFails, LoseResult, LoseOutcome, DrainMarkFails,
         PollTick, PollNothing, PollClaim, Deliver, Redeliver, Nak, NatsDrop,
         NatsClaim, StoreCurrent, RecordResult, ExecuteReturns, ExecuteFails,
         CheckDraining, WriteOutcome, Leave, SpotNotice, DrainLoad, DrainMark,
         ExitDrained, CrashWorker, RunEnds

\* A replica that has replayed a shard has written the marker, so its next
\* scan leaves the shard out, and its work list no longer has it.
LEMMA ReplayStep ==
    ASSUME ReplayInv, [Next]_vars PROVE ReplayInv'
<1>. USE DEF db, past, queue, agents
<1>1. ClaimInv'
  BY ClaimStep DEF ReplayInv
<1>2. Rows \subseteq Rows'
  BY RowsGrow DEF ReplayInv
<1>3. CASE UNCHANGED <<marked, sweep, origin, replayer, reshard>>
  BY <1>1, <1>2, <1>3 DEF ReplayInv, ReplayedOncePerReplica
<1>4. ASSUME NEW m \in Managers, SweepScan(m) PROVE ReplayInv'
  <2>1. \A j \in Indexes : origin[j] # NoShard => ~SweepDue(origin[j])
    BY DEF ReplayInv, SweepDue
  <2>2. \A n \in Managers, j \in Indexes : origin[j] \in sweep'[n] => replayer[j] # n
    BY <1>4, <2>1, NoShardAssumption DEF ReplayInv, SweepScan, ClaimInv, TypeOK, Indexes
  <2>. QED
    BY <1>1, <1>2, <1>4, <2>2 DEF ReplayInv, ReplayedOncePerReplica, SweepScan
<1>5. ASSUME NEW m \in Managers, NEW i \in Indexes, RescheduleSkipped(m, i)
      PROVE  ReplayInv'
  <2>1. \A n \in Managers : sweep'[n] \subseteq sweep[n]
    BY <1>5 DEF ReplayInv, RescheduleSkipped, ClaimInv, TypeOK
  <2>. QED
    BY <1>1, <1>2, <1>5, <2>1
       DEF ReplayInv, ReplayedOncePerReplica, RescheduleSkipped
<1>6. ASSUME NEW m \in Managers, NEW i \in Indexes, RescheduleNothing(m, i)
      PROVE  ReplayInv'
  <2>1. \A n \in Managers : sweep'[n] \subseteq sweep[n]
    BY <1>6 DEF ReplayInv, RescheduleNothing, ClaimInv, TypeOK
  <2>2. \A j \in Indexes : marked[j] => marked'[j]
    BY <1>6 DEF ReplayInv, RescheduleNothing, ClaimInv, TypeOK
  <2>3. \A j \in Indexes : origin'[j] # NoShard => j \in Rows' /\ marked'[origin'[j]]
    BY <1>2, <1>6, <2>2 DEF ReplayInv, RescheduleNothing, ClaimInv, TypeOK
  <2>. QED
    BY <1>1, <1>6, <2>1, <2>3
       DEF ReplayInv, ReplayedOncePerReplica, RescheduleNothing
<1>7. ASSUME NEW m \in Managers, NEW i \in Indexes, Reschedule(m, i)
      PROVE  ReplayInv'
  <2>. DEFINE new == Cardinality(Rows)
  <2>1. new \in Indexes /\ shard[new] = "none" /\ new \notin Rows
    BY <1>7, AppendIsFree DEF ReplayInv, ClaimInv, Reschedule, Rows
  <2>2. new \in Rows'
    BY <1>7, <2>1 DEF ReplayInv, ClaimInv, TypeOK, Reschedule, SetShard, Rows
  <2>3. /\ origin' = [origin EXCEPT ![new] = i]
        /\ replayer' = [replayer EXCEPT ![new] = m]
        /\ marked' = [marked EXCEPT ![i] = TRUE]
        /\ sweep' = [sweep EXCEPT ![m] = @ \ {i}]
        /\ i \in sweep[m]
    BY <1>7 DEF Reschedule
  <2>t. /\ origin \in [Indexes -> Indexes \cup {NoShard}]
        /\ replayer \in [Indexes -> Managers \cup {NoShard}]
        /\ marked \in [Indexes -> BOOLEAN] /\ sweep \in [Managers -> SUBSET Indexes]
    BY DEF ReplayInv, ClaimInv, TypeOK
  <2>h. HIDE DEF new
  <2>4. origin[new] = NoShard
    BY <2>1 DEF ReplayInv
  <2>5. \A j \in Indexes : origin[j] = i => replayer[j] # m
    BY <2>3 DEF ReplayInv
  <2>6. \A j \in Indexes : origin'[j] # NoShard => j \in Rows' /\ marked'[origin'[j]]
    BY <1>2, <2>1, <2>2, <2>3, <2>t DEF ReplayInv
  <2>7. \A n \in Managers, j \in Indexes : origin'[j] \in sweep'[n] => replayer'[j] # n
    <3>. SUFFICES ASSUME NEW n \in Managers, NEW j \in Indexes, origin'[j] \in sweep'[n]
                  PROVE  replayer'[j] # n
      OBVIOUS
    <3>1. CASE j = new
      BY <2>1, <2>3, <2>t, <3>1
    <3>2. CASE j # new
      <4>1. origin'[j] = origin[j] /\ replayer'[j] = replayer[j]
        BY <2>3, <2>t, <3>2
      <4>2. sweep'[n] \subseteq sweep[n]
        BY <2>3, <2>t
      <4>. QED
        BY <4>1, <4>2 DEF ReplayInv
    <3>. QED
      BY <3>1, <3>2
  <2>8. ReplayedOncePerReplica'
    BY <2>1, <2>3, <2>5, <2>t DEF ReplayInv, ReplayedOncePerReplica
  <2>. QED
    BY <1>1, <2>6, <2>7, <2>8 DEF ReplayInv
<1>. QED
  BY <1>3, <1>4, <1>5, <1>6, <1>7, SweepMoves

\* However many replicas sweep, each replays a shard at most once, whatever
\* the workers, the stream and the sweep's failures do: a shard has at most as
\* many replays as there are replicas.
THEOREM OneReplayPerReplica == Spec => []ReplayedOncePerReplica
<1>1. Init => ReplayInv
  <2>. SUFFICES ASSUME Init PROVE ReplayInv
    OBVIOUS
  <2>1. \A m \in Managers, j \in Indexes : origin[j] \notin sweep[m]
    BY DEF Init
  <2>. QED
    BY <2>1, ClaimInit DEF Init, ReplayInv, ReplayedOncePerReplica
<1>2. ReplayInv /\ [Next]_vars => ReplayInv'
  BY ReplayStep
<1>3. ReplayInv => ReplayedOncePerReplica
  BY DEF ReplayInv
<1>. QED
  BY <1>1, <1>2, <1>3, PTL DEF Spec

-----------------------------------------------------------------------------
(* The shares of a run in which nothing has been replayed.                 *)

\* Shares of shards that were claimed by polling do not overlap.
LEMMA PolledAreDisjoint ==
    ASSUME NEW i \in Indexes, NEW j \in Indexes, i # j, {i, j} \cap fromStream = {}
    PROVE  Share(i) \cap Share(j) = {}
<1>1. Share(i) = RoundRobin(i, NumShards) /\ Share(j) = RoundRobin(j, NumShards)
  BY DEF Share
<1>. QED
  BY <1>1 DEF RoundRobin

\* Every test of the manifest is in the round robin's share of a planned shard.
LEMMA SharesCover ==
    ASSUME NEW t \in Tests
    PROVE  \E i \in Planned : t \in RoundRobin(i, NumShards)
<1>1. t % NumShards \in 0 .. NumShards - 1
  BY SizesAssumption DEF Tests
<1>. QED
  BY <1>1 DEF RoundRobin, Planned

\* While nothing is replayed, a claim by polling loads the round robin's share
\* of the shard, and so does the sweep.
LEMMA ClaimLoadsShare ==
    ASSUME SharesInv, NEW i \in Indexes
    PROVE  /\ loadTestsForShard(i) = RoundRobin(i, NumShards)
           /\ Remaining(i) = RoundRobin(i, NumShards) \ executed[i]
<1>1. Cardinality(0 .. NumShards - 1) = NumShards
  <2>1. Cardinality(0 .. NumShards - 1)
          = IF 0 > NumShards - 1 THEN 0 ELSE NumShards - 1 - 0 + 1
    BY SizesAssumption, FS_Interval
  <2>. QED
    BY <2>1, SizesAssumption
<1>2. Cardinality(Rows) = NumShards
  BY <1>1 DEF SharesInv, Planned
<1>. QED
  BY <1>2 DEF SharesInv, loadTestsForShard, Remaining

\* Only the claim from a message adds to fromStream, and only the failure of
\* recordResult to dropped.
LEMMA HistoryMoves ==
    ASSUME [Next]_vars
    PROVE  /\ UNCHANGED fromStream \/ \E w \in Workers : NatsClaim(w)
           /\ \/ UNCHANGED dropped
              \/ \E a \in Threads, t \in Tests : LoseResult(a, t)
<1>. USE DEF db, past, queue, agents
<1>. QED
  BY ZenonT(60) DEF Next, vars, PollStep, NatsStep, DrainStep, ThreadStep, SweepStep,
         FailStep, FailThread, PollFails, LoseResult, LoseOutcome, DrainMarkFails,
         PollTick, PollNothing, PollClaim, Deliver, Redeliver, Nak, NatsDrop,
         NatsClaim, StoreCurrent, RecordResult, ExecuteReturns, ExecuteFails,
         CheckDraining, WriteOutcome, Leave, SpotNotice, DrainLoad, DrainMark,
         ExitDrained, CrashWorker, RunEnds, SweepScan, RescheduleNothing,
         Reschedule, RescheduleSkipped

\* A run in which nothing has been replayed had nothing replayed before.
LEMMA ReplayIsForGood ==
    ASSUME ClaimInv, [Next]_vars, NoReplay'
    PROVE  /\ NoReplay
           /\ ~\E m \in Managers, i \in Indexes : Reschedule(m, i)
           /\ Rows' = Rows /\ UNCHANGED reshard
<1>. USE DEF db, past, queue, agents
<1>1. ASSUME NEW m \in Managers, NEW i \in Indexes, Reschedule(m, i) PROVE FALSE
  <2>1. origin'[Cardinality(Rows)] = i /\ Cardinality(Rows) \in Indexes
    BY <1>1 DEF Reschedule, ClaimInv, TypeOK
  <2>. QED
    BY <2>1, NoShardAssumption DEF NoReplay, Indexes
<1>2. UNCHANGED <<origin, reshard>>
  BY <1>1, SweepMoves DEF SweepScan, RescheduleNothing, RescheduleSkipped
<1>3. Rows' = Rows
  <2>1. UNCHANGED shard \/ \E i \in Indexes : /\ shard[i] # "none"
                                 /\ shard' = [shard EXCEPT ![i] = shard'[i]]
                                 /\ shard'[i] \in ShardStatuses \ {"none", "pending"}
    BY <1>1, ShardMoves
  <2>. QED
    BY <2>1 DEF Rows, ClaimInv, TypeOK
<1>. QED
  BY <1>1, <1>2, <1>3 DEF NoReplay

\* Every step keeps the shares, as long as nothing is replayed.
LEMMA SharesStep ==
    ASSUME SharedOutInv, [Next]_vars, NoReplay' PROVE SharesInv'
<1>. USE DEF db, past, queue, agents
<1>c. ClaimInv /\ TypeOK
  BY DEF SharedOutInv, ClaimInv
<1>r. /\ SharesInv /\ Rows' = Rows /\ UNCHANGED reshard
      /\ ~\E m \in Managers, i \in Indexes : Reschedule(m, i)
  BY <1>c, ReplayIsForGood DEF SharedOutInv
<1>s. Claimed \subseteq Claimed'
  BY <1>c, <1>r, ClaimedStays DEF Claimed, Rows
<1>. DEFINE ExecutedOk ==
        \A i \in Indexes : /\ executed'[i] \subseteq Share(i)
                           /\ i \notin Claimed' => executed'[i] = {}
<1>. DEFINE HeldOk == \A a \in Threads, i \in Indexes : Holds(a, i)' =>
        /\ thread'[a].tests \subseteq Share(i)
        /\ Share(i) \subseteq executed'[i] \cup thread'[a].tests \cup dropped'
        /\ thread'[a].step \in {"executed", "passed"} => thread'[a].tests = {}
<1>. DEFINE RowsOk == \A i \in Indexes :
        /\ marked'[i] => shard'[i] \in {"succeeded", "failed"}
        /\ shard'[i] = "succeeded" /\ (i \in fromStream => ~marked'[i]) =>
              Share(i) \subseteq executed'[i] \cup dropped'
<1>q. ASSUME ExecutedOk, HeldOk, RowsOk, UNCHANGED fromStream PROVE SharesInv'
  <2>1. \A i \in Indexes : Share(i)' = Share(i)
    BY <1>q DEF Share, RoundRobin
  <2>. QED
    BY <1>q, <1>r, <1>s, <2>1 DEF SharesInv, Holds
<1>d. dropped \subseteq dropped'
  BY HistoryMoves DEF LoseResult
<1>t. thread \in [Threads -> ThreadStates] /\ shard \in [Indexes -> ShardStatuses]
      /\ executed \in [Indexes -> SUBSET Tests] /\ marked \in [Indexes -> BOOLEAN]
      /\ fromStream \subseteq Planned /\ dropped \subseteq Tests
  BY <1>c DEF TypeOK
<1>p. \A w \in Workers : <<w, "poll">> \in Threads /\ <<w, "nats">> \in Threads
  BY DEF Threads
\* Steps of one thread that leave the database alone.
<1>m. ASSUME NEW b \in Threads, UNCHANGED <<shard, executed, marked, fromStream>>,
             \A a \in Threads : a # b => thread'[a] = thread[a],
             \/ thread'[b].step \in {"idle", "polling", "delivered"}
             \/ /\ thread[b].step \notin {"idle", "polling", "delivered"}
                /\ thread'[b].shard = thread[b].shard
                /\ thread'[b].tests = thread[b].tests
                /\ thread'[b].step \in {"executed", "passed"} => thread[b].tests = {}
      PROVE  SharesInv'
  <2>1. ExecutedOk /\ RowsOk
    BY <1>r, <1>m, <1>d, <1>s DEF SharesInv
  <2>2. HeldOk
    <3>. SUFFICES ASSUME NEW a \in Threads, NEW i \in Indexes, Holds(a, i)'
                  PROVE  /\ thread'[a].tests \subseteq Share(i)
                         /\ Share(i) \subseteq executed'[i] \cup thread'[a].tests \cup dropped'
                         /\ thread'[a].step \in {"executed", "passed"} => thread'[a].tests = {}
      OBVIOUS
    <3>1. Holds(a, i) /\ thread'[a].tests = thread[a].tests
      BY <1>m DEF Holds
    <3>2. thread'[a].step \in {"executed", "passed"} => thread[a].tests = {}
      BY <1>m, <1>r, <3>1 DEF SharesInv
    <3>. QED
      BY <1>m, <1>d, <1>r, <3>1, <3>2 DEF SharesInv
  <2>. QED
    BY <1>m, <1>q, <2>1, <2>2
<1>1. ASSUME NEW w \in Workers, NEW k \in Indexes, Deliver(w, k) PROVE SharesInv'
  <2>1. /\ UNCHANGED <<shard, executed, marked, fromStream>>
        /\ \A a \in Threads : a # <<w, "nats">> => thread'[a] = thread[a]
        /\ thread'[<<w, "nats">>].step = "delivered"
    BY <1>t, <1>p, <1>1 DEF Deliver
  <2>. QED
    BY <1>m, <1>p, <2>1
<1>1a. ASSUME NEW w \in Workers, Nak(w) \/ NatsDrop(w) PROVE SharesInv'
  <2>1. /\ UNCHANGED <<shard, executed, marked, fromStream>>
        /\ \A a \in Threads : a # <<w, "nats">> => thread'[a] = thread[a]
        /\ thread'[<<w, "nats">>].step = "idle"
    <3>1. UNCHANGED <<shard, executed, marked, fromStream>>
      BY <1>1a DEF Nak, NatsDrop
    <3>2. thread' = [thread EXCEPT ![<<w, "nats">>] = IdleThread]
      BY <1>1a DEF Nak, NatsDrop
    <3>. QED
      BY <1>t, <1>p, <3>1, <3>2 DEF IdleThread
  <2>. QED
    BY <1>m, <1>p, <2>1
<1>1b. ASSUME NEW w \in Workers, NatsClaim(w) PROVE SharesInv'
  <2>. DEFINE b == <<w, "nats">>
  <2>. DEFINE k == thread[b].shard
  <2>1. b \in Threads /\ k \in Indexes /\ k \in Planned /\ shard[k] = "pending"
    BY <1>c, <1>p, <1>1b DEF ClaimInv, ThreadsNameShards, NatsClaim, At
  <2>2. /\ thread' = [thread EXCEPT ![b] =
                        [step |-> "claimed", shard |-> k, tests |-> Assignment[k]]]
        /\ UNCHANGED <<executed, marked, dropped>>
        /\ shard' = [shard EXCEPT ![k] = "running"]
        /\ fromStream' = fromStream \cup {k}
    BY <1>1b DEF NatsClaim, SetShard
  <2>3. executed[k] = {} /\ ~marked[k]
    BY <1>r, <2>1 DEF SharesInv, Claimed
  <2>4. k \in Claimed'
    BY <1>t, <2>1, <2>2 DEF Claimed, Rows
  <2>5. Share(k)' = Assignment[k] /\ \A i \in Indexes : i # k => Share(i)' = Share(i)
    BY <2>2 DEF Share, RoundRobin
  <2>6. fromStream' \subseteq Claimed'
    BY <1>r, <1>s, <2>2, <2>4 DEF SharesInv
  <2>7. \A i \in Indexes : /\ executed'[i] \subseteq Share(i)'
                           /\ i \notin Claimed' => executed'[i] = {}
    BY <1>r, <1>s, <2>2, <2>3, <2>5 DEF SharesInv
  <2>8. \A a \in Threads, i \in Indexes : Holds(a, i)' =>
          /\ thread'[a].tests \subseteq Share(i)'
          /\ Share(i)' \subseteq executed'[i] \cup thread'[a].tests \cup dropped'
          /\ thread'[a].step \in {"executed", "passed"} => thread'[a].tests = {}
    <3>. SUFFICES ASSUME NEW a \in Threads, NEW i \in Indexes, Holds(a, i)'
                  PROVE  /\ thread'[a].tests \subseteq Share(i)'
                         /\ Share(i)' \subseteq executed'[i] \cup thread'[a].tests
                                                \cup dropped'
                         /\ thread'[a].step \in {"executed", "passed"}
                               => thread'[a].tests = {}
      OBVIOUS
    <3>1. CASE a = b
      <4>1. thread'[b] = [step |-> "claimed", shard |-> k, tests |-> Assignment[k]]
        BY <1>t, <2>1, <2>2
      <4>2. i = k
        BY <3>1, <4>1 DEF Holds
      <4>. QED
        BY <2>5, <3>1, <4>1, <4>2
    <3>2. CASE a # b
      <4>1. thread'[a] = thread[a] /\ Holds(a, i)
        BY <1>t, <2>1, <2>2, <3>2 DEF Holds
      <4>2. i # k
        BY <1>c, <2>1, <4>1 DEF ClaimInv, HeldIsClaimed
      <4>3. Share(i)' = Share(i)
        BY <2>5, <4>2
      <4>. QED
        BY <1>r, <2>2, <4>1, <4>3 DEF SharesInv
    <3>. QED
      BY <3>1, <3>2
  <2>9. \A i \in Indexes :
          /\ marked'[i] => shard'[i] \in {"succeeded", "failed"}
          /\ shard'[i] = "succeeded" /\ (i \in fromStream' => ~marked'[i]) =>
                Share(i)' \subseteq executed'[i] \cup dropped'
    BY <1>r, <1>t, <2>1, <2>2, <2>3, <2>5 DEF SharesInv
  <2>. QED
    BY <1>r, <2>6, <2>7, <2>8, <2>9 DEF SharesInv
<1>2. ASSUME NEW w \in Workers, PollTick(w) \/ PollNothing(w) \/ PollFails(w)
      PROVE  SharesInv'
  <2>. DEFINE b == <<w, "poll">>
  <2>1. b \in Threads
    BY <1>p
  <2>2. /\ UNCHANGED <<shard, executed, marked, fromStream>>
        /\ \A a \in Threads : a # b => thread'[a] = thread[a]
        /\ thread'[b].step \in {"idle", "polling"}
    BY <1>t, <1>2, <2>1 DEF PollTick, PollNothing, PollFails, Goto, ThreadStates
  <2>. QED
    BY <1>m, <2>1, <2>2
<1>3. ASSUME NEW w \in Workers, NEW i \in Indexes, PollClaim(w, i) PROVE SharesInv'
  <2>. DEFINE b == <<w, "poll">>
  <2>1. b \in Threads /\ shard[i] = "pending"
    BY <1>p, <1>3 DEF PollClaim
  <2>s. Share(i) = RoundRobin(i, NumShards)
    BY <1>r, <2>1 DEF SharesInv, Claimed, Share
  <2>2. /\ thread' = [thread EXCEPT ![b] =
                        [step |-> "claimed", shard |-> i, tests |-> Share(i)]]
        /\ UNCHANGED <<executed, marked, fromStream, dropped>>
        /\ shard' = [shard EXCEPT ![i] = "running"]
    BY <1>r, <1>3, <2>s, ClaimLoadsShare DEF PollClaim, SetShard
  <2>3. ExecutedOk /\ RowsOk
    BY <1>r, <1>s, <1>t, <2>1, <2>2 DEF SharesInv
  <2>4. HeldOk
    BY <1>r, <1>t, <2>1, <2>2 DEF SharesInv, Holds
  <2>. QED
    BY <1>q, <2>2, <2>3, <2>4
<1>4. ASSUME NEW b \in Threads,
             \/ StoreCurrent(b) \/ ExecuteReturns(b) \/ ExecuteFails(b)
             \/ CheckDraining(b) \/ LoseOutcome(b)
      PROVE  SharesInv'
  <2>0. thread[b].step \notin {"idle", "polling", "delivered"}
    BY <1>4 DEF StoreCurrent, ExecuteReturns, ExecuteFails, CheckDraining,
                LoseOutcome, At
  <2>n. thread[b].shard \in Indexes /\ Holds(b, thread[b].shard)
    BY <1>c, <2>0 DEF ClaimInv, ThreadsNameShards, Holds
  <2>1. thread[b].step \in {"executed", "passed"} => thread[b].tests = {}
    BY <1>r, <2>n DEF SharesInv
  <2>2. /\ UNCHANGED <<shard, executed, marked, fromStream>>
        /\ \A a \in Threads : a # b => thread'[a] = thread[a]
        /\ thread'[b].shard = thread[b].shard /\ thread'[b].tests = thread[b].tests
    BY <1>t, <1>4
       DEF StoreCurrent, ExecuteReturns, ExecuteFails, CheckDraining, LoseOutcome,
           Goto, ThreadStates
  <2>3. thread'[b].step \in {"executed", "passed"} => thread[b].tests = {}
    BY <1>t, <1>4, <2>1
       DEF StoreCurrent, ExecuteReturns, ExecuteFails, CheckDraining, LoseOutcome,
           Goto, At, ThreadStates
  <2>. QED
    BY <1>m, <2>0, <2>2, <2>3
<1>5. ASSUME NEW b \in Threads, Leave(b) PROVE SharesInv'
  <2>1. /\ UNCHANGED <<shard, executed, marked, fromStream>>
        /\ \A a \in Threads : a # b => thread'[a] = thread[a]
        /\ thread'[b].step = "idle"
    BY <1>t, <1>5 DEF Leave, IdleThread
  <2>. QED
    BY <1>m, <2>1
<1>6. ASSUME NEW b \in Threads, NEW t \in Tests, RecordResult(b, t) PROVE SharesInv'
  <2>. DEFINE k == thread[b].shard
  <2>1. /\ k \in Indexes /\ Holds(b, k) /\ t \in thread[b].tests
        /\ thread[b].step = "executing"
    BY <1>c, <1>6 DEF ClaimInv, ThreadsNameShards, Holds, RecordResult, At
  <2>2. t \in Share(k) /\ k \in Claimed
    BY <1>c, <1>r, <2>1 DEF SharesInv, ClaimInv, HeldIsClaimed, Claimed, Rows
  <2>3. /\ UNCHANGED <<shard, marked, fromStream, dropped>>
        /\ executed' = [executed EXCEPT ![k] = @ \cup {t}]
        /\ thread' = [thread EXCEPT ![b].tests = @ \ {t}]
    BY <1>6 DEF RecordResult
  <2>4. ExecutedOk /\ RowsOk
    BY <1>r, <1>s, <1>t, <2>1, <2>2, <2>3 DEF SharesInv
  <2>5. \A i \in Indexes : executed[i] \subseteq executed'[i]
    BY <1>t, <2>1, <2>3
  <2>6. /\ \A a \in Threads : a # b => thread'[a] = thread[a]
        /\ thread'[b].shard = k /\ thread'[b].tests = thread[b].tests \ {t}
        /\ thread'[b].step = "executing" /\ t \in executed'[k]
    BY <1>t, <2>1, <2>3 DEF ThreadStates
  <2>7. ASSUME NEW a \in Threads, NEW i \in Indexes, Holds(a, i)'
        PROVE  /\ thread'[a].tests \subseteq Share(i)
               /\ Share(i) \subseteq executed'[i] \cup thread'[a].tests \cup dropped'
               /\ thread'[a].step \in {"executed", "passed"} => thread'[a].tests = {}
    <3>1. CASE a = b
      <4>1. i = k
        BY <2>6, <2>7, <3>1 DEF Holds
      <4>2. /\ thread[b].tests \subseteq Share(k)
            /\ Share(k) \subseteq executed[k] \cup thread[b].tests \cup dropped
        BY <1>r, <2>1 DEF SharesInv
      <4>. QED
        BY <2>1, <2>3, <2>5, <2>6, <3>1, <4>1, <4>2
    <3>2. CASE a # b
      <4>1. Holds(a, i) /\ thread'[a] = thread[a]
        BY <2>6, <2>7, <3>2 DEF Holds
      <4>. QED
        BY <1>r, <2>3, <2>5, <4>1 DEF SharesInv
    <3>. QED
      BY <3>1, <3>2
  <2>. QED
    BY <1>q, <2>3, <2>4, <2>7
<1>7. ASSUME NEW b \in Threads, NEW t \in Tests, LoseResult(b, t) PROVE SharesInv'
  <2>. DEFINE k == thread[b].shard
  <2>1. UNCHANGED <<shard, marked, executed, fromStream>> /\ dropped' = dropped \cup {t}
    BY <1>7 DEF LoseResult
  <2>2. ExecutedOk /\ RowsOk
    BY <1>r, <1>s, <2>1 DEF SharesInv
  <2>3. /\ \A a \in Threads : a # b => thread'[a] = thread[a]
        /\ thread'[b].shard = k /\ thread'[b].tests = thread[b].tests \ {t}
        /\ thread'[b].step = "executing" /\ thread[b].step = "executing"
    BY <1>t, <1>7 DEF LoseResult, At, ThreadStates
  <2>4. ASSUME NEW a \in Threads, NEW i \in Indexes, Holds(a, i)'
        PROVE  /\ thread'[a].tests \subseteq Share(i)
               /\ Share(i) \subseteq executed'[i] \cup thread'[a].tests \cup dropped'
               /\ thread'[a].step \in {"executed", "passed"} => thread'[a].tests = {}
    <3>1. Holds(a, i)
      BY <2>3, <2>4 DEF Holds
    <3>2. /\ thread[a].tests \subseteq Share(i)
          /\ Share(i) \subseteq executed[i] \cup thread[a].tests \cup dropped
          /\ thread[a].step \in {"executed", "passed"} => thread[a].tests = {}
      BY <1>r, <3>1 DEF SharesInv
    <3>. QED
      BY <2>1, <2>3, <3>2
  <2>. QED
    BY <1>q, <2>1, <2>2, <2>4
<1>8. ASSUME NEW b \in Threads, WriteOutcome(b) PROVE SharesInv'
  <2>. DEFINE k == thread[b].shard
  <2>1. k \in Indexes /\ Holds(b, k)
    BY <1>c, <1>8 DEF ClaimInv, ThreadsNameShards, Holds, WriteOutcome, At
  <2>2. thread[b].step = "passed" => Share(k) \subseteq executed[k] \cup dropped
    BY <1>r, <2>1 DEF SharesInv
  <2>3. /\ UNCHANGED <<executed, marked, fromStream, dropped>>
        /\ \/ thread[b].step = "passed" /\ shard' = [shard EXCEPT ![k] = "succeeded"]
           \/ shard' = [shard EXCEPT ![k] = "failed"]
    BY <1>8 DEF WriteOutcome, SetShard, At
  <2>4. ExecutedOk /\ RowsOk
    BY <1>r, <1>s, <1>t, <2>1, <2>2, <2>3 DEF SharesInv
  <2>5. /\ \A a \in Threads : a # b => thread'[a] = thread[a]
        /\ thread'[b].shard = k /\ thread'[b].tests = thread[b].tests
        /\ thread'[b].step = "leaving"
    BY <1>t, <1>8 DEF WriteOutcome, Goto, ThreadStates
  <2>6. HeldOk
    BY <1>r, <2>1, <2>3, <2>5 DEF SharesInv, Holds
  <2>. QED
    BY <1>q, <2>3, <2>4, <2>6
<1>9. ASSUME NEW w \in Workers, ExitDrained(w) \/ CrashWorker(w) PROVE SharesInv'
  <2>1. /\ UNCHANGED <<shard, executed, marked, fromStream>>
        /\ \A a \in Threads : thread'[a] = thread[a] \/ thread'[a].step = "idle"
    BY <1>t, <1>9 DEF ExitDrained, CrashWorker, Replace, IdleThread
  <2>2. ExecutedOk /\ RowsOk
    BY <1>d, <1>r, <1>s, <2>1 DEF SharesInv
  <2>3. HeldOk
    BY <1>d, <1>r, <2>1 DEF SharesInv, Holds
  <2>. QED
    BY <1>q, <2>1, <2>2, <2>3
<1>10. ASSUME NEW w \in Workers, DrainMark(w) PROVE SharesInv'
  <2>. DEFINE k == drainShard[w]
  <2>1. k \in Indexes
    BY <1>c, <1>10 DEF ClaimInv, ThreadsNameShards, DrainMark
  <2>2. /\ UNCHANGED <<executed, marked, thread, fromStream, dropped>>
        /\ shard' = [shard EXCEPT ![k] = IF @ = "running" THEN "preempted" ELSE @]
    BY <1>10 DEF DrainMark
  <2>3. ExecutedOk /\ HeldOk
    BY <1>r, <1>s, <2>2 DEF SharesInv, Holds
  <2>4. RowsOk
    BY <1>r, <1>t, <2>1, <2>2 DEF SharesInv
  <2>. QED
    BY <1>q, <2>2, <2>3, <2>4
<1>11. ASSUME NEW m \in Managers, NEW k \in Indexes, RescheduleNothing(m, k)
       PROVE  SharesInv'
  <2>1. k \notin fromStream => Share(k) \subseteq executed[k]
    BY <1>r, <1>11, ClaimLoadsShare DEF RescheduleNothing, Share
  <2>2. /\ UNCHANGED <<executed, thread, fromStream, dropped>>
        /\ shard' = [shard EXCEPT ![k] = "succeeded"]
        /\ marked' = [marked EXCEPT ![k] = TRUE]
    BY <1>11 DEF RescheduleNothing, SetShard
  <2>3. ExecutedOk /\ HeldOk
    BY <1>r, <1>s, <2>2 DEF SharesInv, Holds
  <2>4. RowsOk
    BY <1>r, <1>t, <2>1, <2>2 DEF SharesInv
  <2>. QED
    BY <1>q, <2>2, <2>3, <2>4
<1>12. CASE UNCHANGED <<shard, executed, marked, thread, fromStream>>
  <2>1. ExecutedOk /\ HeldOk /\ RowsOk
    BY <1>d, <1>r, <1>s, <1>12 DEF SharesInv, Holds
  <2>. QED
    BY <1>q, <1>12, <2>1
<1>. QED
  BY <1>r, <1>1, <1>1a, <1>1b, <1>2, <1>3, <1>4, <1>5, <1>6, <1>7, <1>8, <1>9,
     <1>10, <1>11, <1>12
     DEF Next, vars, PollStep, NatsStep, ThreadStep, DrainStep, SweepStep, FailStep,
         FailThread, DrainLoad, DrainMarkFails, SpotNotice, Redeliver, SweepScan,
         RescheduleSkipped, RunEnds

\* What every shard has executed by itself settles what all have together.
LEMMA SharesSuffice ==
    ASSUME TypeOK, SharesInv, NoReplay PROVE EveryTestOnce
<1>t. fromStream \subseteq Planned /\ Planned \subseteq Indexes
  BY SizesAssumption DEF TypeOK, Planned, Indexes
<1>1. ASSUME fromStream = {} PROVE NoTestTwice /\ NoneLost(Tests)
  <2>1. NoTestTwice
    <3>. SUFFICES ASSUME NEW i \in Indexes, NEW j \in Indexes, i # j
                  PROVE  executed[i] \cap executed[j] = {}
      BY DEF NoTestTwice
    <3>1. Share(i) \cap Share(j) = {}
      BY <1>1, PolledAreDisjoint
    <3>. QED
      BY <3>1 DEF SharesInv
  <2>2. ASSUME \A i \in Rows : Settled(i), NEW t \in Tests
        PROVE  t \in dropped \/ \E i \in Rows : t \in executed[i]
    <3>1. PICK i \in Planned : t \in RoundRobin(i, NumShards)
      BY SharesCover
    <3>2. i \in Rows /\ i \in Indexes /\ t \in Share(i)
      BY <1>1, <1>t, <3>1 DEF SharesInv, Share
    <3>3. shard[i] = "succeeded"
      BY <2>2, <3>2 DEF SharesInv, Settled
    <3>. QED
      BY <1>1, <3>2, <3>3 DEF SharesInv
  <2>. QED
    BY <2>1, <2>2 DEF NoneLost
<1>2. ASSUME fromStream = Claimed PROVE NoTestTwice
  <2>. SUFFICES ASSUME NEW i \in Indexes, NEW j \in Indexes, i # j
                PROVE  executed[i] \cap executed[j] = {}
    BY DEF NoTestTwice
  <2>1. CASE i \in Claimed /\ j \in Claimed
    <3>1. i \in Planned /\ j \in Planned
      BY <1>2, <1>t, <2>1
    <3>2. Share(i) = Assignment[i] /\ Share(j) = Assignment[j]
      BY <1>2, <2>1 DEF Share
    <3>3. Assignment[i] \cap Assignment[j] = {}
      BY <3>1, AssignmentAssumption
    <3>. QED
      BY <3>2, <3>3 DEF SharesInv
  <2>. QED
    BY <2>1 DEF SharesInv
<1>3. ASSUME fromStream = Claimed, \A i \in Indexes : ~marked[i]
      PROVE  NoneLost(UNION {Assignment[i] : i \in Planned})
  <2>. SUFFICES ASSUME \A i \in Rows : Settled(i), NEW i \in Planned,
                       NEW t \in Assignment[i]
                PROVE  t \in dropped \/ \E k \in Rows : t \in executed[k]
    BY DEF NoneLost
  <2>1. i \in Indexes /\ i \in Rows
    BY <1>t DEF SharesInv
  <2>2. shard[i] = "succeeded"
    BY <1>3, <2>1 DEF Settled
  <2>3. i \in fromStream
    BY <1>3, <2>1, <2>2 DEF Claimed
  <2>4. Share(i) = Assignment[i] /\ Share(i) \subseteq executed[i] \cup dropped
    BY <1>3, <2>1, <2>2, <2>3 DEF SharesInv, Share
  <2>. QED
    BY <2>1, <2>4
<1>. QED
  BY <1>1, <1>2, <1>3 DEF EveryTestOnce

\* The invariant of the shares holds for any fleet, any number of tests and
\* shards, either way of claiming and any faults.
LEMMA SharedOutInvariant == Spec => []SharedOutInv
<1>1. Init => SharedOutInv
  <2>. SUFFICES ASSUME Init PROVE SharedOutInv
    OBVIOUS
  <2>1. Rows = Planned /\ Claimed = {}
    BY SizesAssumption DEF Init, Rows, Planned, Indexes, Claimed
  <2>2. \A a \in Threads, i \in Indexes : ~Holds(a, i)
    BY DEF Init, Holds, IdleThread
  <2>. QED
    BY <2>1, <2>2, ClaimInit DEF Init, SharedOutInv, SharesInv
<1>2. SharedOutInv /\ [Next]_vars => SharedOutInv'
  <2>. SUFFICES ASSUME SharedOutInv, [Next]_vars PROVE SharedOutInv'
    OBVIOUS
  <2>1. ClaimInv'
    BY ClaimStep DEF SharedOutInv
  <2>2. NoReplay' => SharesInv'
    BY SharesStep
  <2>. QED
    BY <2>1, <2>2 DEF SharedOutInv
<1>. QED
  BY <1>1, <1>2, PTL DEF Spec

\* As long as nothing is replayed and all claims are made the same way, the
\* workers share the tests out exactly, with or without JetStream and whatever
\* fails: no test is executed by two shards, and the only results missing once
\* every shard has succeeded are those recordResult failed to write.
THEOREM SharedOutExactly == Spec => []EveryTestOnce
<1>1. SharedOutInv => EveryTestOnce
  BY SharesSuffice DEF SharedOutInv, EveryTestOnce, ClaimInv
<1>. QED
  BY <1>1, SharedOutInvariant, PTL

=============================================================================
