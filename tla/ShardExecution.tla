--------------------------- MODULE ShardExecution ---------------------------
(***************************************************************************)
(* The shards of one planned run, from the claim to the last result:       *)
(* worker agents (internal/worker), the dispatch stream (internal/nats),   *)
(* spot interruptions, and the sweep of the Run Manager that replays       *)
(* preempted shards (reschedulePreempted).                                 *)
(*                                                                         *)
(* A worker process has a polling loop and, with JetStream, a consumer     *)
(* callback.  They share draining and ONE currentShardID, which the drain  *)
(* path reads.  A test is its position in the manifest, a shard its index. *)
(***************************************************************************)
EXTENDS Naturals, FiniteSets

CONSTANTS
    Workers, Managers,
    NoShard,      \* currentShardID = ""
    NumTests,     \* tests of the manifest
    NumShards,    \* assignments of the plan
    Assignment,   \* tests the scheduler assigned to each shard
    MaxShards,    \* bound: shard rows, those of the plan included
    UseNATS,      \* JetStream connected
    Spot,         \* spot notices may arrive
    Crashes,      \* worker processes may die
    DbErrors,     \* statements of a worker may fail
    FaultLimit    \* bound: notices, crashes, redeliveries, errors, a cancel

Tests    == 0 .. NumTests - 1
Planned  == 0 .. NumShards - 1
Indexes  == 0 .. MaxShards - 1
Threads  == Workers \X {"poll", "nats"}

ASSUME SizesAssumption ==
    /\ NumTests \in Nat \ {0} /\ NumShards \in Nat \ {0} /\ MaxShards \in Nat
    /\ NumShards <= MaxShards /\ FaultLimit \in Nat
ASSUME NoShardAssumption == NoShard \notin Nat
ASSUME SwitchesAssumption == {UseNATS, Spot, Crashes, DbErrors} \subseteq BOOLEAN
ASSUME AssignmentAssumption ==
    /\ Assignment \in [Planned -> SUBSET Tests]
    /\ \A i, j \in Planned : i # j => Assignment[i] \cap Assignment[j] = {}

VARIABLES
    active,     \* runs.status is 'dispatching' or 'running'
    shard,      \* shards.status by index, "none" if there is no row
    executed,   \* tests with a row in test_executions, by shard
    reshard,    \* runs.meta.reshards: tests of a replayed shard
    marked,     \* shards.meta.rescheduled_at IS NOT NULL
    origin,     \* the shard a row replays (history)
    replayer,   \* the replica that inserted a replay (history)
    fromStream, \* shards that were claimed from a message (history)
    dropped,    \* tests whose recordResult has failed (history)
    stream,     \* dispatch messages not acknowledged
    inflight,   \* messages delivered and not acknowledged
    thread,     \* control state of each thread
    current,    \* Agent.currentShardID
    drain,      \* progress of beginDrain; "no" while draining is false
    drainShard, \* currentShardID as beginDrain loaded it
    sweep,      \* work list of a reschedule pass
    faults

past    == <<origin, replayer, fromStream, dropped>>
db      == <<active, shard, executed, reshard, marked, past>>
queue   == <<stream, inflight>>
agents  == <<thread, current, drain, drainShard>>
vars    == <<db, queue, agents, sweep, faults>>

\* The CHECK of teo.shards.  Nothing under src/ writes 'lost'.
ShardStatuses ==
    {"none", "pending", "running", "succeeded", "failed", "lost", "preempted"}

Steps == {"idle", "polling", "delivered", "claimed", "executing",
          "executed", "errored", "passed", "broken", "leaving"}

ThreadStates ==
    [step : Steps, shard : Indexes \cup {NoShard}, tests : SUBSET Tests]

IdleThread == [step |-> "idle", shard |-> NoShard, tests |-> {}]

TypeOK ==
    /\ active \in BOOLEAN
    /\ shard \in [Indexes -> ShardStatuses]
    /\ executed \in [Indexes -> SUBSET Tests]
    /\ reshard \in [Indexes -> SUBSET Tests]
    /\ marked \in [Indexes -> BOOLEAN]
    /\ origin \in [Indexes -> Indexes \cup {NoShard}]
    /\ replayer \in [Indexes -> Managers \cup {NoShard}]
    /\ fromStream \subseteq Planned /\ dropped \subseteq Tests
    /\ stream \subseteq Planned /\ inflight \subseteq stream
    /\ thread \in [Threads -> ThreadStates]
    /\ current \in [Workers -> Indexes \cup {NoShard}]
    /\ drain \in [Workers -> {"no", "flagged", "loaded", "done"}]
    /\ drainShard \in [Workers -> Indexes \cup {NoShard}]
    /\ sweep \in [Managers -> SUBSET Indexes]
    /\ faults \in Nat

\* The run has been planned; with JetStream its dispatch may have published
\* any of its shards (a failed publish is only logged).
Init ==
    /\ active = TRUE
    /\ shard = [i \in Indexes |-> IF i \in Planned THEN "pending" ELSE "none"]
    /\ executed = [i \in Indexes |-> {}]
    /\ reshard = [i \in Indexes |-> {}]
    /\ marked = [i \in Indexes |-> FALSE]
    /\ origin = [i \in Indexes |-> NoShard]
    /\ replayer = [i \in Indexes |-> NoShard]
    /\ fromStream = {} /\ dropped = {}
    /\ stream \in IF UseNATS THEN SUBSET Planned ELSE {{}}
    /\ inflight = {}
    /\ thread = [a \in Threads |-> IdleThread]
    /\ current = [w \in Workers |-> NoShard]
    /\ drain = [w \in Workers |-> "no"]
    /\ drainShard = [w \in Workers |-> NoShard]
    /\ sweep = [m \in Managers |-> {}]
    /\ faults = 0

Rows == {i \in Indexes : shard[i] # "none"}

draining(w) == drain[w] # "no"

At(a, step) == thread[a].step = step

Goto(a, step) == thread' = [thread EXCEPT ![a].step = step]

SetShard(i, status) == shard' = [shard EXCEPT ![i] = status]

\* A statement of a worker fails.
DbError == DbErrors /\ faults < FaultLimit /\ faults' = faults + 1

-----------------------------------------------------------------------------
(* Claiming.                                                               *)

\* Seeded fault: the shard index counts from one.
RoundRobinOneBased(i, total) == {t \in Tests : t % total = i + 1}

\* The round robin of loadTestsForShard and of rescheduleOne, over the number
\* of shard rows there are NOW.
RoundRobin(i, total) == {t \in Tests : t % total = i}

\* loadTestsForShard: the manifest of a replayed shard, else the round robin.
loadTestsForShard(i) ==
    IF reshard[i] # {} THEN reshard[i] ELSE RoundRobin(i, Cardinality(Rows))

\* A tick of Run's loop: tryClaimAndRun has seen that it is not draining.
PollTick(w) ==
    /\ At(<<w, "poll">>, "idle")
    /\ ~draining(w)
    /\ Goto(<<w, "poll">>, "polling")
    /\ UNCHANGED <<db, queue, current, drain, drainShard, sweep, faults>>

\* The claim: oldest pending shard of a run under way, FOR UPDATE SKIP LOCKED,
\* with its tests; one transaction.
PollClaim(w, i) ==
    /\ At(<<w, "poll">>, "polling")
    /\ active
    /\ shard[i] = "pending"
    /\ \A j \in Rows : shard[j] = "pending" => i \in Planned \/ i <= j
    /\ SetShard(i, "running")
    /\ thread' = [thread EXCEPT ![<<w, "poll">>] =
           [step |-> "claimed", shard |-> i, tests |-> loadTestsForShard(i)]]
    /\ UNCHANGED <<active, executed, reshard, marked, past, queue,
                   current, drain, drainShard, sweep, faults>>

\* Nothing to claim: the tick ends.
PollNothing(w) ==
    /\ At(<<w, "poll">>, "polling")
    /\ ~active \/ \A i \in Rows : shard[i] # "pending"
    /\ Goto(<<w, "poll">>, "idle")
    /\ UNCHANGED <<db, queue, current, drain, drainShard, sweep, faults>>

\* The claim fails and is rolled back; the error is logged.
PollFails(w) ==
    /\ At(<<w, "poll">>, "polling")
    /\ DbError
    /\ Goto(<<w, "poll">>, "idle")
    /\ UNCHANGED <<db, queue, current, drain, drainShard, sweep>>

\* JetStream hands the next message to the callback of some worker.  Every
\* worker subscribes under the same durable name, MaxAckPending = 1.
Deliver(w, i) ==
    /\ At(<<w, "nats">>, "idle")
    /\ i \in stream /\ inflight = {}
    /\ inflight' = {i}
    /\ thread' = [thread EXCEPT ![<<w, "nats">>] =
           [step |-> "delivered", shard |-> i, tests |-> {}]]
    /\ UNCHANGED <<db, stream, current, drain, drainShard, sweep, faults>>

\* AckWait passes, or the consumer is gone: the message is handed out again.
Redeliver(i) ==
    /\ i \in inflight
    /\ faults < FaultLimit
    /\ faults' = faults + 1
    /\ inflight' = inflight \ {i}
    /\ UNCHANGED <<db, stream, agents, sweep>>

\* handleMessage on a draining worker, or when the claim fails: nak.
Nak(w) ==
    /\ At(<<w, "nats">>, "delivered")
    /\ \/ draining(w) /\ UNCHANGED faults
       \/ ~draining(w) /\ DbError
    /\ inflight' = inflight \ {thread[<<w, "nats">>].shard}
    /\ thread' = [thread EXCEPT ![<<w, "nats">>] = IdleThread]
    /\ UNCHANGED <<db, stream, current, drain, drainShard, sweep>>

Ack(i) == stream' = stream \ {i} /\ inflight' = inflight \ {i}

\* Seeded fault: the claim of handleMessage does not ask for 'pending'.
NatsClaimUnguarded(w) ==
    LET i == thread[<<w, "nats">>].shard IN
    /\ At(<<w, "nats">>, "delivered")
    /\ ~draining(w)
    /\ SetShard(i, "running")
    /\ thread' = [thread EXCEPT ![<<w, "nats">>] =
           [step |-> "claimed", shard |-> i, tests |-> Assignment[i]]]
    /\ fromStream' = fromStream \cup {i}
    /\ UNCHANGED <<active, executed, reshard, marked, origin, replayer, dropped,
                   queue, current, drain, drainShard, sweep, faults>>

\* handleMessage: claim the shard the message names, whatever became of its
\* run; its tests are those of the message, the scheduler's assignment.
NatsClaim(w) ==
    LET i == thread[<<w, "nats">>].shard IN
    /\ At(<<w, "nats">>, "delivered")
    /\ ~draining(w)
    /\ shard[i] = "pending"
    /\ SetShard(i, "running")
    /\ thread' = [thread EXCEPT ![<<w, "nats">>] =
           [step |-> "claimed", shard |-> i, tests |-> Assignment[i]]]
    /\ fromStream' = fromStream \cup {i}
    /\ UNCHANGED <<active, executed, reshard, marked, origin, replayer, dropped,
                   queue, current, drain, drainShard, sweep, faults>>

\* handleMessage: somebody has the shard already, or had it.
NatsDrop(w) ==
    LET i == thread[<<w, "nats">>].shard IN
    /\ At(<<w, "nats">>, "delivered")
    /\ ~draining(w)
    /\ shard[i] # "pending"
    /\ Ack(i)
    /\ thread' = [thread EXCEPT ![<<w, "nats">>] = IdleThread]
    /\ UNCHANGED <<db, current, drain, drainShard, sweep, faults>>

-----------------------------------------------------------------------------
(* Executing.                                                              *)

\* currentShardID.Store, after the claim has been committed; executeShard lets
\* a shard without tests succeed at once.
StoreCurrent(a) ==
    /\ At(a, "claimed")
    /\ current' = [current EXCEPT ![a[1]] = thread[a].shard]
    /\ Goto(a, IF thread[a].tests = {} THEN "passed" ELSE "executing")
    /\ UNCHANGED <<db, queue, drain, drainShard, sweep, faults>>

\* recordResult of one test, from the callback of the adapter.
RecordResult(a, t) ==
    /\ At(a, "executing")
    /\ t \in thread[a].tests
    /\ executed' = [executed EXCEPT ![thread[a].shard] = @ \cup {t}]
    /\ thread' = [thread EXCEPT ![a].tests = @ \ {t}]
    /\ UNCHANGED <<active, shard, reshard, marked, past, queue,
                   current, drain, drainShard, sweep, faults>>

\* A statement of recordResult fails: the error is logged, the result gone.
LoseResult(a, t) ==
    /\ At(a, "executing")
    /\ t \in thread[a].tests
    /\ DbError
    /\ thread' = [thread EXCEPT ![a].tests = @ \ {t}]
    /\ dropped' = dropped \cup {t}
    /\ UNCHANGED <<active, shard, executed, reshard, marked, origin, replayer,
                   fromStream, queue, current, drain, drainShard, sweep>>

\* Adapter.Execute returns, without error once every test was reported.
ExecuteReturns(a) ==
    /\ At(a, "executing")
    /\ thread[a].tests = {}
    /\ Goto(a, "executed")
    /\ UNCHANGED <<db, queue, current, drain, drainShard, sweep, faults>>

ExecuteFails(a) ==
    /\ At(a, "executing")
    /\ thread[a].tests # {}
    /\ faults < FaultLimit
    /\ faults' = faults + 1
    /\ Goto(a, "errored")
    /\ UNCHANGED <<db, queue, current, drain, drainShard, sweep>>

\* executeShard looks at draining: it leaves the shard to beginDrain, or goes
\* on to write the outcome.
CheckDraining(a) ==
    /\ At(a, "executed") \/ At(a, "errored")
    /\ Goto(a, CASE draining(a[1])     -> "leaving"
                 [] At(a, "executed")  -> "passed"
                 [] At(a, "errored")   -> "broken")
    /\ UNCHANGED <<db, queue, current, drain, drainShard, sweep, faults>>

\* executeShard's UPDATE, by id only.
WriteOutcome(a) ==
    /\ At(a, "passed") \/ At(a, "broken")
    /\ SetShard(thread[a].shard, IF At(a, "passed") THEN "succeeded" ELSE "failed")
    /\ Goto(a, "leaving")
    /\ UNCHANGED <<active, executed, reshard, marked, past, queue,
                   current, drain, drainShard, sweep, faults>>

\* The same UPDATE fails; its error is ignored.
LoseOutcome(a) ==
    /\ At(a, "passed") \/ At(a, "broken")
    /\ DbError
    /\ Goto(a, "leaving")
    /\ UNCHANGED <<db, queue, current, drain, drainShard, sweep>>

\* The deferred Store(""), after the ack of a message.
Leave(a) ==
    /\ At(a, "leaving")
    /\ current' = [current EXCEPT ![a[1]] = NoShard]
    /\ thread' = [thread EXCEPT ![a] = IdleThread]
    /\ IF a[2] = "nats" THEN Ack(thread[a].shard) ELSE UNCHANGED queue
    /\ UNCHANGED <<db, drain, drainShard, sweep, faults>>

-----------------------------------------------------------------------------
(* Preemption.                                                             *)

\* beginDrain: the notice sets draining,
SpotNotice(w) ==
    /\ Spot /\ drain[w] = "no"
    /\ faults < FaultLimit
    /\ faults' = faults + 1
    /\ drain' = [drain EXCEPT ![w] = "flagged"]
    /\ UNCHANGED <<db, queue, thread, current, drainShard, sweep>>

\* loads currentShardID and returns if there is none,
DrainLoad(w) ==
    /\ drain[w] = "flagged"
    /\ drainShard' = [drainShard EXCEPT ![w] = current[w]]
    /\ drain' = [drain EXCEPT ![w] =
           IF current[w] = NoShard THEN "done" ELSE "loaded"]
    /\ UNCHANGED <<db, queue, thread, current, sweep, faults>>

\* and marks that shard 'preempted' if it is 'running'.
DrainMark(w) ==
    LET i == drainShard[w] IN
    /\ drain[w] = "loaded"
    /\ shard' = [shard EXCEPT ![i] = IF @ = "running" THEN "preempted" ELSE @]
    /\ drain' = [drain EXCEPT ![w] = "done"]
    /\ UNCHANGED <<active, executed, reshard, marked, past, queue,
                   thread, current, drainShard, sweep, faults>>

\* The UPDATE fails; the worker drains all the same.
DrainMarkFails(w) ==
    /\ drain[w] = "loaded"
    /\ DbError
    /\ drain' = [drain EXCEPT ![w] = "done"]
    /\ UNCHANGED <<db, queue, thread, current, drainShard, sweep>>

\* The process is gone and a fresh one takes its place.
Replace(w) ==
    /\ thread' = [a \in Threads |-> IF a[1] = w THEN IdleThread ELSE thread[a]]
    /\ current' = [current EXCEPT ![w] = NoShard]
    /\ drain' = [drain EXCEPT ![w] = "no"]
    /\ drainShard' = [drainShard EXCEPT ![w] = NoShard]

\* Run returns once it is draining and sees no shard in flight.
ExitDrained(w) ==
    /\ drain[w] = "done"
    /\ At(<<w, "poll">>, "idle")
    /\ current[w] = NoShard
    /\ Replace(w)
    /\ UNCHANGED <<db, queue, sweep, faults>>

\* The instance is reclaimed, or the process dies.
CrashWorker(w) ==
    /\ Crashes
    /\ faults < FaultLimit
    /\ faults' = faults + 1
    /\ Replace(w)
    /\ UNCHANGED <<db, queue, sweep>>

-----------------------------------------------------------------------------
(* The reschedule sweep of the Run Manager.                                *)

\* Seeded fault: the scan forgets the dedupe marker.
SweepDueUnmarked(i) == active /\ shard[i] \in {"preempted", "lost"}

\* Seeded fault: the scan asks for shards that have the marker.
SweepDueInverted(i) ==
    active /\ shard[i] \in {"preempted", "lost"} /\ marked[i]

SweepDue(i) == active /\ shard[i] \in {"preempted", "lost"} /\ ~marked[i]

\* reschedulePreempted's scan.
SweepScan(m) ==
    /\ sweep[m] = {}
    /\ \E i \in Indexes : SweepDue(i)
    /\ sweep' = [sweep EXCEPT ![m] = {i \in Indexes : SweepDue(i)}]
    /\ UNCHANGED <<db, queue, agents, faults>>

\* Tests of shard i that rescheduleOne finds unfinished.
Remaining(i) == RoundRobin(i, Cardinality(Rows)) \ executed[i]

\* rescheduleOne with nothing left to run.
RescheduleNothing(m, i) ==
    /\ i \in sweep[m]
    /\ Remaining(i) = {}
    /\ SetShard(i, "succeeded")
    /\ marked' = [marked EXCEPT ![i] = TRUE]
    /\ sweep' = [sweep EXCEPT ![m] = @ \ {i}]
    /\ UNCHANGED <<active, executed, reshard, past, queue, agents, faults>>

\* rescheduleOne: a pending shard with the unfinished tests, appended at the
\* end; the original gets the marker.  One transaction under the advisory
\* lock; the row is not read again after the lock was taken.
Reschedule(m, i) ==
    LET new == Cardinality(Rows) IN
    /\ i \in sweep[m]
    /\ Remaining(i) # {}
    /\ new \in Indexes
    /\ SetShard(new, "pending")
    /\ reshard' = [reshard EXCEPT ![new] = Remaining(i)]
    /\ origin' = [origin EXCEPT ![new] = i]
    /\ replayer' = [replayer EXCEPT ![new] = m]
    /\ marked' = [marked EXCEPT ![i] = TRUE]
    /\ sweep' = [sweep EXCEPT ![m] = @ \ {i}]
    /\ UNCHANGED <<active, executed, fromStream, dropped, queue, agents, faults>>

\* rescheduleOne does not get the advisory lock, or a statement of it fails.
RescheduleSkipped(m, i) ==
    /\ i \in sweep[m]
    /\ faults < FaultLimit
    /\ faults' = faults + 1
    /\ sweep' = [sweep EXCEPT ![m] = @ \ {i}]
    /\ UNCHANGED <<db, queue, agents>>

\* The run is cancelled or runs over its budget.
RunEnds ==
    /\ active
    /\ faults < FaultLimit
    /\ faults' = faults + 1
    /\ active' = FALSE
    /\ UNCHANGED <<shard, executed, reshard, marked, past, queue, agents,
                   sweep>>

-----------------------------------------------------------------------------

PollStep(w) ==
    PollTick(w) \/ PollNothing(w) \/ \E i \in Indexes : PollClaim(w, i)

NatsStep(w) ==
    \/ \E i \in Indexes : Deliver(w, i)
    \/ Nak(w) \/ NatsClaim(w) \/ NatsDrop(w)

ThreadStep(a) ==
    \/ StoreCurrent(a)
    \/ \E t \in Tests : RecordResult(a, t)
    \/ ExecuteReturns(a)
    \/ CheckDraining(a)
    \/ WriteOutcome(a)
    \/ Leave(a)

DrainStep(w) == DrainLoad(w) \/ DrainMark(w) \/ ExitDrained(w)

SweepStep(m) ==
    \/ SweepScan(m)
    \/ \E i \in Indexes : RescheduleNothing(m, i) \/ Reschedule(m, i)

\* What goes wrong in worker w outside, and in thread a inside, a shard.
FailStep(w) == PollFails(w) \/ DrainMarkFails(w)

FailThread(a) ==
    ExecuteFails(a) \/ LoseOutcome(a) \/ \E t \in Tests : LoseResult(a, t)

Next ==
    \/ \E w \in Workers :
          \/ PollStep(w) \/ NatsStep(w) \/ DrainStep(w) \/ FailStep(w)
          \/ SpotNotice(w) \/ CrashWorker(w)
    \/ \E a \in Threads : ThreadStep(a) \/ FailThread(a)
    \/ \E m \in Managers :
          SweepStep(m) \/ \E i \in Indexes : RescheduleSkipped(m, i)
    \/ \E i \in Indexes : Redeliver(i)
    \/ RunEnds

Spec == Init /\ [][Next]_vars

\* Loops and goroutines keep running; tests end; the work queue delivers.
Fairness ==
    /\ \A w \in Workers : /\ WF_vars(PollStep(w))
                          /\ WF_vars(NatsStep(w))
                          /\ WF_vars(DrainStep(w))
    /\ \A a \in Threads : WF_vars(ThreadStep(a))
    /\ \A m \in Managers : WF_vars(SweepStep(m))

FairSpec == Spec /\ Fairness

-----------------------------------------------------------------------------
(* Safety.                                                                 *)

\* The thread works on the shard it claimed.
Holds(a, i) ==
    thread[a].shard = i /\ thread[a].step \notin {"idle", "polling", "delivered"}

\* However polls, deliveries, redeliveries, drains, crashes and sweeps
\* interleave, no two threads of the fleet ever execute the same shard.
OneThreadPerShard ==
    \A a, b \in Threads, i \in Indexes : Holds(a, i) /\ Holds(b, i) => a = b

\* A shard that somebody executes was claimed: its row has left 'pending' and
\* cannot be claimed again.
HeldIsClaimed ==
    \A a \in Threads, i \in Indexes :
        Holds(a, i) => shard[i] \notin {"none", "pending"}

\* A shard 'running' in the database has a thread that will end it, or a
\* drain under way that may mark it; the Run Manager looks at no other.
RunningIsHeld ==
    \A i \in Indexes : shard[i] = "running" =>
        \/ \E a \in Threads : Holds(a, i)
        \/ \E w \in Workers : drain[w] \in {"flagged", "loaded"}

Settled(i) ==
    \/ shard[i] = "succeeded"
    \/ shard[i] = "preempted" /\ marked[i]

\* When every shard has succeeded or was replayed, every test of the set has a
\* result, unless recordResult failed.
NoneLost(wanted) ==
    (\A i \in Rows : Settled(i)) =>
        \A t \in wanted : t \in dropped \/ \E i \in Rows : t \in executed[i]

\* No test of the manifest is executed by two shards.
NoTestTwice ==
    \A i, j \in Indexes : i # j => executed[i] \cap executed[j] = {}

NoReplay == \A i \in Indexes : origin[i] = NoShard

Claimed == {i \in Rows : shard[i] # "pending"}

\* As long as nothing is replayed and every claim has been made the same way,
\* the shards share the tests out exactly, whatever the workers are told, lose
\* or crash on: no test is executed by two shards, and when all have succeeded
\* none was left out.  Claims by polling give out the manifest by round robin;
\* a replay adds a row and so changes the share of the shards still to be
\* claimed.  Claims from messages give out what the scheduler assigned; the
\* sweep that finds nothing to replay asks for the round robin nevertheless,
\* so here no shard may have been swept.
EveryTestOnce ==
    /\ NoReplay /\ fromStream = {} => NoTestTwice /\ NoneLost(Tests)
    /\ NoReplay /\ fromStream = Claimed =>
          /\ NoTestTwice
          /\ (\A i \in Indexes : ~marked[i]) =>
                NoneLost(UNION {Assignment[i] : i \in Planned})

\* A shard is replayed at most once by each replica of the Run Manager: the
\* replica that has written the marker does not scan the shard again.  Another
\* replica with an older scan does not read the marker, so a shard has as many
\* replays as there are replicas in the worst case, and no more.
ReplayedOncePerReplica ==
    \A i, j \in Indexes :
        origin[i] # NoShard /\ origin[i] = origin[j] /\ replayer[i] = replayer[j]
            => i = j

\* executeShard does not overwrite 'preempted' with an outcome: that is left
\* to the sweep, which marks the shard.
PreemptedIsKept ==
    [][\A i \in Indexes : shard[i] = "preempted" /\ shard'[i] # "preempted"
          => marked'[i]]_vars

-----------------------------------------------------------------------------
(* The inductive invariant behind OneThreadPerShard.                       *)

\* A thread that is past its claim, or has a message, names a shard; only
\* planned shards are published.
ThreadsNameShards ==
    /\ \A a \in Threads :
          thread[a].step \notin {"idle", "polling"} => thread[a].shard \in Indexes
    /\ \A w \in Workers : At(<<w, "nats">>, "delivered") =>
          thread[<<w, "nats">>].shard \in Planned
    /\ \A w \in Workers : drain[w] = "loaded" => drainShard[w] \in Indexes

\* The indexes of the rows have no gaps: count(*) is the next free one.
RowsAreContiguous ==
    \E n \in 0 .. MaxShards : Rows = 0 .. n - 1

\* The sweep works on rows.
SweepIsOfRows == \A m \in Managers : sweep[m] \subseteq Rows

ClaimInv ==
    /\ TypeOK
    /\ ThreadsNameShards
    /\ RowsAreContiguous
    /\ SweepIsOfRows
    /\ HeldIsClaimed
    /\ OneThreadPerShard

\* The inductive invariant behind ReplayedOncePerReplica: what has been
\* replayed carries the marker, and the work list of a replica names no shard
\* which that replica has replayed.
ReplayInv ==
    /\ ClaimInv
    /\ \A j \in Indexes : origin[j] # NoShard => j \in Rows /\ marked[origin[j]]
    /\ \A m \in Managers, j \in Indexes :
          origin[j] \in sweep[m] => replayer[j] # m
    /\ ReplayedOncePerReplica

\* The tests the claimer of shard i was given, while nothing is replayed.
Share(i) ==
    IF i \in fromStream THEN Assignment[i] ELSE RoundRobin(i, NumShards)

\* The inductive invariant behind EveryTestOnce: as long as nothing is
\* replayed the rows are the planned ones, so every claim of a shard by
\* polling loads the same share; what a thread no longer has to run is
\* recorded, unless a failed statement lost it.
SharesInv ==
    /\ Rows = Planned
    /\ fromStream \subseteq Claimed
    /\ \A i \in Indexes : reshard[i] = {}
    /\ \A i \in Indexes : executed[i] \subseteq Share(i)
    /\ \A i \in Indexes : i \notin Claimed => executed[i] = {}
    /\ \A a \in Threads, i \in Indexes : Holds(a, i) =>
          /\ thread[a].tests \subseteq Share(i)
          /\ Share(i) \subseteq executed[i] \cup thread[a].tests \cup dropped
          /\ thread[a].step \in {"executed", "passed"} => thread[a].tests = {}
    /\ \A i \in Indexes :
          /\ marked[i] => shard[i] \in {"succeeded", "failed"}
          /\ shard[i] = "succeeded" /\ (i \in fromStream => ~marked[i]) =>
                Share(i) \subseteq executed[i] \cup dropped

SharedOutInv == ClaimInv /\ (NoReplay => SharesInv)

-----------------------------------------------------------------------------
(* Liveness, under FairSpec.                                               *)

\* Every shard of a run under way gets an outcome.
ShardsEnd ==
    \A i \in Indexes :
        shard[i] = "pending" /\ active
            ~> ~active \/ shard[i] \in {"succeeded", "failed"}

\* A preempted shard of a run under way does not stay unnoticed: the sweep
\* replays it, unless the run ends first, a late UPDATE of its worker writes
\* the outcome, or the bound leaves no room for the row.
PreemptedIsReplayed ==
    \A i \in Indexes :
        shard[i] = "preempted"
            ~> \/ ~active \/ marked[i] \/ shard[i] \in {"succeeded", "failed"}
               \/ Cardinality(Rows) = MaxShards

-----------------------------------------------------------------------------
(* Claims of the repository that do not hold.                              *)

\* internal/runmanager/manager.go, reschedulePreempted: the marker is written
\* so that a shard is not rescheduled twice.
ReplayedOnce ==
    \A i, j \in Indexes : origin[i] # NoShard /\ origin[i] = origin[j] => i = j

\* internal/worker/worker.go, loadTestsForShard: the round robin loads what the
\* planner intended for the shard.  Then every test has a result in the end.
NoTestLost == NoneLost(Tests)

\* docs/architecture/overview.md: a shard whose worker went silent is marked
\* lost and replayed.  It does not stay 'running' with nobody to run it.
SilentShardIsRecovered ==
    \A i \in Indexes :
        shard[i] = "running" /\ (\A a \in Threads : ~Holds(a, i))
            ~> ~active \/ shard[i] # "running"
=============================================================================
