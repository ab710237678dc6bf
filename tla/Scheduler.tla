----------------------------- MODULE Scheduler -----------------------------
(***************************************************************************)
(* PlanFunc and Replay of internal/scheduler: longest-processing-time-first *)
(* packing of the tests of a manifest into shards, and the determinism     *)
(* check of `teo replay`, which plans a second time from the stored plan.  *)
(*                                                                         *)
(* PlanFunc is one call; its loops are unrolled into one step per test so  *)
(* that what a partial plan satisfies can be stated.  A step never has a   *)
(* choice: the behaviours differ in the input only.                        *)
(***************************************************************************)
EXTENDS Naturals, Sequences, FiniteSets, Functions, TLC

CONSTANTS
    Tests,          \* tests of the manifest, told apart by their content
    Durations,      \* predicted durations, in units of ms
    TagLists,       \* lists of tags a test may have
    Exclusive,      \* the tags prefixed "exclusive-"
    NoTag, NoBin, NoPlan,
    Orders,         \* orders of the input, as positions of the tests
    Lanes,          \* sets of tests that may be quarantined
    Hashes,         \* stableHash, as functions of the tests
    ConstraintSets, \* [target, min, max]
    Floor,          \* 50 ms
    DefaultTarget,  \* 300 s
    DefaultMax      \* 50 shards

ASSUME TestsAssumption == IsFiniteSet(Tests)
ASSUME NumbersAssumption ==
    /\ Floor \in Nat \ {0} /\ DefaultTarget \in Nat \ {0}
    /\ DefaultMax \in Nat /\ Durations \subseteq Nat
ASSUME ConstraintsAssumption ==
    ConstraintSets \subseteq [target : Nat, min : Nat, max : Nat]
ASSUME TagListsAssumption == \A list \in TagLists : DOMAIN list \subseteq Nat
ASSUME LanesAssumption == Lanes \subseteq SUBSET Tests
ASSUME OrdersAssumption ==
    /\ Orders \subseteq [Tests -> Nat]
    /\ \A p \in Orders : \A t, u \in Tests : p[t] = p[u] => t = u
ASSUME HashesAssumption == Hashes \subseteq [Tests -> Nat]
ASSUME NothingAssumption == NoBin \notin Nat /\ NoTag \notin Exclusive

VARIABLES
    tags, quarantined, hash, c,   \* input: tags, IsQuarantined, constraints
    position,   \* place of each test in the input slice
    duration,   \* Test.PredictedMS, floored in place
    phase,      \* "floor", "pack" or "planned"
    todo,       \* tests the current loop has not come to
    totalMS,
    bins,       \* bins[i].Tests
    load,       \* bins[i].PredictedDurationMS
    exclusiveBin,
    plan,       \* the plan returned last
    stored      \* the plan Replay was given

input == <<tags, quarantined, hash, c, position>>
vars  == <<input, duration, phase, todo, totalMS, bins, load, exclusiveBin,
           plan, stored>>

Active == Tests \ quarantined

Init ==
    /\ tags \in [Tests -> TagLists]
    /\ quarantined \in Lanes
    /\ hash \in Hashes
    /\ c \in ConstraintSets
    /\ position \in Orders
    /\ duration \in [Tests -> Durations]
    /\ phase = "floor"
    /\ todo = Active
    /\ totalMS = 0
    /\ bins = << >> /\ load = << >>
    /\ exclusiveBin = [x \in Exclusive |-> NoBin]
    /\ plan = NoPlan /\ stored = NoPlan

-----------------------------------------------------------------------------
(* The number of shards.                                                   *)

Larger(a, b)  == IF a > b THEN a ELSE b
Smaller(a, b) == IF a < b THEN a ELSE b

\* Zero or contradictory constraints are replaced by defaults.
Target    == IF c.target = 0 THEN DefaultTarget ELSE c.target
MinShards == IF c.min < 1 THEN 1 ELSE c.min
MaxShards == IF c.max < MinShards THEN Larger(MinShards, DefaultMax) ELSE c.max

\* Enough shards to meet the target, within the constraints, and no more than
\* there are tests.
Desired(ms) == IF ms > 0 THEN (ms + Target - 1) \div Target ELSE 1

ShardsFor(ms) ==
    LET wanted == Smaller(Larger(Desired(ms), MinShards), MaxShards)
    IN IF Active # {} THEN Smaller(wanted, Cardinality(Active)) ELSE wanted

shardCount == ShardsFor(totalMS)

\* One turn of the loop that floors and sums the durations.
FloorTest(t) ==
    /\ phase = "floor" /\ t \in todo
    /\ \A u \in todo : position[t] <= position[u]
    /\ duration' = [duration EXCEPT ![t] = Larger(@, Floor)]
    /\ totalMS' = totalMS + Larger(duration[t], Floor)
    /\ todo' = todo \ {t}
    /\ UNCHANGED <<input, phase, bins, load, exclusiveBin, plan, stored>>

Indexes(n) == 0 .. n - 1

\* The empty bins.
MakeBins ==
    /\ phase = "floor" /\ todo = {}
    /\ phase' = "pack"
    /\ todo' = Active
    /\ bins' = [i \in Indexes(shardCount) |-> << >>]
    /\ load' = [i \in Indexes(shardCount) |-> 0]
    /\ UNCHANGED <<input, duration, totalMS, exclusiveBin, plan, stored>>

-----------------------------------------------------------------------------
(* Packing.                                                                *)

\* Seeded fault: shortest first.
BeforeAscending(t, u) ==
    \/ duration[t] < duration[u]
    \/ duration[t] = duration[u] /\ hash[t] < hash[u]
    \/ duration[t] = duration[u] /\ hash[t] = hash[u] /\ position[t] < position[u]

\* Seeded fault: ties keep the order of the input.
BeforeWithoutHash(t, u) ==
    \/ duration[t] > duration[u]
    \/ duration[t] = duration[u] /\ position[t] < position[u]

\* The order of the stable sort.
Before(t, u) ==
    \/ duration[t] > duration[u]
    \/ duration[t] = duration[u] /\ hash[t] < hash[u]
    \/ duration[t] = duration[u] /\ hash[t] = hash[u] /\ position[t] < position[u]

\* The test the packing loop comes to.
IsFirst(t) == t \in todo /\ \A u \in todo \ {t} : Before(t, u)

\* Only the first exclusive tag of a list counts.
pickExclusiveTag(list) ==
    LET at == {k \in DOMAIN list : list[k] \in Exclusive}
    IN IF at = {} THEN NoTag ELSE list[CHOOSE k \in at : \A l \in at : k <= l]

Tag(t) == pickExclusiveTag(tags[t])

\* Bins the test may go to: the one that has its tag, if there is one.
OpenBins(t) ==
    IF Tag(t) # NoTag /\ exclusiveBin[Tag(t)] # NoBin
    THEN {exclusiveBin[Tag(t)]} ELSE DOMAIN bins

\* Seeded fault: the last of the least loaded bins.
IsBestLast(t, i) ==
    /\ i \in OpenBins(t)
    /\ \A j \in OpenBins(t) : load[i] < load[j] \/ (load[i] = load[j] /\ i >= j)

\* The first of the least loaded bins.
IsBest(t, i) ==
    /\ i \in OpenBins(t)
    /\ \A j \in OpenBins(t) : load[i] < load[j] \/ (load[i] = load[j] /\ i <= j)

\* Seeded fault: a test is packed and comes up again.
PlaceAgain(t, i) ==
    /\ phase = "pack" /\ IsFirst(t) /\ IsBest(t, i)
    /\ bins' = [bins EXCEPT ![i] = Append(@, t)]
    /\ load' = [load EXCEPT ![i] = @ + duration[t]]
    /\ exclusiveBin' = IF Tag(t) = NoTag THEN exclusiveBin
                       ELSE [exclusiveBin EXCEPT ![Tag(t)] = i]
    /\ todo' = IF Len(bins[i]) = 1 THEN todo ELSE todo \ {t}
    /\ UNCHANGED <<input, duration, phase, totalMS, plan, stored>>

\* One turn of the packing loop.
Place(t, i) ==
    /\ phase = "pack" /\ IsFirst(t) /\ IsBest(t, i)
    /\ bins' = [bins EXCEPT ![i] = Append(@, t)]
    /\ load' = [load EXCEPT ![i] = @ + duration[t]]
    /\ exclusiveBin' = IF Tag(t) = NoTag THEN exclusiveBin
                       ELSE [exclusiveBin EXCEPT ![Tag(t)] = i]
    /\ todo' = todo \ {t}
    /\ UNCHANGED <<input, duration, phase, totalMS, plan, stored>>

-----------------------------------------------------------------------------
(* The plan.                                                               *)

Descending(s) == \A k, l \in DOMAIN s : k <= l => duration[s[k]] >= duration[s[l]]

\* The sort of a bin.  It is stable: what is in order it leaves alone.
SortLongestFirst(s) ==
    IF Descending(s) THEN s
    ELSE SortSeq(s, LAMBDA t, u : duration[t] > duration[u])

Longest(l) == CHOOSE d \in Range(l) : \A e \in Range(l) : e <= d

makespan == Longest(load)

\* Bins that are left once the empty ones are dropped from the tail.
Trimmed(b) ==
    CHOOSE n \in 1 .. Cardinality(DOMAIN b) :
        /\ n = 1 \/ b[n - 1] # << >>
        /\ \A i \in DOMAIN b : i >= n => b[i] = << >>

Kept == Trimmed(bins)

\* The quarantine lane keeps the order of the input: here as a relation.
QuarantineLane ==
    {p \in quarantined \X quarantined : position[p[1]] <= position[p[2]]}

\* PlanFunc returns.
Return ==
    /\ phase = "pack" /\ todo = {}
    /\ phase' = "planned"
    /\ bins' = [i \in DOMAIN bins |-> SortLongestFirst(bins[i])]
    /\ plan' = [Assignments      |-> [i \in Indexes(Kept) |-> bins'[i]],
                Durations        |-> [i \in Indexes(Kept) |-> load[i]],
                QuarantineLane   |-> QuarantineLane,
                TotalPredictedMS |-> totalMS,
                Makespan         |-> makespan]
    /\ UNCHANGED <<input, duration, todo, totalMS, load, exclusiveBin, stored>>

\* u comes no later than t when Replay collects the tests of the plan: bin
\* after bin, then the quarantine lane.
Walked(u, t) ==
    \/ /\ t \in quarantined
       /\ u \in quarantined => position[u] <= position[t]
    \/ \E i, j \in DOMAIN bins :
          \E k \in DOMAIN bins[i], l \in DOMAIN bins[j] :
             /\ bins[i][k] = u /\ bins[j][l] = t
             /\ i < j \/ (i = j /\ k <= l)

\* What "teo replay" reads: the plan in the row of the run, or its archive.
loadPlan == plan

\* Replay rebuilds the input from the stored plan and calls PlanFunc.
Replay ==
    /\ phase = "planned" /\ stored = NoPlan
    /\ stored' = loadPlan /\ plan' = NoPlan
    /\ position' = [t \in Tests |-> Cardinality({u \in Tests : Walked(u, t)})]
    /\ phase' = "floor"
    /\ todo' = Active
    /\ totalMS' = 0
    /\ bins' = << >> /\ load' = << >>
    /\ exclusiveBin' = [x \in Exclusive |-> NoBin]
    /\ UNCHANGED <<tags, quarantined, hash, c, duration>>

Next ==
    \/ \E t \in Tests : FloorTest(t)
    \/ MakeBins
    \/ \E t \in Tests, i \in DOMAIN bins : Place(t, i)
    \/ Return
    \/ Replay

Spec == Init /\ [][Next]_vars

-----------------------------------------------------------------------------
(* Correctness.                                                            *)

\* Bins are numbered from 0 and hold tests; a bin has a load.
TypeOK ==
    /\ tags \in [Tests -> TagLists] /\ quarantined \in SUBSET Tests
    /\ hash \in [Tests -> Nat] /\ c \in [target : Nat, min : Nat, max : Nat]
    /\ position \in [Tests -> Nat] /\ duration \in [Tests -> Nat]
    /\ phase \in {"floor", "pack", "planned"}
    /\ todo \in SUBSET Active
    /\ totalMS \in Nat
    /\ phase = "floor" => bins = << >> /\ load = << >>
    /\ phase # "floor" =>
          /\ bins \in [Indexes(shardCount) -> Seq(Tests)]
          /\ load \in [Indexes(shardCount) -> Nat]
    /\ exclusiveBin \in [Exclusive -> DOMAIN bins \cup {NoBin}]

Planned == phase = "planned"

Assignments == plan.Assignments

\* The plan runs every test that is not quarantined, in one shard and once,
\* and no quarantined test in any.
EveryTestPlannedOnce ==
    Planned =>
        /\ \A t \in Active : \E i \in DOMAIN Assignments :
              t \in Range(Assignments[i])
        /\ \A i, j \in DOMAIN Assignments :
              \A k \in DOMAIN Assignments[i], l \in DOMAIN Assignments[j] :
                 /\ Assignments[i][k] \in Active
                 /\ Assignments[i][k] = Assignments[j][l] => i = j /\ k = l

\* Tests that claim the same exclusive resource end up in one shard, where
\* they run one after the other (TestExclusivityConstraint: "All three must be
\* in the same shard").  A story of the backlog asks for the opposite, see
\* ExclusiveApart.
ExclusiveTogether ==
    Planned =>
        \A i, j \in DOMAIN Assignments :
            \A t \in Range(Assignments[i]), u \in Range(Assignments[j]) :
                Tag(t) = Tag(u) /\ Tag(t) # NoTag => i = j

\* No shard without tests is planned, even where exclusive tags leave bins
\* empty: only the tail is trimmed, so an empty bin must never have a filled
\* one behind it.
NoEmptyShard ==
    Planned /\ Active # {} =>
        \A i \in DOMAIN Assignments : Assignments[i] # << >>

\* Without exclusive tags every shard asked for is used: the floor makes a
\* bin that got a test heavier than an empty one.
EveryShardUsed ==
    Planned /\ Active # {} /\ (\A t \in Active : Tag(t) = NoTag) =>
        Cardinality(DOMAIN Assignments) = shardCount

\* The predicted time of a set of tests, unit by unit, and its length.
Units(S) == UNION {{t} \X (1 .. duration[t]) : t \in S}
Work(S)  == Cardinality(Units(S))

\* Makespan of the best assignment of the active tests to shardCount bins.
Optimum ==
    LET Share(f, i) == Work({t \in Active : f[t] = i})
        Span(f) == CHOOSE d \in {Share(f, i) : i \in Indexes(shardCount)} :
                       \A i \in Indexes(shardCount) : Share(f, i) <= d
        Spans == {Span(f) : f \in [Active -> Indexes(shardCount)]}
    IN CHOOSE d \in Spans : \A e \in Spans : d <= e

\* Graham's bound for LPT, which PlanFunc's comment claims: the makespan is at
\* most 4/3 - 1/(3m) times the optimum.  Exclusive tags are outside the claim.
GrahamBound ==
    Planned /\ Active # {} /\ (\A t \in Active : Tag(t) = NoTag) =>
        3 * shardCount * plan.Makespan <= (4 * shardCount - 1) * Optimum

\* `teo replay`: planning again from the stored plan gives the stored plan,
\* although the tests come in another order.
ReplayAgrees == Planned /\ stored # NoPlan => plan = stored

-----------------------------------------------------------------------------
(* The inductive invariant.                                                *)

\* What the bins hold is what the packing loop has come to.
BinsHoldDone ==
    phase # "floor" =>
        /\ \A i \in DOMAIN bins : Range(bins[i]) \subseteq Active \ todo
        /\ \A t \in Active \ todo : \E i \in DOMAIN bins : t \in Range(bins[i])

\* No test is in two places.
PlacedOnce ==
    \A i, j \in DOMAIN bins : \A k \in DOMAIN bins[i], l \in DOMAIN bins[j] :
        bins[i][k] = bins[j][l] => i = j /\ k = l

\* The floor has reached every test the loop has come to.
Floored ==
    /\ phase = "floor" => \A t \in Active \ todo : duration[t] >= Floor
    /\ phase # "floor" => \A t \in Active : duration[t] >= Floor

\* A tag leads to the bin of all tests that have it.
OwnersAgree ==
    /\ \A x \in Exclusive : exclusiveBin[x] # NoBin => bins[exclusiveBin[x]] # << >>
    /\ \A i \in DOMAIN bins : \A t \in Range(bins[i]) :
          Tag(t) # NoTag => exclusiveBin[Tag(t)] = i

\* A bin has a load exactly if it has tests, and bins fill from the first.
FilledFromTheFirst ==
    /\ \A i \in DOMAIN bins : load[i] = 0 <=> bins[i] = << >>
    /\ \A i, j \in DOMAIN bins : i < j /\ bins[j] # << >> => bins[i] # << >>

\* The longest tests went first, so bins are sorted as they are filled.
LongestWentFirst ==
    \A i \in DOMAIN bins :
        /\ Descending(bins[i])
        /\ \A t \in Range(bins[i]), u \in todo : duration[t] >= duration[u]

\* The plan is the bins without the dropped tail.
PlanIsBins ==
    Planned => plan.Assignments = [i \in Indexes(Kept) |-> bins[i]]

\* PlanFunc returns when the packing loop has ended.
PlannedIsDone == Planned => todo = {}

\* A load is the time of the tests of its bin.
LoadsAreWork ==
    /\ phase # "floor" => \A i \in DOMAIN bins : load[i] = Work(Range(bins[i]))
    /\ Planned => plan.Makespan = makespan

\* The bound of Graham holds of every bin from the first test on.
BoundSoFar ==
    phase # "floor" /\ (\A t \in Active : Tag(t) = NoTag) =>
        \A i \in DOMAIN bins : 3 * shardCount * load[i] <= (4 * shardCount - 1) * Optimum

PackInv ==
    /\ TypeOK
    /\ PlanIsBins /\ PlannedIsDone
    /\ BinsHoldDone /\ PlacedOnce
    /\ Floored
    /\ OwnersAgree
    /\ FilledFromTheFirst
    /\ LongestWentFirst

-----------------------------------------------------------------------------
(* What makes planning again come to the same plan.                        *)

\* The durations add up in every order.
SumIsWork ==
    totalMS = Work(IF phase = "floor" THEN Active \ todo ELSE Active)

\* The order of packing, when no hashes collide: the input's order is not in it.
Sooner(t, u) ==
    \/ duration[t] > duration[u]
    \/ duration[t] = duration[u] /\ hash[t] < hash[u]

HashesDiffer == \A t, u \in Active : hash[t] = hash[u] => t = u

\* Tests of a bin that were packed before the packing loop came to a test, and
\* the bins that were open to it then.
Earlier(b, i, t) == {u \in Range(b[i]) : Sooner(u, t)}

OpenTo(b, t) ==
    LET owners == {i \in DOMAIN b : \E u \in Earlier(b, i, t) : Tag(u) = Tag(t)}
    IN IF Tag(t) = NoTag \/ owners = {} THEN DOMAIN b ELSE owners

\* Every test is in the bin that was best for it when its turn came.
Greedy(b) ==
    \A i \in DOMAIN b : \A t \in Range(b[i]) :
        /\ i \in OpenTo(b, t)
        /\ \A j \in OpenTo(b, t) :
              \/ Work(Earlier(b, i, t)) < Work(Earlier(b, j, t))
              \/ Work(Earlier(b, i, t)) = Work(Earlier(b, j, t)) /\ i <= j

\* Bins are filled in the order of packing.
InOrder(b) ==
    \A i \in DOMAIN b : \A k, l \in DOMAIN b[i] : k < l => Sooner(b[i][k], b[i][l])

PackedGreedily ==
    phase # "floor" =>
        /\ \A t \in Active \ todo, u \in todo : Sooner(t, u)
        /\ \A x \in Exclusive : exclusiveBin[x] # NoBin =>
              \E t \in Range(bins[exclusiveBin[x]]) : Tag(t) = x
        /\ InOrder(bins) /\ Greedy(bins)

\* The plan that packed bins make.
PlanOf(b) ==
    LET loads == [i \in DOMAIN b |-> Work(Range(b[i]))] IN
    [Assignments      |-> [i \in Indexes(Trimmed(b)) |-> b[i]],
     Durations        |-> [i \in Indexes(Trimmed(b)) |-> loads[i]],
     QuarantineLane   |-> QuarantineLane,
     TotalPredictedMS |-> Work(Active),
     Makespan         |-> Longest(loads)]

PlanIsWhole == Planned => plan = PlanOf(bins)

\* The bins the stored plan was made of.
StoredBins ==
    [i \in Indexes(ShardsFor(Work(Active))) |->
        IF i \in DOMAIN stored.Assignments THEN stored.Assignments[i] ELSE << >>]

\* Every active test is in one place of the bins.
Partition(b) ==
    /\ \A i \in DOMAIN b : Range(b[i]) \subseteq Active
    /\ \A t \in Active : \E i \in DOMAIN b : t \in Range(b[i])
    /\ \A i, j \in DOMAIN b : \A k \in DOMAIN b[i], l \in DOMAIN b[j] :
          b[i][k] = b[j][l] => i = j /\ k = l

\* The stored plan was packed greedily from the durations that are planned
\* with again, and packing again has come to a part of it.
StoredIsPlan ==
    stored # NoPlan =>
        /\ \A t \in Active : duration[t] >= Floor
        /\ \A i \in DOMAIN StoredBins : StoredBins[i] \in Seq(Tests)
        /\ Partition(StoredBins) /\ InOrder(StoredBins) /\ Greedy(StoredBins)
        /\ stored = PlanOf(StoredBins)
        /\ phase # "floor" => \A i \in DOMAIN bins :
              \A k \in DOMAIN bins[i] :
                 k \in DOMAIN StoredBins[i] /\ bins[i][k] = StoredBins[i][k]

AgainInv ==
    /\ HashesDiffer
    /\ SumIsWork
    /\ PackedGreedily
    /\ PlanIsWhole
    /\ StoredIsPlan

-----------------------------------------------------------------------------
(* A claim of the repository that does not hold.                           *)

\* docs/backlog/stories.md, S-05-02: two tests with the same exclusive tag
\* are placed in different shards.
ExclusiveApart ==
    Planned =>
        \A i \in DOMAIN Assignments : \A k, l \in DOMAIN Assignments[i] :
            /\ Tag(Assignments[i][k]) # NoTag
            /\ Tag(Assignments[i][k]) = Tag(Assignments[i][l])
            => k = l
=============================================================================
