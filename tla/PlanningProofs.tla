--------------------------- MODULE PlanningProofs ---------------------------
(***************************************************************************)
(* The plan is a partition of the active tests, keeps exclusive tags       *)
(* together and has no empty shard; without exclusive tags its makespan is *)
(* within Graham's bound; and planning again from it comes to the same     *)
(* plan. Proved for every manifest, every set of constraints and every     *)
(* hash (the last for hashes that do not collide). None of it depends on   *)
(* the predictor: whatever the ML service answers, the history holds or    *)
(* the fallback leaves cold, PlanFunc starts with natural numbers, and the *)
(* packing invariants hold from there on.                                  *)
(***************************************************************************)
EXTENDS Planning, FiniteSetTheorems, WellFoundedInduction, TLAPS

\* A set of numbers that is not empty has a least one.
LEMMA LeastNumber ==
    ASSUME NEW S \in SUBSET Nat, S # {}
    PROVE  \E m \in S : \A n \in S : m <= n
<1>1. PICK m \in S : \A n \in S : ~ (<<n, m>> \in OpToRel(<, Nat))
  BY NatLessThanWellFounded, WFMin, Zenon
<1>2. \A n \in S : ~ (n < m)
  BY <1>1 DEF OpToRel
<1>. QED
  BY <1>2

\* pickExclusiveTag finds an exclusive tag or nothing.
LEMMA TagType ==
    ASSUME TypeOK, NEW t \in Tests
    PROVE  Tag(t) = NoTag \/ Tag(t) \in Exclusive
<1>. DEFINE list == tags[t]
            at == {k \in DOMAIN list : list[k] \in Exclusive}
<1>1. CASE at = {}
  BY <1>1 DEF Tag, pickExclusiveTag
<1>2. CASE at # {}
  <2>1. at \in SUBSET Nat
    BY TagListsAssumption DEF TypeOK
  <2>2. \E k \in at : \A l \in at : k <= l
    BY <1>2, <2>1, LeastNumber
  <2>. DEFINE m == CHOOSE k \in at : \A l \in at : k <= l
  <2>3. m \in at
    BY <2>2
  <2>4. Tag(t) = list[m]
    BY <1>2 DEF Tag, pickExclusiveTag
  <2>. QED
    BY <2>3, <2>4
<1>. QED
  BY <1>1, <1>2

\* There is at least one shard.
LEMMA ShardCountType ==
    ASSUME c \in [target : Nat, min : Nat, max : Nat], totalMS \in Nat,
           quarantined \in SUBSET Tests
    PROVE  shardCount \in Nat \ {0}
<1>1. Target \in Nat \ {0}
  BY NumbersAssumption DEF Target
<1>2. MinShards \in Nat /\ MinShards >= 1
  BY DEF MinShards
<1>3. MaxShards \in Nat /\ MaxShards >= 1
  BY <1>2, NumbersAssumption DEF MaxShards, Larger
<1>4. Desired(totalMS) \in Nat
  BY <1>1 DEF Desired
<1>5. Smaller(Larger(Desired(totalMS), MinShards), MaxShards) \in Nat \ {0}
  BY <1>2, <1>3, <1>4 DEF Smaller, Larger
<1>6. IsFiniteSet(Active)
  BY TestsAssumption, FS_Subset DEF Active
<1>7. Active # {} => Cardinality(Active) \in Nat \ {0}
  BY <1>6, FS_CardinalityType, FS_EmptySet
<1>. QED
  BY <1>5, <1>7 DEF shardCount, ShardsFor, Smaller

-----------------------------------------------------------------------------
(* Preservation, action by action.                                         *)

\* What PlanFunc starts with, whatever predicted the durations.
Started ==
    /\ tags \in [Tests -> TagLists] /\ quarantined \in Lanes /\ hash \in Hashes
    /\ c \in ConstraintSets /\ position \in Orders
    /\ duration \in [Tests -> Nat]
    /\ phase = "floor" /\ todo = Active /\ totalMS = 0
    /\ bins = << >> /\ load = << >>
    /\ exclusiveBin = [x \in Exclusive |-> NoBin]
    /\ plan = NoPlan /\ stored = NoPlan

\* An input alone has no bins.
LEMMA PackStart == Started => PackInv
<1>. SUFFICES ASSUME Started PROVE PackInv
  OBVIOUS
<1>2. DOMAIN bins = {}
  BY DEF Started
<1>3. TypeOK
  BY <1>2, ConstraintsAssumption, HashesAssumption,
     LanesAssumption, OrdersAssumption DEF Started, TypeOK, Active
<1>. QED
  BY <1>2, <1>3
     DEF Started, PackInv, PlanIsBins, PlannedIsDone, Planned, BinsHoldDone, PlacedOnce, Floored,
         OwnersAgree, FilledFromTheFirst, LongestWentFirst, Active

\* The scheduler's own input is such a start.
LEMMA PackInit == Init => PackInv
  BY PackStart, NumbersAssumption DEF Init, Started

\* Flooring comes before there are bins.
LEMMA FloorStep ==
    ASSUME PackInv, NEW t \in Tests, FloorTest(t) PROVE PackInv'
<1>. USE DEF input
<1>1. phase = "floor" /\ phase' = "floor" /\ bins = << >> /\ bins' = << >>
  BY DEF PackInv, TypeOK, FloorTest
<1>2. DOMAIN bins' = {}
  BY <1>1
<1>3. TypeOK'
  BY <1>1, NumbersAssumption DEF PackInv, TypeOK, FloorTest, Active, Larger
<1>4. Floored'
  <2>. SUFFICES ASSUME NEW u \in Active \ todo' PROVE duration'[u] >= Floor
    BY <1>1 DEF Floored, FloorTest, Active
  <2>1. CASE u = t
    BY <2>1, NumbersAssumption DEF PackInv, TypeOK, FloorTest, Larger
  <2>2. CASE u # t
    BY <1>1, <2>2 DEF PackInv, TypeOK, Floored, FloorTest
  <2>. QED
    BY <2>1, <2>2
<1>5. OwnersAgree'
  BY <1>2, <1>3, NothingAssumption DEF OwnersAgree, TypeOK
<1>. QED
  BY <1>1, <1>2, <1>3, <1>4, <1>5
     DEF PackInv, PlanIsBins, PlannedIsDone, Planned, BinsHoldDone, PlacedOnce,
         FilledFromTheFirst, LongestWentFirst

\* The bins start empty, and no tag has an owner.
LEMMA MakeBinsStep == ASSUME PackInv, MakeBins PROVE PackInv'
<1>. USE DEF input
<1>0. shardCount' = shardCount /\ shardCount \in Nat \ {0} /\ Active' = Active
  BY ShardCountType
     DEF PackInv, TypeOK, MakeBins, shardCount, ShardsFor, Desired, Target, MinShards,
         MaxShards, Active
<1>1. DOMAIN bins' = Indexes(shardCount)
  BY DEF MakeBins
<1>2. \A i \in DOMAIN bins' : bins'[i] = << >> /\ load'[i] = 0
  BY DEF MakeBins
<1>3. \A i \in DOMAIN bins' : DOMAIN bins'[i] = {} /\ Range(bins'[i]) = {}
  BY <1>2 DEF Range
<1>4. \A x \in Exclusive : exclusiveBin[x] = NoBin
  BY DEF PackInv, TypeOK, MakeBins
<1>5. TypeOK'
  <2>1. /\ bins' \in [Indexes(shardCount) -> Seq(Tests)]
        /\ load' \in [Indexes(shardCount) -> Nat]
    BY DEF MakeBins
  <2>2. exclusiveBin' \in [Exclusive -> DOMAIN bins' \cup {NoBin}]
    BY <1>4 DEF PackInv, TypeOK, MakeBins
  <2>3. phase' = "pack" /\ todo' = Active
    BY DEF MakeBins
  <2>. QED
    BY <1>0, <2>1, <2>2, <2>3 DEF PackInv, TypeOK, MakeBins
<1>6. Floored'
  BY <1>0 DEF PackInv, Floored, MakeBins
<1>7. BinsHoldDone'
  BY <1>0, <1>3 DEF BinsHoldDone, MakeBins
<1>8. OwnersAgree'
  BY <1>3, <1>4 DEF OwnersAgree, MakeBins
<1>9. PlacedOnce' /\ FilledFromTheFirst' /\ PlanIsBins' /\ PlannedIsDone'
  BY <1>2, <1>3 DEF PlacedOnce, FilledFromTheFirst, PlanIsBins, PlannedIsDone, Planned, MakeBins
<1>10. LongestWentFirst'
  BY <1>3 DEF LongestWentFirst, Descending
<1>. QED
  BY <1>5, <1>6, <1>7, <1>8, <1>9, <1>10 DEF PackInv

\* Packing a test appends it to a bin whose last test is no shorter, to the
\* bin of its tag if it has one, and to the first empty bin if there is one.
LEMMA PlaceStep ==
    ASSUME PackInv, NEW t \in Tests, NEW i \in DOMAIN bins, Place(t, i)
    PROVE  PackInv'
<1>. USE DEF input
<1>0. /\ shardCount' = shardCount /\ shardCount \in Nat \ {0} /\ Active' = Active
      /\ \A u : Tag(u)' = Tag(u)
  BY ShardCountType
     DEF PackInv, TypeOK, Place, shardCount, ShardsFor, Desired, Target, MinShards,
         MaxShards, Active, Tag
<1>1. /\ phase = "pack" /\ phase' = "pack"
      /\ t \in todo /\ t \in Active /\ todo' = todo \ {t}
      /\ duration' = duration
  BY DEF PackInv, TypeOK, Place, IsFirst
<1>2. /\ bins \in [Indexes(shardCount) -> Seq(Tests)]
      /\ load \in [Indexes(shardCount) -> Nat]
      /\ duration \in [Tests -> Nat]
      /\ i \in Indexes(shardCount)
  BY <1>1 DEF PackInv, TypeOK
<1>3. /\ bins' \in [Indexes(shardCount) -> Seq(Tests)]
      /\ bins'[i] = Append(bins[i], t)
      /\ \A j \in DOMAIN bins \ {i} : bins'[j] = bins[j]
      /\ DOMAIN bins' = DOMAIN bins
  BY <1>2 DEF Place
<1>4. /\ DOMAIN bins'[i] = 1 .. Len(bins[i]) + 1 /\ Len(bins[i]) \in Nat
      /\ DOMAIN bins[i] = 1 .. Len(bins[i])
      /\ \A k \in DOMAIN bins[i] : bins'[i][k] = bins[i][k]
      /\ bins'[i][Len(bins[i]) + 1] = t
  BY <1>2, <1>3
<1>5. Range(bins'[i]) = Range(bins[i]) \cup {t}
  BY <1>4 DEF Range
<1>6. \A j \in DOMAIN bins : t \notin Range(bins[j])
  BY <1>1 DEF PackInv, BinsHoldDone
<1>7. bins'[i] # << >>
  BY <1>4
<1>8. /\ Tag(t) = NoTag \/ Tag(t) \in Exclusive
      /\ exclusiveBin \in [Exclusive -> DOMAIN bins \cup {NoBin}]
      /\ NoBin \notin DOMAIN bins
  BY <1>2, TagType, NothingAssumption DEF PackInv, TypeOK, Indexes
<1>9. TypeOK'
  <2>1. load' \in [Indexes(shardCount) -> Nat]
    BY <1>2 DEF Place
  <2>2. exclusiveBin' \in [Exclusive -> DOMAIN bins' \cup {NoBin}]
    BY <1>3, <1>8 DEF Place
  <2>3. todo' \in SUBSET Active
    BY <1>1 DEF PackInv, TypeOK
  <2>. QED
    BY <1>0, <1>1, <1>3, <2>1, <2>2, <2>3 DEF PackInv, TypeOK, Place
<1>10. BinsHoldDone'
  <2>1. \A j \in DOMAIN bins' : Range(bins'[j]) \subseteq Active \ todo'
    <3>1. \A j \in DOMAIN bins : Range(bins[j]) \subseteq Active \ todo
      BY <1>1 DEF PackInv, BinsHoldDone
    <3>. SUFFICES ASSUME NEW j \in DOMAIN bins, NEW u \in Range(bins'[j])
                  PROVE  u \in Active /\ u \notin todo'
      BY <1>3
    <3>2. u \in Range(bins[j]) \/ u = t
      BY <1>3, <1>5
    <3>. QED
      BY <1>1, <3>1, <3>2
  <2>2. ASSUME NEW u \in Active \ todo'
        PROVE  \E j \in DOMAIN bins' : u \in Range(bins'[j])
    <3>1. CASE u = t
      BY <1>3, <1>5, <3>1
    <3>2. CASE u # t
      <4>1. PICK j \in DOMAIN bins : u \in Range(bins[j])
        BY <1>1, <3>2 DEF PackInv, BinsHoldDone
      <4>. QED
        BY <1>3, <1>5, <4>1
    <3>. QED
      BY <3>1, <3>2
  <2>. QED
    BY <1>0, <2>1, <2>2 DEF BinsHoldDone
<1>11. PlacedOnce'
  <2>1. \A j \in DOMAIN bins : \A k \in DOMAIN bins[j] : bins[j][k] # t
    BY <1>6 DEF Range
  <2>. SUFFICES ASSUME NEW j \in DOMAIN bins, NEW h \in DOMAIN bins,
                       NEW k \in DOMAIN bins'[j], NEW l \in DOMAIN bins'[h],
                       bins'[j][k] = bins'[h][l]
                PROVE  j = h /\ k = l
    BY <1>3 DEF PlacedOnce
  <2>2. /\ (k \in DOMAIN bins[j] /\ bins'[j][k] = bins[j][k])
              \/ (j = i /\ k = Len(bins[i]) + 1)
        /\ (l \in DOMAIN bins[h] /\ bins'[h][l] = bins[h][l])
              \/ (h = i /\ l = Len(bins[i]) + 1)
    BY <1>3, <1>4
  <2>. QED
    BY <1>4, <2>1, <2>2 DEF PackInv, PlacedOnce
<1>12. Floored'
  BY <1>0, <1>1 DEF PackInv, Floored
<1>13. OwnersAgree'
  <2>1. ASSUME NEW j \in DOMAIN bins, NEW u \in Range(bins[j]), Tag(u) # NoTag,
               Tag(t) = Tag(u)
        PROVE  i = j
    BY <1>8, <2>1 DEF PackInv, OwnersAgree, Place, IsBest, OpenBins
  <2>2. ASSUME NEW x \in Exclusive, exclusiveBin'[x] # NoBin
        PROVE  bins'[exclusiveBin'[x]] # << >>
    BY <1>3, <1>7, <1>8, <2>2 DEF PackInv, OwnersAgree, Place
  <2>3. ASSUME NEW j \in DOMAIN bins, NEW u \in Range(bins'[j]), Tag(u) # NoTag
        PROVE  exclusiveBin'[Tag(u)] = j
    <3>1. CASE u = t
      <4>1. j = i
        BY <1>3, <1>6, <3>1
      <4>. QED
        BY <1>8, <2>3, <3>1, <4>1 DEF Place
    <3>2. CASE u # t
      <4>1. u \in Range(bins[j])
        BY <1>3, <1>5, <3>2
      <4>2. exclusiveBin[Tag(u)] = j
        BY <2>3, <4>1 DEF PackInv, OwnersAgree
      <4>3. u \in Tests
        BY <1>1, <4>1 DEF PackInv, BinsHoldDone, Active
      <4>4. Tag(u) \in Exclusive
        BY <2>3, <4>3, TagType DEF PackInv
      <4>. QED
        BY <1>8, <2>1, <2>3, <4>1, <4>2, <4>4 DEF Place
    <3>. QED
      BY <3>1, <3>2
  <2>. QED
    BY <1>0, <1>3, <2>2, <2>3 DEF OwnersAgree
<1>14. FilledFromTheFirst'
  <2>1. load'[i] > 0 /\ \A j \in DOMAIN bins \ {i} : load'[j] = load[j]
    BY <1>1, <1>2, NumbersAssumption DEF PackInv, Floored, Place
  <2>2. \A j \in DOMAIN bins' : load'[j] = 0 <=> bins'[j] = << >>
    BY <1>3, <1>7, <2>1 DEF PackInv, FilledFromTheFirst
  <2>3. ASSUME NEW j \in DOMAIN bins, j < i PROVE bins[j] # << >>
    <3>1. CASE bins[i] # << >>
      BY <2>3, <3>1 DEF PackInv, FilledFromTheFirst
    <3>2. CASE bins[i] = << >>
      <4>1. OpenBins(t) = DOMAIN bins
        BY <1>8, <3>2 DEF PackInv, OwnersAgree, Place, IsBest, OpenBins
      <4>2. load[i] = 0 /\ load[i] \in Nat /\ load[j] \in Nat
        BY <1>2, <3>2 DEF PackInv, FilledFromTheFirst
      <4>3. load[i] < load[j]
        BY <1>2, <2>3, <4>1 DEF Place, IsBest, Indexes
      <4>. QED
        BY <4>2, <4>3 DEF PackInv, FilledFromTheFirst
    <3>. QED
      BY <3>1, <3>2
  <2>4. ASSUME NEW j \in DOMAIN bins, NEW h \in DOMAIN bins,
               j < h, bins'[h] # << >>
        PROVE  bins'[j] # << >>
    <3>1. CASE h = i
      BY <1>3, <2>3, <2>4, <3>1
    <3>2. CASE h # i
      BY <1>3, <1>7, <2>4, <3>2 DEF PackInv, FilledFromTheFirst
    <3>. QED
      BY <3>1, <3>2
  <2>. QED
    BY <1>3, <2>2, <2>4 DEF FilledFromTheFirst
<1>15. LongestWentFirst'
  <2>1. \A j \in DOMAIN bins : \A u \in Range(bins[j]) : duration[u] >= duration[t]
    BY <1>1 DEF PackInv, LongestWentFirst
  <2>2. \A u \in todo' : duration[t] >= duration[u]
    <3>1. \A u \in todo' : u \in Tests /\ Before(t, u)
      BY <1>1 DEF PackInv, TypeOK, Active, Place, IsFirst
    <3>2. ASSUME NEW u \in Tests, Before(t, u) PROVE duration[t] >= duration[u]
      BY <1>2, <3>2 DEF Before
    <3>. QED
      BY <3>1, <3>2
  <2>3. ASSUME NEW j \in DOMAIN bins
        PROVE  \A k, l \in DOMAIN bins'[j] :
                  k <= l => duration[bins'[j][k]] >= duration[bins'[j][l]]
    <3>1. CASE j # i
      BY <1>3, <3>1 DEF PackInv, LongestWentFirst, Descending
    <3>2. CASE j = i
      <4>1. \A k \in DOMAIN bins[i] : bins[i][k] \in Range(bins[i])
        BY DEF Range
      <4>2. \A k, l \in DOMAIN bins[i] :
               k <= l => duration[bins[i][k]] >= duration[bins[i][l]]
        BY DEF PackInv, LongestWentFirst, Descending
      <4>3. ASSUME NEW k \in DOMAIN bins'[i], NEW l \in DOMAIN bins'[i], k <= l
            PROVE  duration[bins'[i][k]] >= duration[bins'[i][l]]
        <5>1. CASE l = Len(bins[i]) + 1
          BY <1>2, <1>4, <2>1, <4>1, <4>3, <5>1
        <5>2. CASE l # Len(bins[i]) + 1
          BY <1>4, <4>2, <4>3, <5>2
        <5>. QED
          BY <5>1, <5>2
      <4>. QED
        BY <3>2, <4>3
    <3>. QED
      BY <3>1, <3>2
  <2>4. ASSUME NEW j \in DOMAIN bins, NEW v \in Range(bins'[j]), NEW u \in todo'
        PROVE  duration[v] >= duration[u]
    BY <1>1, <1>3, <1>5, <2>2 DEF PackInv, LongestWentFirst
  <2>. QED
    BY <1>1, <1>3, <2>3, <2>4 DEF LongestWentFirst, Descending
<1>16. PlanIsBins' /\ PlannedIsDone'
  BY <1>1 DEF PlanIsBins, PlannedIsDone, Planned
<1>. QED
  BY <1>9, <1>10, <1>11, <1>12, <1>13, <1>14, <1>15, <1>16 DEF PackInv

\* Trimming the tail stops at the last bin that has tests, or at the first.
LEMMA KeptType ==
    ASSUME PackInv, phase # "floor"
    PROVE  /\ Kept \in 1 .. shardCount
           /\ Kept = 1 \/ bins[Kept - 1] # << >>
           /\ \A i \in DOMAIN bins : i >= Kept => bins[i] = << >>
<1>. DEFINE N == shardCount
            Empty(n) == \A i \in DOMAIN bins : i >= n => bins[i] = << >>
            S == {n \in 1 .. N : Empty(n)}
            Fits(n) == (n = 1 \/ bins[n - 1] # << >>) /\ Empty(n)
<1>1. N \in Nat \ {0}
  BY ShardCountType DEF PackInv, TypeOK
<1>2. DOMAIN bins = 0 .. N - 1
  BY DEF PackInv, TypeOK, Indexes
<1>3. Cardinality(DOMAIN bins) = N
  <2>1. Cardinality(0 .. N - 1) = IF 0 > N - 1 THEN 0 ELSE N - 1 - 0 + 1
    BY <1>1, FS_Interval
  <2>. QED
    BY <1>1, <1>2, <2>1
<1>4. N \in S
  BY <1>1, <1>2
<1>5. PICK m \in S : \A n \in S : m <= n
  <2>1. S \in SUBSET Nat /\ S # {}
    BY <1>1, <1>4
  <2>. QED
    BY <2>1, LeastNumber
<1>6. Fits(m)
  <2>1. CASE m = 1
    BY <1>5, <2>1
  <2>2. CASE m # 1
    <3>1. m - 1 \in 1 .. N /\ m - 1 \notin S /\ m \in Nat
      BY <1>1, <1>5, <2>2
    <3>2. PICK i \in DOMAIN bins : i >= m - 1 /\ bins[i] # << >>
      BY <3>1
    <3>3. i < m
      BY <1>2, <1>5, <3>1, <3>2
    <3>4. i = m - 1
      BY <1>1, <1>2, <3>1, <3>2, <3>3
    <3>. QED
      BY <1>5, <3>2, <3>4
  <2>. QED
    BY <2>1, <2>2
<1>7. Kept = CHOOSE n \in 1 .. N : Fits(n)
  BY <1>3 DEF Kept, Trimmed
<1>8. Kept \in 1 .. N /\ Fits(Kept)
  BY <1>5, <1>6, <1>7
<1>. QED
  BY <1>8

\* The sorts change nothing.
LEMMA ReturnKeepsBins == ASSUME PackInv, Return PROVE bins' = bins
<1>1. \A i \in DOMAIN bins : SortLongestFirst(bins[i]) = bins[i]
  BY DEF PackInv, LongestWentFirst, SortLongestFirst
<1>2. bins' = [i \in DOMAIN bins |-> bins[i]]
  BY <1>1 DEF Return
<1>3. bins \in [Indexes(shardCount) -> Seq(Tests)]
  BY DEF PackInv, TypeOK, Return
<1>. QED
  BY <1>2, <1>3

\* The plan is the bins.
LEMMA ReturnStep == ASSUME PackInv, Return PROVE PackInv'
<1>. USE DEF input
<1>1. bins' = bins
  BY ReturnKeepsBins
<1>2. /\ UNCHANGED <<tags, quarantined, hash, c, position, duration, todo,
                     totalMS, load, exclusiveBin>>
      /\ phase = "pack" /\ phase' = "planned"
  BY DEF Return
<1>3. Kept' = Kept /\ Active' = Active /\ shardCount' = shardCount
      /\ \A t : Tag(t)' = Tag(t)
  BY <1>1, <1>2 DEF Kept, Trimmed, Active, shardCount, ShardsFor, Desired, Target, MinShards,
                    MaxShards, Tag
<1>4. PlanIsBins' /\ PlannedIsDone'
  <2>1. plan'.Assignments = [i \in Indexes(Kept) |-> bins'[i]]
    BY DEF Return
  <2>. QED
    BY <1>3, <2>1 DEF PlanIsBins, PlannedIsDone, Return
<1>5. TypeOK'
  BY <1>1, <1>2, <1>3 DEF PackInv, TypeOK
<1>6. BinsHoldDone' /\ PlacedOnce' /\ Floored' /\ FilledFromTheFirst'
  BY <1>1, <1>2, <1>3
     DEF PackInv, BinsHoldDone, PlacedOnce, Floored, FilledFromTheFirst
<1>7. OwnersAgree'
  BY <1>1, <1>2, <1>3 DEF PackInv, OwnersAgree
<1>8. LongestWentFirst'
  BY <1>1, <1>2 DEF PackInv, LongestWentFirst, Descending
<1>. QED
  BY <1>4, <1>5, <1>6, <1>7, <1>8 DEF PackInv

\* Replay starts from an input again.
LEMMA ReplayStep == ASSUME PackInv, Replay PROVE PackInv'
<1>1. /\ phase' = "floor" /\ bins' = << >> /\ load' = << >> /\ todo' = Active
      /\ totalMS' = 0 /\ exclusiveBin' = [x \in Exclusive |-> NoBin]
      /\ UNCHANGED <<tags, quarantined, hash, c, duration>>
  BY DEF Replay
<1>2. DOMAIN bins' = {} /\ Active' = Active
  BY <1>1 DEF Active
<1>3. position' \in [Tests -> Nat]
  <2>1. ASSUME NEW t \in Tests
        PROVE  Cardinality({u \in Tests : Walked(u, t)}) \in Nat
    <3>1. IsFiniteSet({u \in Tests : Walked(u, t)})
      BY TestsAssumption, FS_Subset
    <3>. QED
      BY <3>1, FS_CardinalityType
  <2>. QED
    BY <2>1 DEF Replay
<1>4. TypeOK'
  BY <1>1, <1>2, <1>3 DEF PackInv, TypeOK
<1>. QED
  BY <1>1, <1>2, <1>4
     DEF PackInv, PlanIsBins, PlannedIsDone, Planned, BinsHoldDone, PlacedOnce, Floored,
         OwnersAgree, FilledFromTheFirst, LongestWentFirst

-----------------------------------------------------------------------------
(* The theorems.                                                           *)

\* One step per action; a stuttering step leaves what the invariant reads.
LEMMA PackStep == PackInv /\ [Next]_vars => PackInv'
<1>. SUFFICES ASSUME PackInv, [Next]_vars PROVE PackInv'
  OBVIOUS
<1>1. CASE UNCHANGED vars
  <2>1. UNCHANGED <<tags, quarantined, hash, c, position, duration, phase,
                    todo, totalMS, bins, load, exclusiveBin, plan>>
    BY <1>1 DEF vars, input
  <2>2. Kept' = Kept /\ Active' = Active /\ shardCount' = shardCount
        /\ \A t : Tag(t)' = Tag(t)
    BY <2>1 DEF Kept, Trimmed, Active, shardCount, ShardsFor, Desired, Target, MinShards,
                MaxShards, Tag
  <2>3. TypeOK' /\ PlanIsBins' /\ PlannedIsDone'
    BY <2>1, <2>2 DEF PackInv, TypeOK, PlanIsBins, PlannedIsDone, Planned
  <2>4. BinsHoldDone' /\ PlacedOnce' /\ Floored' /\ FilledFromTheFirst'
    BY <2>1, <2>2
       DEF PackInv, BinsHoldDone, PlacedOnce, Floored, FilledFromTheFirst
  <2>5. OwnersAgree'
    BY <2>1, <2>2 DEF PackInv, OwnersAgree
  <2>6. LongestWentFirst'
    BY <2>1 DEF PackInv, LongestWentFirst, Descending
  <2>. QED
    BY <2>3, <2>4, <2>5, <2>6 DEF PackInv
<1>. QED
  BY <1>1, FloorStep, MakeBinsStep, PlaceStep, ReturnStep, ReplayStep DEF Next

\* Every step of PlanFunc and of Replay keeps the packing invariant.
THEOREM PackInvariant == Spec => []PackInv
  BY PackStep, PackInit, PTL DEF Spec

\* Every variable of the scheduler keeps its type, whatever the constraints.
THEOREM PlanTypeCorrect == Spec => []TypeOK
<1>1. PackInv => TypeOK
  BY DEF PackInv
<1>. QED
  BY <1>1, PackInvariant, PTL

\* The assignments, once there are some, are the bins up to the last used.
LEMMA AssignmentsAreBins ==
    ASSUME PackInv, Planned
    PROVE  /\ DOMAIN Assignments = Indexes(Kept)
           /\ Indexes(Kept) \subseteq DOMAIN bins
           /\ \A i \in DOMAIN Assignments : Assignments[i] = bins[i]
<1>1. phase # "floor"
  BY DEF Planned
<1>2. Kept \in 1 .. shardCount /\ shardCount \in Nat
  BY <1>1, KeptType, ShardCountType DEF PackInv, TypeOK
<1>3. DOMAIN bins = Indexes(shardCount)
  BY <1>1 DEF PackInv, TypeOK
<1>. QED
  BY <1>2, <1>3 DEF PackInv, PlanIsBins, Assignments, Indexes

\* The bins of a finished packing partition the active tests.
LEMMA PackIsPartition == PackInv => EveryTestPlannedOnce
<1>. SUFFICES ASSUME PackInv, Planned
              PROVE  /\ \A t \in Active : \E i \in DOMAIN Assignments :
                           t \in Range(Assignments[i])
                     /\ \A i, j \in DOMAIN Assignments :
                           \A k \in DOMAIN Assignments[i],
                              l \in DOMAIN Assignments[j] :
                              /\ Assignments[i][k] \in Active
                              /\ Assignments[i][k] = Assignments[j][l]
                                     => i = j /\ k = l
  BY DEF EveryTestPlannedOnce
<1>0. phase # "floor" /\ todo = {}
  BY DEF PackInv, PlannedIsDone, Planned
<1>1. ASSUME NEW t \in Active
      PROVE  \E i \in DOMAIN Assignments : t \in Range(Assignments[i])
  <2>1. PICK i \in DOMAIN bins : t \in Range(bins[i])
    BY <1>0 DEF PackInv, BinsHoldDone
  <2>2. bins[i] # << >>
    BY <2>1 DEF Range
  <2>3. shardCount \in Nat /\ i \in Indexes(shardCount)
    BY <1>0, <2>1, ShardCountType DEF PackInv, TypeOK
  <2>4. Kept \in 1 .. shardCount /\ ~ (i >= Kept)
    BY <1>0, <2>1, <2>2, KeptType
  <2>5. i \in Indexes(Kept)
    BY <2>3, <2>4 DEF Indexes
  <2>. QED
    BY <2>1, <2>5, AssignmentsAreBins
<1>2. ASSUME NEW i \in DOMAIN bins, NEW k \in DOMAIN bins[i]
      PROVE  bins[i][k] \in Active
  BY <1>0 DEF PackInv, BinsHoldDone, Range
<1>. QED
  BY <1>1, <1>2, AssignmentsAreBins DEF PackInv, PlacedOnce

\* A plan runs every active test in one shard, once, and no quarantined one.
THEOREM PlanIsPartition == Spec => []EveryTestPlannedOnce
  BY PackIsPartition, PackInvariant, PTL

\* A tag has one owner among the bins, and the bins are the assignments.
LEMMA PackKeepsTogether == PackInv => ExclusiveTogether
  BY AssignmentsAreBins DEF ExclusiveTogether, PackInv, OwnersAgree

\* Tests that claim one exclusive resource share a shard.
THEOREM ExclusiveTestsShareShard == Spec => []ExclusiveTogether
  BY PackKeepsTogether, PackInvariant, PTL

\* Bins fill from the first, so trimming the tail leaves none empty.
LEMMA PackLeavesNoneEmpty == PackInv => NoEmptyShard
<1>. SUFFICES ASSUME PackInv, Planned, Active # {}, NEW i \in DOMAIN Assignments
              PROVE  Assignments[i] # << >>
  BY DEF NoEmptyShard
<1>0. phase # "floor" /\ todo = {}
  BY DEF PackInv, PlannedIsDone, Planned
<1>1. Kept \in Nat /\ i \in 0 .. Kept - 1 /\ i \in DOMAIN bins
      /\ Assignments[i] = bins[i]
  <2>1. shardCount \in Nat
    BY ShardCountType DEF PackInv, TypeOK
  <2>2. Kept \in 1 .. shardCount
    BY <1>0, KeptType
  <2>. QED
    BY <2>1, <2>2, AssignmentsAreBins DEF Indexes
<1>2. PICK j \in DOMAIN bins : bins[j] # << >>
  <2>1. PICK t : t \in Active
    OBVIOUS
  <2>2. PICK j \in DOMAIN bins : t \in Range(bins[j])
    BY <1>0, <2>1 DEF PackInv, BinsHoldDone
  <2>. QED
    BY <2>2 DEF Range
<1>3. DOMAIN bins \subseteq Nat /\ Kept - 1 \in DOMAIN bins
  BY <1>0, KeptType, ShardCountType DEF Indexes, PackInv, TypeOK
<1>4. bins[Kept - 1] # << >>
  <2>1. CASE Kept # 1
    BY <1>0, <2>1, KeptType
  <2>2. CASE Kept = 1
    <3>1. j < Kept
      BY <1>0, <1>1, <1>2, <1>3, KeptType
    <3>. QED
      BY <1>2, <1>3, <2>2, <3>1
  <2>. QED
    BY <2>1, <2>2
<1>. QED
  BY <1>1, <1>3, <1>4 DEF PackInv, FilledFromTheFirst

\* Of a manifest with active tests no shard is planned without tests.
THEOREM NoShardIsEmpty == Spec => []NoEmptyShard
  BY PackLeavesNoneEmpty, PackInvariant, PTL

-----------------------------------------------------------------------------
(* Counting.                                                               *)

\* A bounded set of numbers that is not empty has a greatest one.
LEMMA GreatestNumber ==
    ASSUME NEW S \in SUBSET Nat, S # {}, NEW b \in Nat, \A n \in S : n <= b
    PROVE  \E m \in S : \A n \in S : n <= m
<1>. DEFINE R == {k \in Nat : \E n \in S : k = b - n}
<1>1. PICK s : s \in S
  OBVIOUS
<1>2. b - s \in R
  BY <1>1
<1>3. PICK k \in R : \A l \in R : k <= l
  <2>1. R \in SUBSET Nat /\ R # {}
    BY <1>2
  <2>. QED
    BY <2>1, LeastNumber
<1>4. PICK m \in S : k = b - m
  BY <1>3
<1>5. ASSUME NEW n \in S PROVE n <= m
  <2>1. b - n \in R
    OBVIOUS
  <2>. QED
    BY <1>3, <1>4, <2>1
<1>. QED
  BY <1>5

\* So has a finite one.
LEMMA FiniteHasGreatest ==
    ASSUME NEW S \in SUBSET Nat, S # {}, IsFiniteSet(S)
    PROVE  \E m \in S : \A n \in S : n <= m
<1>. DEFINE Below(m) == {n \in S : n < m}
            At == {k \in Nat : \E m \in S : k = Cardinality(Below(m))}
<1>1. ASSUME NEW m \in S
      PROVE  /\ IsFiniteSet(Below(m)) /\ Cardinality(Below(m)) \in Nat
             /\ Cardinality(Below(m)) <= Cardinality(S)
  BY FS_Subset, FS_CardinalityType
<1>2. Cardinality(S) \in Nat
  BY FS_CardinalityType
<1>3. PICK k \in At : \A j \in At : j <= k
  <2>1. At \in SUBSET Nat /\ At # {} /\ \A j \in At : j <= Cardinality(S)
    <3>. HIDE DEF Below
    <3>. QED
      BY <1>1
  <2>. HIDE DEF At
  <2>. QED
    BY <1>2, <2>1, GreatestNumber
<1>4. PICK m \in S : k = Cardinality(Below(m))
  BY <1>3
<1>5. ASSUME NEW n \in S, n > m PROVE FALSE
  <2>1. Cardinality(Below(m) \cup {m}) = Cardinality(Below(m)) + 1
    <3>1. m \notin Below(m)
      OBVIOUS
    <3>. HIDE DEF Below
    <3>. QED
      BY <1>1, <3>1, FS_AddElement
  <2>2. \A x \in Below(m) \cup {m} : x \in Below(n)
    <3>1. \A x \in Nat : x < m => x < n
      BY <1>5
    <3>. QED
      BY <1>5, <3>1
  <2>3. Cardinality(Below(n)) \in At
    <3>. HIDE DEF Below
    <3>. QED
      BY <1>1
  <2>4. Cardinality(Below(m) \cup {m}) <= Cardinality(Below(n))
    <3>. HIDE DEF Below
    <3>. QED
      BY <1>1, <2>2, FS_Subset
  <2>. HIDE DEF Below
  <2>. QED
    BY <1>1, <1>3, <1>4, <2>1, <2>3, <2>4
<1>6. \A n \in S : n <= m
  BY <1>5
<1>. QED
  BY <1>6

\* A set that is not smaller than a number has an injection of the number.
LEMMA Numbered ==
    ASSUME NEW S, IsFiniteSet(S), NEW n \in Nat
    PROVE  /\ Cardinality(S) >= n => \E g : g \in Injection(1 .. n, S)
           /\ Cardinality(S) <= n => \E g : g \in Injection(S, 1 .. n)
<1>. DEFINE k == Cardinality(S)
<1>1. k \in Nat /\ ExistsBijection(1 .. k, S)
  BY FS_CardinalityType
<1>. HIDE DEF k
<1>2. PICK h : h \in Bijection(1 .. k, S)
  BY <1>1 DEF ExistsBijection
<1>3. /\ h \in [1 .. k -> S] /\ \A x \in S : \E a \in 1 .. k : h[a] = x
      /\ \A a, b \in 1 .. k : h[a] = h[b] => a = b
  BY <1>2 DEF Bijection, Injection, Surjection, IsInjective
<1>4. ASSUME k >= n PROVE \E g : g \in Injection(1 .. n, S)
  <2>. DEFINE g == [a \in 1 .. n |-> h[a]]
  <2>1. 1 .. n \subseteq 1 .. k
    BY <1>1, <1>4
  <2>2. g \in Injection(1 .. n, S)
    BY <1>3, <2>1 DEF Injection, IsInjective
  <2>. QED
    BY <2>2
<1>5. ASSUME k <= n PROVE \E g : g \in Injection(S, 1 .. n)
  <2>. DEFINE g == [x \in S |-> CHOOSE a \in 1 .. k : h[a] = x]
  <2>1. 1 .. k \subseteq 1 .. n
    BY <1>1, <1>5
  <2>2. \A x \in S : g[x] \in 1 .. k /\ h[g[x]] = x
    BY <1>3
  <2>3. g \in [S -> 1 .. n]
    BY <2>1, <2>2
  <2>4. \A x, y \in S : g[x] = g[y] => x = y
    BY <2>2
  <2>5. g \in Injection(S, 1 .. n)
    BY <2>3, <2>4 DEF Injection, IsInjective
  <2>. QED
    BY <2>5
<1>. QED
  BY <1>4, <1>5 DEF k

\* The cardinality of pairs of a set and a range of numbers.
LEMMA PairsCount ==
    ASSUME NEW I, IsFiniteSet(I), NEW n \in Nat
    PROVE  IsFiniteSet(I \X (1 .. n)) /\ Cardinality(I \X (1 .. n)) = Cardinality(I) * n
<1>. DEFINE N == 1 .. n
<1>1. IsFiniteSet(N) /\ Cardinality(N) = n
  BY FS_Interval
<1>. HIDE DEF N
<1>2. IsFiniteSet(I \X N) /\ Cardinality(I \X N) = Cardinality(I) * Cardinality(N)
  BY <1>1, FS_Product, Zenon
<1>. QED
  BY <1>1, <1>2 DEF N

\* Where every share of a set has at least n elements, the set has n for each.
LEMMA SharesAtLeast ==
    ASSUME NEW S, IsFiniteSet(S), NEW I, IsFiniteSet(I), NEW f \in [S -> I],
           NEW n \in Nat, \A i \in I : Cardinality({x \in S : f[x] = i}) >= n
    PROVE  Cardinality(I) * n <= Cardinality(S)
<1>. DEFINE Share(i) == {x \in S : f[x] = i}
            g == [i \in I |-> CHOOSE h : h \in Injection(1 .. n, Share(i))]
            F == [p \in I \X (1 .. n) |-> g[p[1]][p[2]]]
<1>1. ASSUME NEW i \in I PROVE g[i] \in Injection(1 .. n, Share(i))
  <2>1. IsFiniteSet(Share(i))
    BY FS_Subset
  <2>2. \E h : h \in Injection(1 .. n, Share(i))
    <3>1. Cardinality(Share(i)) >= n
      OBVIOUS
    <3>. HIDE DEF Share
    <3>. QED
      BY <2>1, <3>1, Numbered
  <2>. HIDE DEF Share
  <2>. QED
    BY <2>2
<1>2. /\ \A i \in I : \A a \in 1 .. n : g[i][a] \in S /\ f[g[i][a]] = i
      /\ \A i \in I : \A a, b \in 1 .. n : g[i][a] = g[i][b] => a = b
  <2>. HIDE DEF g
  <2>. QED
    BY <1>1 DEF Injection, IsInjective
<1>3. F \in Injection(I \X (1 .. n), S)
  <2>. HIDE DEF g
  <2>1. \A p \in I \X (1 .. n) : p[1] \in I /\ p[2] \in 1 .. n /\ p = <<p[1], p[2]>>
    OBVIOUS
  <2>2. F \in [I \X (1 .. n) -> S]
    BY <1>2, <2>1
  <2>3. ASSUME NEW p \in I \X (1 .. n), NEW q \in I \X (1 .. n), F[p] = F[q]
        PROVE  p = q
    <3>1. g[p[1]][p[2]] = g[q[1]][q[2]]
      BY <2>3
    <3>2. p[1] = q[1]
      BY <1>2, <2>1, <3>1
    <3>3. p[2] = q[2]
      BY <1>2, <2>1, <3>1, <3>2
    <3>. QED
      BY <2>1, <3>2, <3>3
  <2>. HIDE DEF F
  <2>. QED
    BY <2>2, <2>3 DEF Injection, IsInjective
<1>4. Cardinality(I \X (1 .. n)) <= Cardinality(S)
  <2>. HIDE DEF F
  <2>. DEFINE P == I \X (1 .. n)
  <2>1. F \in Injection(P, S)
    BY <1>3
  <2>. HIDE DEF P
  <2>2. Cardinality(P) <= Cardinality(S)
    BY <2>1, FS_Injection
  <2>. QED
    BY <2>2 DEF P
<1>. QED
  BY <1>4, PairsCount

\* Where no share of a set has more than n elements, the set has at most n
\* for each.
LEMMA SharesAtMost ==
    ASSUME NEW S, IsFiniteSet(S), NEW I, IsFiniteSet(I), NEW f \in [S -> I],
           NEW n \in Nat, \A i \in I : Cardinality({x \in S : f[x] = i}) <= n
    PROVE  Cardinality(S) <= Cardinality(I) * n
<1>. DEFINE Share(i) == {x \in S : f[x] = i}
            g == [i \in I |-> CHOOSE h : h \in Injection(Share(i), 1 .. n)]
            F == [x \in S |-> <<f[x], g[f[x]][x]>>]
            P == I \X (1 .. n)
<1>1. ASSUME NEW i \in I PROVE g[i] \in Injection(Share(i), 1 .. n)
  <2>1. IsFiniteSet(Share(i))
    BY FS_Subset
  <2>2. \E h : h \in Injection(Share(i), 1 .. n)
    <3>1. Cardinality(Share(i)) <= n
      OBVIOUS
    <3>. HIDE DEF Share
    <3>. QED
      BY <2>1, <3>1, Numbered
  <2>. HIDE DEF Share
  <2>. QED
    BY <2>2
<1>2. /\ \A i \in I : \A x \in Share(i) : g[i][x] \in 1 .. n
      /\ \A i \in I : \A x, y \in Share(i) : g[i][x] = g[i][y] => x = y
  <2>. HIDE DEF g, Share
  <2>. QED
    BY <1>1 DEF Injection, IsInjective
<1>3. F \in Injection(S, P)
  <2>1. \A x \in S : f[x] \in I /\ x \in Share(f[x])
    OBVIOUS
  <2>2. F \in [S -> P]
    <3>. HIDE DEF g, Share
    <3>. QED
      BY <1>2, <2>1
  <2>3. ASSUME NEW x \in S, NEW y \in S, F[x] = F[y] PROVE x = y
    <3>1. f[x] = f[y] /\ g[f[x]][x] = g[f[y]][y]
      <4>. HIDE DEF g
      <4>. QED
        BY <2>3
    <3>. HIDE DEF g, Share
    <3>. QED
      BY <1>2, <2>1, <3>1
  <2>. HIDE DEF F, P
  <2>. QED
    BY <2>2, <2>3 DEF Injection, IsInjective
<1>4. IsFiniteSet(P) /\ Cardinality(P) = Cardinality(I) * n
  BY PairsCount
<1>. HIDE DEF F, P
<1>5. Cardinality(S) <= Cardinality(P)
  BY <1>3, <1>4, FS_Injection
<1>. QED
  BY <1>4, <1>5

\* Among more than two for each share, three are in one.
LEMMA ThreeInAShare ==
    ASSUME NEW S, IsFiniteSet(S), NEW I, IsFiniteSet(I), NEW f \in [S -> I],
           Cardinality(S) > Cardinality(I) * 2
    PROVE  \E x, y, z \in S : x # y /\ x # z /\ y # z /\ f[x] = f[y] /\ f[x] = f[z]
<1>. DEFINE Share(i) == {x \in S : f[x] = i}
<1>1. PICK i \in I : ~ (Cardinality(Share(i)) <= 2)
  <2>1. Cardinality(S) \in Nat /\ Cardinality(I) \in Nat
    BY FS_CardinalityType
  <2>2. CASE \A i \in I : Cardinality(Share(i)) <= 2
    <3>1. Cardinality(S) <= Cardinality(I) * 2
      BY <2>2, SharesAtMost
    <3>. QED
      BY <2>1, <3>1
  <2>. QED
    BY <2>2
<1>2. IsFiniteSet(Share(i))
  BY FS_Subset
<1>3. PICK h : h \in Injection(1 .. 3, Share(i))
  <2>. HIDE DEF Share
  <2>1. Cardinality(Share(i)) \in Nat
    BY <1>2, FS_CardinalityType
  <2>2. Cardinality(Share(i)) >= 3
    BY <1>1, <2>1
  <2>. QED
    BY <1>2, <2>2, Numbered
<1>4. /\ h[1] \in Share(i) /\ h[2] \in Share(i) /\ h[3] \in Share(i)
      /\ h[1] # h[2] /\ h[1] # h[3] /\ h[2] # h[3]
  <2>. HIDE DEF Share
  <2>. QED
    BY <1>3 DEF Injection, IsInjective
<1>. QED
  BY <1>4

-----------------------------------------------------------------------------
(* Work: durations, added up unit by unit.                                 *)

\* The units of a set of tests.
LEMMA UnitsMember ==
    ASSUME NEW S
    PROVE  /\ \A p \in Units(S) : p[1] \in S /\ p[2] \in 1 .. duration[p[1]] /\ p = <<p[1], p[2]>>
           /\ \A t \in S : \A k \in 1 .. duration[t] : <<t, k>> \in Units(S)
<1>1. ASSUME NEW p \in Units(S)
      PROVE  p[1] \in S /\ p[2] \in 1 .. duration[p[1]] /\ p = <<p[1], p[2]>>
  <2>1. PICK t \in S : p \in {t} \X (1 .. duration[t])
    BY <1>1 DEF Units
  <2>. QED
    BY <2>1
<1>2. ASSUME NEW t \in S, NEW k \in 1 .. duration[t] PROVE <<t, k>> \in Units(S)
  BY DEF Units
<1>. QED
  BY <1>1, <1>2

\* There are finitely many.
LEMMA UnitsFinite ==
    ASSUME duration \in [Tests -> Nat], NEW S \in SUBSET Tests
    PROVE  IsFiniteSet(Units(S)) /\ Work(S) \in Nat
<1>. DEFINE Of(t) == {t} \X (1 .. duration[t])
            All == {Of(t) : t \in S}
            f == [t \in S |-> Of(t)]
<1>1. IsFiniteSet(S)
  BY TestsAssumption, FS_Subset
<1>2. ASSUME NEW t \in S PROVE IsFiniteSet(Of(t))
  <2>1. IsFiniteSet({t}) /\ duration[t] \in Nat
    BY FS_Singleton
  <2>. QED
    BY <2>1, PairsCount
<1>3. IsFiniteSet(All)
  <2>1. f \in Surjection(S, All)
    <3>. HIDE DEF Of
    <3>. QED
      BY DEF Surjection
  <2>. HIDE DEF f, All
  <2>. QED
    BY <1>1, <2>1, FS_Surjection
<1>4. \A T \in All : IsFiniteSet(T)
  <2>. HIDE DEF Of
  <2>. QED
    BY <1>2
<1>5. IsFiniteSet(UNION All)
  <2>. HIDE DEF All
  <2>. QED
    BY <1>3, <1>4, FS_UNION, Zenon
<1>6. IsFiniteSet(Units(S))
  BY <1>5 DEF Units
<1>. QED
  BY <1>6, FS_CardinalityType DEF Work

\* One test more is its duration more.
LEMMA WorkAdd ==
    ASSUME duration \in [Tests -> Nat], NEW S \in SUBSET Tests, NEW t \in Tests, t \notin S
    PROVE  Work(S \cup {t}) = Work(S) + duration[t]
<1>. DEFINE T == {t} \X (1 .. duration[t])
<1>1. IsFiniteSet(T) /\ Cardinality(T) = duration[t] /\ duration[t] \in Nat
  <2>1. IsFiniteSet({t}) /\ Cardinality({t}) = 1 /\ duration[t] \in Nat
    BY FS_Singleton
  <2>2. IsFiniteSet(T) /\ Cardinality(T) = Cardinality({t}) * duration[t]
    BY <2>1, PairsCount
  <2>. QED
    BY <2>1, <2>2
<1>2. Units(S \cup {t}) = Units(S) \cup T
  BY DEF Units
<1>3. Units(S) \cap T = {}
  BY UnitsMember
<1>4. IsFiniteSet(Units(S)) /\ Cardinality(Units(S)) \in Nat
  BY UnitsFinite DEF Work
<1>. HIDE DEF T
<1>5. Cardinality(Units(S) \cup T) = Cardinality(Units(S)) + Cardinality(T) - 0
  BY <1>1, <1>3, <1>4, FS_Union, FS_EmptySet
<1>6. Cardinality(Units(S) \cup T) = Cardinality(Units(S)) + duration[t]
  BY <1>1, <1>4, <1>5
<1>. QED
  BY <1>2, <1>6, Zenon DEF Work

\* More tests are no less work.
LEMMA WorkSubset ==
    ASSUME duration \in [Tests -> Nat], NEW S \in SUBSET Tests, NEW R \in SUBSET S
    PROVE  Work(R) <= Work(S)
<1>1. Units(R) \subseteq Units(S)
  BY DEF Units
<1>2. IsFiniteSet(Units(S))
  BY UnitsFinite
<1>. QED
  BY <1>1, <1>2, FS_Subset DEF Work

\* No test, no work; a test is its duration.
LEMMA WorkOfFew ==
    ASSUME duration \in [Tests -> Nat]
    PROVE  /\ Work({}) = 0
           /\ \A t \in Tests : Work({t}) = duration[t]
           /\ \A t, u \in Tests : t # u => Work({t, u}) = duration[t] + duration[u]
           /\ \A t, u, v \in Tests : t # u /\ t # v /\ u # v =>
                 Work({t, u, v}) = duration[t] + duration[u] + duration[v]
<1>1. Work({}) = 0
  BY FS_EmptySet DEF Work, Units
<1>2. ASSUME NEW t \in Tests PROVE Work({t}) = duration[t]
  <2>1. Work({} \cup {t}) = Work({}) + duration[t]
    BY WorkAdd
  <2>. QED
    BY <1>1, <2>1
<1>3. ASSUME NEW t \in Tests, NEW u \in Tests, t # u
      PROVE  Work({t, u}) = duration[t] + duration[u]
  <2>1. Work({t} \cup {u}) = Work({t}) + duration[u]
    BY <1>3, WorkAdd
  <2>2. {t} \cup {u} = {t, u}
    OBVIOUS
  <2>. QED
    BY <1>2, <2>1, <2>2
<1>4. ASSUME NEW t \in Tests, NEW u \in Tests, NEW v \in Tests, t # u, t # v, u # v
      PROVE  Work({t, u, v}) = duration[t] + duration[u] + duration[v]
  <2>1. Work({t, u} \cup {v}) = Work({t, u}) + duration[v]
    BY <1>4, WorkAdd
  <2>2. {t, u} \cup {v} = {t, u, v}
    OBVIOUS
  <2>. QED
    BY <1>3, <1>4, <2>1, <2>2
<1>. QED
  BY <1>1, <1>2, <1>3, <1>4

\* The best assignment keeps every bin within the optimum.
LEMMA OptimumWitness ==
    ASSUME TypeOK
    PROVE  /\ Optimum \in Nat
           /\ \E f \in [Active -> Indexes(shardCount)] :
                 \A i \in Indexes(shardCount) : Work({t \in Active : f[t] = i}) <= Optimum
<1>. DEFINE I == Indexes(shardCount)
            Share(f, i) == Work({t \in Active : f[t] = i})
            Shares(f) == {Share(f, i) : i \in I}
            Span(f) == CHOOSE d \in Shares(f) : \A i \in I : Share(f, i) <= d
            Spans == {Span(f) : f \in [Active -> I]}
<1>1. 0 \in I
  BY ShardCountType DEF TypeOK, Indexes
<1>2. /\ duration \in [Tests -> Nat] /\ Active \in SUBSET Tests
  BY DEF TypeOK, Active
<1>3. ASSUME NEW f \in [Active -> I]
      PROVE  Span(f) \in Nat /\ \A i \in I : Share(f, i) <= Span(f)
  <2>1. \A i \in I : Share(f, i) \in Nat /\ Share(f, i) <= Work(Active)
    <3>. TAKE i \in I
    <3>. DEFINE R == {t \in Active : f[t] = i}
    <3>1. R \in SUBSET Active /\ R \in SUBSET Tests
      BY <1>2
    <3>. HIDE DEF R
    <3>2. Work(R) \in Nat /\ Work(R) <= Work(Active)
      BY <1>2, <3>1, UnitsFinite, WorkSubset
    <3>. QED
      BY <3>2 DEF R
  <2>2. Work(Active) \in Nat
    BY <1>2, UnitsFinite
  <2>. HIDE DEF Share
  <2>3. Shares(f) \in SUBSET Nat /\ Shares(f) # {} /\ \A n \in Shares(f) : n <= Work(Active)
    BY <1>1, <2>1
  <2>4. \E d \in Shares(f) : \A e \in Shares(f) : e <= d
    <3>. HIDE DEF Shares
    <3>. QED
      BY <2>2, <2>3, GreatestNumber
  <2>5. \E d \in Shares(f) : \A i \in I : Share(f, i) <= d
    BY <2>4
  <2>6. Span(f) \in Shares(f) /\ \A i \in I : Share(f, i) <= Span(f)
    <3>. HIDE DEF Shares
    <3>. QED
      BY <2>5
  <2>. QED
    BY <2>3, <2>6
<1>4. Optimum = CHOOSE d \in Spans : \A e \in Spans : d <= e
  BY DEF Optimum
<1>. HIDE DEF Share, Span
<1>5. Spans \in SUBSET Nat
  BY <1>3
<1>6. Spans # {}
  <2>1. [t \in Active |-> 0] \in [Active -> I]
    BY <1>1
  <2>. QED
    BY <2>1
<1>7. Optimum \in Spans
  <2>1. \E d \in Spans : \A e \in Spans : d <= e
    <3>. HIDE DEF Spans
    <3>. QED
      BY <1>5, <1>6, LeastNumber
  <2>. HIDE DEF Spans
  <2>. QED
    BY <1>4, <2>1
<1>8. PICK f \in [Active -> I] : Optimum = Span(f)
  BY <1>7
<1>9. \A i \in I : Share(f, i) <= Optimum
  BY <1>3, <1>8
<1>. QED
  BY <1>5, <1>7, <1>9 DEF Share

-----------------------------------------------------------------------------
(* Graham's bound.                                                         *)

\* The work of the bins, spread evenly, is no less than the smallest load for
\* each; the work of all tests is no more than the optimum for each.
LEMMA WorkBounds ==
    ASSUME PackInv, LoadsAreWork, phase # "floor",
           NEW t \in todo, NEW l \in Nat, \A j \in DOMAIN bins : load[j] >= l
    PROVE  shardCount * l + duration[t] <= shardCount * Optimum
<1>. DEFINE I == Indexes(shardCount)
            Done == Active \ todo
<1>1. /\ bins \in [I -> Seq(Tests)] /\ DOMAIN bins = I /\ load \in [I -> Nat]
      /\ duration \in [Tests -> Nat] /\ Active \in SUBSET Tests
      /\ todo \in SUBSET Active
  BY DEF PackInv, TypeOK, Active
<1>2. shardCount \in Nat \ {0} /\ IsFiniteSet(I) /\ Cardinality(I) = shardCount
  <2>1. shardCount \in Nat \ {0}
    BY ShardCountType DEF PackInv, TypeOK
  <2>. QED
    BY <2>1, FS_Interval DEF Indexes
<1>3. shardCount * l <= Work(Done)
  <2>. DEFINE S == Units(Done)
              at == [u \in Done |-> CHOOSE j \in I : u \in Range(bins[j])]
              f == [p \in S |-> at[p[1]]]
  <2>1. \A u \in Done : at[u] \in I /\ u \in Range(bins[at[u]])
    BY <1>1 DEF PackInv, BinsHoldDone
  <2>2. \A j, h \in I : \A u \in Range(bins[j]) : u \in Range(bins[h]) => j = h
    BY <1>1 DEF PackInv, PlacedOnce, Range
  <2>3. \A j \in I : Range(bins[j]) \subseteq Done
    BY <1>1 DEF PackInv, BinsHoldDone
  <2>4. IsFiniteSet(S)
    BY <1>1, UnitsFinite
  <2>. HIDE DEF at
  <2>5. f \in [S -> I]
    BY <2>1, UnitsMember
  <2>6. ASSUME NEW j \in I PROVE Cardinality({p \in S : f[p] = j}) >= l
    <3>1. \A p \in S : f[p] = j <=> p[1] \in Range(bins[j])
      <4>. TAKE p \in S
      <4>1. p[1] \in Done
        BY UnitsMember
      <4>2. f[p] = at[p[1]]
        OBVIOUS
      <4>. HIDE DEF f, Done
      <4>. QED
        BY <2>1, <2>2, <4>1, <4>2
    <3>2. {p \in S : f[p] = j} = Units(Range(bins[j]))
      <4>1. \A p \in Units(Range(bins[j])) : p \in S /\ p[1] \in Range(bins[j])
        <5>1. Units(Range(bins[j])) \subseteq S
          BY <2>3 DEF Units
        <5>. QED
          BY <5>1, UnitsMember
      <4>2. \A p \in S : p[1] \in Range(bins[j]) => p \in Units(Range(bins[j]))
        BY UnitsMember
      <4>. HIDE DEF f
      <4>. QED
        BY <3>1, <4>1, <4>2
    <3>3. Cardinality(Units(Range(bins[j]))) = load[j]
      BY <1>1 DEF LoadsAreWork, Work
    <3>. QED
      BY <1>1, <3>2, <3>3
  <2>. HIDE DEF f, S, I
  <2>7. Cardinality(I) * l <= Cardinality(S)
    BY <1>2, <2>4, <2>5, <2>6, SharesAtLeast
  <2>. QED
    BY <1>2, <2>7 DEF S, Work
<1>4. Work(Done) + duration[t] <= Work(Active)
  <2>1. Work(Done \cup {t}) = Work(Done) + duration[t]
    BY <1>1, WorkAdd
  <2>2. Work(Done \cup {t}) <= Work(Active)
    BY <1>1, WorkSubset
  <2>. QED
    BY <2>1, <2>2
<1>5. Work(Active) <= shardCount * Optimum
  <2>1. PICK g \in [Active -> I] : \A i \in I : Work({u \in Active : g[u] = i}) <= Optimum
    BY OptimumWitness DEF PackInv
  <2>2. Optimum \in Nat
    BY OptimumWitness DEF PackInv
  <2>. DEFINE S == Units(Active)
              f == [p \in S |-> g[p[1]]]
  <2>3. IsFiniteSet(S)
    BY <1>1, UnitsFinite
  <2>4. f \in [S -> I]
    BY UnitsMember
  <2>5. ASSUME NEW i \in I PROVE Cardinality({p \in S : f[p] = i}) <= Optimum
    <3>. DEFINE R == {u \in Active : g[u] = i}
    <3>1. {p \in S : f[p] = i} = Units(R)
      <4>1. \A p \in Units(R) : p \in S /\ p[1] \in R
        <5>1. Units(R) \subseteq S
          BY DEF Units
        <5>. QED
          BY <5>1, UnitsMember
      <4>2. \A p \in S : p[1] \in R => p \in Units(R)
        BY UnitsMember
      <4>3. \A p \in S : f[p] = i <=> p[1] \in R
        BY UnitsMember
      <4>. HIDE DEF f, R
      <4>. QED
        BY <4>1, <4>2, <4>3
    <3>. QED
      BY <2>1, <3>1 DEF Work
  <2>. HIDE DEF f, S, I
  <2>6. Cardinality(S) <= Cardinality(I) * Optimum
    BY <1>2, <2>2, <2>3, <2>4, <2>5, SharesAtMost
  <2>. QED
    BY <1>2, <2>6 DEF S, Work
<1>6. Work(Done) \in Nat /\ Work(Active) \in Nat /\ duration[t] \in Nat /\ Optimum \in Nat
  BY <1>1, UnitsFinite, OptimumWitness DEF PackInv
<1>7. shardCount * l \in Nat /\ shardCount * Optimum \in Nat
  BY <1>2, <1>6
<1>. HIDE DEF Done
<1>. QED
  BY <1>3, <1>4, <1>5, <1>6, <1>7

\* A test longer than a third of the optimum finds a bin with room for it.
LEMMA LongTestsFit ==
    ASSUME PackInv, LoadsAreWork, phase # "floor",
           NEW t \in todo, NEW l \in Nat, \A j \in DOMAIN bins : load[j] >= l,
           \A u \in todo : duration[t] >= duration[u],
           3 * duration[t] > Optimum
    PROVE  l + duration[t] <= Optimum
<1>. DEFINE I == Indexes(shardCount)
            d == duration[t]
<1>1. /\ bins \in [I -> Seq(Tests)] /\ DOMAIN bins = I /\ load \in [I -> Nat]
      /\ duration \in [Tests -> Nat] /\ Active \in SUBSET Tests
      /\ todo \in SUBSET Active /\ t \in Active
  BY DEF PackInv, TypeOK, Active
<1>2. shardCount \in Nat \ {0} /\ IsFiniteSet(I) /\ Cardinality(I) = shardCount
      /\ shardCount \notin I
  <2>1. shardCount \in Nat \ {0}
    BY ShardCountType DEF PackInv, TypeOK
  <2>. QED
    BY <2>1, FS_Interval, SMTT(30) DEF Indexes
<1>3. PICK g \in [Active -> I] : \A i \in I : Work({u \in Active : g[u] = i}) <= Optimum
  BY OptimumWitness DEF PackInv
<1>4. Optimum \in Nat /\ d \in Nat
  BY <1>1, OptimumWitness DEF PackInv
\* The tests of a set that the best assignment keeps together fit.
<1>5. ASSUME NEW R \in SUBSET Active, NEW i \in I, \A u \in R : g[u] = i
      PROVE  Work(R) <= Optimum
  <2>. DEFINE All == {u \in Active : g[u] = i}
  <2>1. R \in SUBSET All /\ All \in SUBSET Tests
    BY <1>1, <1>5
  <2>2. Work(All) <= Optimum
    BY <1>3
  <2>. HIDE DEF All
  <2>3. Work(R) <= Work(All) /\ Work(R) \in Nat /\ Work(All) \in Nat
    BY <1>1, <2>1, WorkSubset, UnitsFinite
  <2>. QED
    BY <1>4, <2>2, <2>3
<1>6. SUFFICES ASSUME l + d > Optimum PROVE FALSE
  BY <1>4
<1>7. \A j \in I : load[j] > 0 /\ Len(bins[j]) \in Nat \ {0} /\ DOMAIN bins[j] = 1 .. Len(bins[j])
  <2>1. d <= Optimum
    <3>1. Work({t}) <= Optimum
      BY <1>1, <1>5
    <3>. QED
      BY <1>1, <3>1, WorkOfFew
  <2>2. \A j \in I : load[j] > 0
    BY <1>1, <1>4, <1>6, <2>1
  <2>3. \A j \in I : bins[j] # << >>
    BY <1>1, <2>2 DEF PackInv, FilledFromTheFirst
  <2>. QED
    BY <1>1, <2>2, <2>3
\* Two slots for each bin, and one for t.
<1>. DEFINE Pairs == I \X (1 .. 2)
            Slots == Pairs \cup {<<shardCount, 1>>}
            w == [y \in Slots |->
                    IF y[1] = shardCount THEN t
                    ELSE IF Len(bins[y[1]]) = 1 THEN bins[y[1]][1] ELSE bins[y[1]][y[2]]]
            f == [y \in Slots |-> g[w[y]]]
<1>8. IsFiniteSet(Slots) /\ Cardinality(Slots) > Cardinality(I) * 2
  <2>1. IsFiniteSet(Pairs) /\ Cardinality(Pairs) = Cardinality(I) * 2
    BY <1>2, PairsCount
  <2>2. <<shardCount, 1>> \notin Pairs
    BY <1>2
  <2>. HIDE DEF Pairs
  <2>3. IsFiniteSet(Slots) /\ Cardinality(Slots) = Cardinality(Pairs) + 1
    BY <2>1, <2>2, FS_AddElement
  <2>. QED
    BY <1>2, <2>1, <2>3
<1>9. \A y \in Slots : \/ y = <<shardCount, 1>> /\ y[1] = shardCount /\ y[2] = 1
                       \/ y \in Pairs /\ y[1] \in I /\ y[1] # shardCount
                             /\ y[2] \in {1, 2} /\ y = <<y[1], y[2]>>
  BY <1>2
<1>10. ASSUME NEW y \in Slots
       PROVE  /\ w[y] \in Active /\ duration[w[y]] >= d
              /\ y[1] = shardCount => w[y] = t
              /\ y[1] # shardCount =>
                    /\ w[y] # t
                    /\ \E k \in DOMAIN bins[y[1]] :
                          /\ w[y] = bins[y[1]][k]
                          /\ Len(bins[y[1]]) # 1 => k = y[2]
  <2>1. CASE y[1] = shardCount
    BY <1>1, <1>4, <2>1
  <2>2. CASE y[1] # shardCount
    <3>. DEFINE j == y[1]
                k == IF Len(bins[j]) = 1 THEN 1 ELSE y[2]
    <3>1. j \in I /\ y[2] \in {1, 2}
      BY <1>9, <2>2
    <3>2. k \in DOMAIN bins[j] /\ w[y] = bins[j][k]
      <4>1. Len(bins[j]) \in Nat \ {0} /\ DOMAIN bins[j] = 1 .. Len(bins[j])
        BY <1>7, <3>1
      <4>2. w[y] = bins[j][k]
        BY <2>2
      <4>3. k \in 1 .. Len(bins[j])
        <5>. DEFINE n == Len(bins[j])
                    b == y[2]
        <5>1. n \in Nat \ {0} /\ b \in {1, 2} /\ k = IF n = 1 THEN 1 ELSE b
          BY <3>1, <4>1
        <5>. HIDE DEF n, b, k
        <5>2. k \in 1 .. n
          BY <5>1
        <5>. QED
          BY <5>2 DEF n
      <4>. QED
        BY <4>1, <4>2, <4>3
    <3>3. w[y] \in Range(bins[j])
      BY <3>2 DEF Range
    <3>4. w[y] \in Active /\ w[y] \notin todo /\ duration[w[y]] >= d
      BY <1>1, <3>1, <3>3 DEF PackInv, BinsHoldDone, LongestWentFirst
    <3>. HIDE DEF w
    <3>. QED
      BY <2>2, <3>2, <3>4
  <2>. QED
    BY <2>1, <2>2
<1>11. f \in [Slots -> I]
  <2>. HIDE DEF w, Slots
  <2>. QED
    BY <1>10
<1>. HIDE DEF w
<1>12. PICK x \in Slots, y \in Slots, z \in Slots :
          x # y /\ x # z /\ y # z /\ f[x] = f[y] /\ f[x] = f[z]
  <2>. HIDE DEF f, Slots, I
  <2>. QED
    BY <1>2, <1>8, <1>11, ThreeInAShare
\* Slots with one test are those of a bin that has one test.
<1>13. ASSUME NEW p \in Slots, NEW q \in Slots, NEW r \in Slots,
              p # q, p # r, q # r, g[w[p]] = g[w[r]], w[p] = w[q]
       PROVE  FALSE
  <2>1. p[1] # shardCount /\ q[1] # shardCount /\ p[1] \in I /\ q[1] \in I
    BY <1>9, <1>10, <1>13
  <2>2. PICK k \in DOMAIN bins[p[1]] : w[p] = bins[p[1]][k]
                                       /\ (Len(bins[p[1]]) # 1 => k = p[2])
    BY <1>10, <2>1
  <2>3. PICK m \in DOMAIN bins[q[1]] : w[q] = bins[q[1]][m]
                                       /\ (Len(bins[q[1]]) # 1 => m = q[2])
    BY <1>10, <2>1
  <2>. DEFINE j == p[1]
  <2>4. q[1] = j /\ k = m
    <3>1. \A a, b \in I : \A n \in DOMAIN bins[a], o \in DOMAIN bins[b] :
             bins[a][n] = bins[b][o] => a = b /\ n = o
      BY <1>1 DEF PackInv, PlacedOnce
    <3>2. bins[p[1]][k] = bins[q[1]][m]
      BY <1>13, <2>2, <2>3
    <3>. QED
      BY <2>1, <2>2, <2>3, <3>1, <3>2
  <2>5. p[2] # q[2]
    BY <1>9, <1>13, <2>1, <2>4
  <2>6. Len(bins[j]) = 1
    BY <2>2, <2>3, <2>4, <2>5
  <2>7. r[1] # j
    BY <1>9, <1>13, <2>1, <2>4, <2>5
  <2>8. w[r] # w[p]
    <3>1. CASE r[1] = shardCount
      BY <1>10, <2>1, <3>1
    <3>2. CASE r[1] # shardCount
      <4>1. PICK n \in DOMAIN bins[r[1]] : w[r] = bins[r[1]][n]
        BY <1>10, <3>2
      <4>2. r[1] \in I
        BY <1>9, <3>2
      <4>. QED
        BY <1>1, <2>1, <2>2, <2>7, <4>1, <4>2 DEF PackInv, PlacedOnce
    <3>. QED
      BY <3>1, <3>2
  <2>9. load[j] = duration[w[p]]
    <3>1. DOMAIN bins[j] = {1} /\ w[p] = bins[j][1]
      BY <1>7, <2>1, <2>2, <2>6
    <3>2. Range(bins[j]) = {w[p]}
      BY <3>1 DEF Range
    <3>. QED
      BY <1>1, <1>10, <2>1, <3>2, WorkOfFew DEF LoadsAreWork
  <2>10. Work({w[p], w[r]}) <= Optimum
    <3>1. g[w[p]] \in I /\ {w[p], w[r]} \in SUBSET Active
      BY <1>10
    <3>2. \A u \in {w[p], w[r]} : g[u] = g[w[p]]
      BY <1>13
    <3>. QED
      BY <1>5, <3>1, <3>2
  <2>11. Work({w[p], w[r]}) = duration[w[p]] + duration[w[r]]
    BY <1>1, <1>10, <2>8, WorkOfFew
  <2>12. duration[w[p]] >= l /\ duration[w[r]] >= d
    BY <1>1, <1>10, <2>1, <2>9
  <2>13. duration[w[p]] \in Nat /\ duration[w[r]] \in Nat
    BY <1>1, <1>10
  <2>. HIDE DEF d
  <2>. QED
    BY <1>4, <1>6, <2>10, <2>11, <2>12, <2>13
<1>14. g[w[x]] = g[w[y]] /\ g[w[x]] = g[w[z]]
  BY <1>12
<1>15. w[x] # w[y] /\ w[x] # w[z] /\ w[y] # w[z]
  <2>. HIDE DEF Slots
  <2>. QED
    BY <1>12, <1>13, <1>14
<1>16. Work({w[x], w[y], w[z]}) <= Optimum
  <2>1. g[w[x]] \in I /\ {w[x], w[y], w[z]} \in SUBSET Active
    BY <1>10
  <2>2. \A u \in {w[x], w[y], w[z]} : g[u] = g[w[x]]
    BY <1>14
  <2>. QED
    BY <1>5, <2>1, <2>2
<1>17. Work({w[x], w[y], w[z]}) = duration[w[x]] + duration[w[y]] + duration[w[z]]
  BY <1>1, <1>10, <1>15, WorkOfFew
<1>18. /\ duration[w[x]] \in Nat /\ duration[w[x]] >= d
       /\ duration[w[y]] \in Nat /\ duration[w[y]] >= d
       /\ duration[w[z]] \in Nat /\ duration[w[z]] >= d
  BY <1>1, <1>10
<1>19. 3 * d > Optimum
  OBVIOUS
<1>. HIDE DEF d
<1>. QED
  BY <1>4, <1>16, <1>17, <1>18, <1>19

\* The arithmetic of Graham's bound.
LEMMA GrahamArithmetic ==
    ASSUME NEW m \in Nat \ {0}, NEW l \in Nat, NEW d \in Nat, NEW o \in Nat,
           \/ 3 * d <= o /\ m * l + d <= m * o
           \/ l + d <= o
    PROVE  3 * m * (l + d) <= (4 * m - 1) * o
<1>1. \A a, b \in Nat : a <= b => \A n \in Nat : n * a <= n * b
  OBVIOUS
<1>2. /\ m - 1 \in Nat /\ m * l \in Nat /\ m * d \in Nat /\ m * o \in Nat
      /\ 3 * m * (l + d) = 3 * (m * l) + 3 * (m * d)
      /\ (4 * m - 1) * o = 4 * (m * o) - o
      /\ (m - 1) * (3 * d) = 3 * (m * d) - 3 * d
      /\ (m - 1) * o = m * o - o
      /\ m * (l + d) = m * l + m * d
  OBVIOUS
<1>3. CASE 3 * d <= o /\ m * l + d <= m * o
  <2>1. (m - 1) * (3 * d) <= (m - 1) * o
    BY <1>1, <1>2, <1>3
  <2>. QED
    BY <1>2, <1>3, <2>1
<1>4. CASE l + d <= o
  <2>1. m * (l + d) <= m * o
    BY <1>1, <1>4
  <2>2. 1 * o <= m * o
    OBVIOUS
  <2>. QED
    BY <1>2, <2>1, <2>2
<1>. QED
  BY <1>3, <1>4

\* What the bound is stated with depends on the input, the durations and their
\* sum.
LEMMA BoundReads ==
    ASSUME UNCHANGED <<tags, quarantined, c, duration, totalMS>>
    PROVE  /\ Optimum' = Optimum /\ shardCount' = shardCount /\ Active' = Active
           /\ \A S : Work(S)' = Work(S)
           /\ \A t : Tag(t)' = Tag(t)
<1>1. Active' = Active /\ \A t : Tag(t)' = Tag(t)
  BY DEF Active, Tag
<1>2. shardCount' = shardCount
  BY <1>1 DEF shardCount, ShardsFor, Desired, Target, MinShards, MaxShards
<1>3. \A S : Work(S)' = Work(S)
  BY DEF Work, Units
<1>4. Optimum' = Optimum
  BY <1>1, <1>2, <1>3 DEF Optimum, Work, Units
<1>. QED
  BY <1>1, <1>2, <1>3, <1>4

\* LPT packing with the bound.
BoundInv == PackInv /\ LoadsAreWork /\ BoundSoFar

\* Packing keeps it: a test of at most a third of the optimum is a small part of
\* what the least loaded bin may still get, and a longer one fits.
LEMMA PlaceKeepsBound ==
    ASSUME BoundInv, NEW t \in Tests, NEW i \in DOMAIN bins, Place(t, i)
    PROVE  LoadsAreWork' /\ BoundSoFar'
<1>. DEFINE I == Indexes(shardCount)
<1>1. /\ bins \in [I -> Seq(Tests)] /\ DOMAIN bins = I /\ load \in [I -> Nat]
      /\ duration \in [Tests -> Nat] /\ Active \in SUBSET Tests
      /\ todo \in SUBSET Active /\ t \in todo /\ phase = "pack" /\ i \in I
  BY DEF BoundInv, PackInv, TypeOK, Active, Place, IsFirst
<1>2. /\ UNCHANGED <<tags, quarantined, c, duration, totalMS>> /\ phase' = "pack"
      /\ DOMAIN bins' = I /\ bins'[i] = Append(bins[i], t)
      /\ load'[i] = load[i] + duration[t]
      /\ \A j \in I \ {i} : bins'[j] = bins[j] /\ load'[j] = load[j]
  BY <1>1 DEF Place, input
<1>3. /\ Optimum' = Optimum /\ shardCount' = shardCount /\ Active' = Active
      /\ \A S : Work(S)' = Work(S)
      /\ \A u : Tag(u)' = Tag(u)
  BY <1>2, BoundReads
<1>4. shardCount \in Nat \ {0} /\ Optimum \in Nat /\ duration[t] \in Nat /\ load[i] \in Nat
  BY <1>1, ShardCountType, OptimumWitness DEF BoundInv, PackInv, TypeOK
<1>5. ASSUME NEW j \in I PROVE load'[j] = Work(Range(bins'[j]))
  <2>1. load[j] = Work(Range(bins[j]))
    BY <1>1 DEF BoundInv, LoadsAreWork
  <2>2. CASE j # i
    BY <1>2, <2>1, <2>2
  <2>3. CASE j = i
    <3>1. bins[i] \in Seq(Tests) /\ Len(bins[i]) \in Nat /\ DOMAIN bins[i] = 1 .. Len(bins[i])
      BY <1>1
    <3>2. Range(bins'[i]) = Range(bins[i]) \cup {t}
      BY <1>2, <3>1 DEF Range
    <3>3. Range(bins[i]) \in SUBSET Tests /\ t \notin Range(bins[i])
      BY <1>1 DEF BoundInv, PackInv, BinsHoldDone
    <3>4. Work(Range(bins[i]) \cup {t}) = Work(Range(bins[i])) + duration[t]
      BY <1>1, <3>3, WorkAdd
    <3>. QED
      BY <1>2, <2>1, <2>3, <3>2, <3>4
  <2>. QED
    BY <2>2, <2>3
<1>6. LoadsAreWork'
  BY <1>2, <1>3, <1>5 DEF LoadsAreWork, Planned
<1>7. ASSUME \A u \in Active : Tag(u) = NoTag
      PROVE  3 * shardCount * load'[i] <= (4 * shardCount - 1) * Optimum
  <2>1. \A j \in DOMAIN bins : load[j] >= load[i]
    <3>1. OpenBins(t) = DOMAIN bins
      BY <1>1, <1>7 DEF OpenBins
    <3>2. \A j \in DOMAIN bins : load[i] < load[j] \/ load[i] = load[j]
      BY <3>1 DEF Place, IsBest
    <3>3. \A j \in DOMAIN bins : load[j] \in Nat
      BY <1>1
    <3>. QED
      BY <3>2, <3>3
  <2>2. \A u \in todo : duration[t] >= duration[u]
    <3>. TAKE u \in todo
    <3>1. u = t \/ Before(t, u)
      BY DEF Place, IsFirst
    <3>2. duration[t] \in Nat /\ duration[u] \in Nat
      BY <1>1
    <3>. QED
      BY <3>1, <3>2 DEF Before
  <2>3. CASE 3 * duration[t] <= Optimum
    <3>1. shardCount * load[i] + duration[t] <= shardCount * Optimum
      BY <1>1, <1>4, <2>1, WorkBounds DEF BoundInv
    <3>. QED
      BY <1>2, <1>4, <2>3, <3>1, GrahamArithmetic
  <2>4. CASE 3 * duration[t] > Optimum
    <3>1. load[i] + duration[t] <= Optimum
      BY <1>1, <1>4, <2>1, <2>2, <2>4, LongTestsFit DEF BoundInv
    <3>. QED
      BY <1>2, <1>4, <3>1, GrahamArithmetic
  <2>. QED
    BY <1>4, <2>3, <2>4
<1>8. BoundSoFar'
  <2>. SUFFICES ASSUME \A u \in Active : Tag(u) = NoTag, NEW j \in I
                PROVE  3 * shardCount * load'[j] <= (4 * shardCount - 1) * Optimum
    BY <1>2, <1>3 DEF BoundSoFar
  <2>1. CASE j = i
    BY <1>7, <2>1
  <2>2. CASE j # i
    BY <1>1, <1>2, <2>2 DEF BoundInv, BoundSoFar
  <2>. QED
    BY <2>1, <2>2
<1>. QED
  BY <1>6, <1>8

\* The makespan is one of the loads, and none is greater.
LEMMA MakespanIsLoad ==
    ASSUME PackInv, phase # "floor"
    PROVE  makespan \in Range(load) /\ \A e \in Range(load) : e <= makespan
<1>. DEFINE I == Indexes(shardCount)
<1>1. load \in [I -> Nat] /\ 0 \in I /\ IsFiniteSet(I)
  <2>1. shardCount \in Nat \ {0}
    BY ShardCountType DEF PackInv, TypeOK
  <2>2. 0 \in I /\ IsFiniteSet(I)
    BY <2>1, FS_Interval DEF Indexes
  <2>. QED
    BY <2>2 DEF PackInv, TypeOK
<1>2. Range(load) \in SUBSET Nat /\ Range(load) # {}
  BY <1>1 DEF Range
<1>3. IsFiniteSet(Range(load))
  <2>1. load \in Surjection(I, Range(load))
    BY <1>1 DEF Surjection, Range
  <2>. HIDE DEF I
  <2>. QED
    BY <1>1, <2>1, FS_Surjection
<1>4. \E d \in Range(load) : \A e \in Range(load) : e <= d
  BY <1>2, <1>3, FiniteHasGreatest
<1>. QED
  BY <1>4 DEF makespan, Longest

\* One step per action: only packing changes the loads.
LEMMA BoundStep == BoundInv /\ [Next]_vars => BoundInv'
<1>. SUFFICES ASSUME BoundInv, [Next]_vars PROVE BoundInv'
  OBVIOUS
<1>0. PackInv'
  BY PackStep DEF BoundInv
<1>1. CASE phase' = "floor"
  BY <1>0, <1>1 DEF BoundInv, LoadsAreWork, BoundSoFar, Planned
<1>2. CASE MakeBins
  <2>1. /\ UNCHANGED <<tags, quarantined, c, duration, totalMS>> /\ phase' = "pack"
        /\ DOMAIN bins' = Indexes(shardCount)
        /\ \A i \in DOMAIN bins' : bins'[i] = << >> /\ load'[i] = 0
    BY <1>2 DEF MakeBins, input
  <2>2. /\ Optimum' = Optimum /\ shardCount' = shardCount /\ Active' = Active
        /\ \A S : Work(S)' = Work(S)
    BY <2>1, BoundReads
  <2>3. \A i \in DOMAIN bins' : Range(bins'[i]) = {}
    BY <2>1 DEF Range
  <2>4. Work({}) = 0 /\ Optimum \in Nat /\ shardCount \in Nat \ {0}
    BY WorkOfFew, OptimumWitness, ShardCountType DEF BoundInv, PackInv, TypeOK
  <2>5. LoadsAreWork'
    BY <2>1, <2>2, <2>3, <2>4 DEF LoadsAreWork, Planned
  <2>6. 3 * shardCount * 0 <= (4 * shardCount - 1) * Optimum
    <3>1. (4 * shardCount - 1) * Optimum \in Nat
      BY <2>4
    <3>. QED
      BY <2>4, <3>1
  <2>7. BoundSoFar'
    BY <2>1, <2>2, <2>6 DEF BoundSoFar
  <2>. QED
    BY <1>0, <2>5, <2>7 DEF BoundInv
<1>3. CASE Return \/ UNCHANGED vars
  <2>1. /\ UNCHANGED <<tags, quarantined, c, duration, totalMS, load>>
        /\ phase' = "floor" => phase = "floor"
    BY <1>3 DEF Return, vars, input
  <2>2. CASE phase' = "floor"
    BY <1>1, <2>2
  <2>3. CASE phase' # "floor"
    <3>1. phase # "floor"
      BY <1>3, <2>3 DEF Return, vars
    <3>2. bins' = bins
      <4>1. CASE UNCHANGED vars
        BY <4>1 DEF vars
      <4>2. CASE Return
        BY <4>2, ReturnKeepsBins DEF BoundInv
      <4>. QED
        BY <1>3, <4>1, <4>2
    <3>3. /\ Optimum' = Optimum /\ shardCount' = shardCount /\ Active' = Active
          /\ \A S : Work(S)' = Work(S)
          /\ \A u : Tag(u)' = Tag(u)
      BY <2>1, BoundReads
    <3>4. Planned' => plan'.Makespan = makespan
      BY <1>3 DEF Return, BoundInv, LoadsAreWork, Planned, vars
    <3>5. makespan' = makespan
      BY <2>1 DEF makespan, Longest
    <3>6. LoadsAreWork'
      BY <2>1, <3>1, <3>2, <3>3, <3>4, <3>5 DEF BoundInv, LoadsAreWork
    <3>7. BoundSoFar'
      BY <2>1, <3>1, <3>2, <3>3 DEF BoundInv, BoundSoFar
    <3>. QED
      BY <1>0, <3>6, <3>7 DEF BoundInv
  <2>. QED
    BY <2>2, <2>3
<1>4. CASE \E t \in Tests, i \in DOMAIN bins : Place(t, i)
  BY <1>0, <1>4, PlaceKeepsBound DEF BoundInv
<1>5. CASE (\E t \in Tests : FloorTest(t)) \/ Replay
  <2>1. phase' = "floor"
    BY <1>5 DEF FloorTest, Replay
  <2>. QED
    BY <1>1, <2>1
<1>. QED
  BY <1>2, <1>3, <1>4, <1>5 DEF Next

\* The bound of the bins is the bound of the makespan.
LEMMA BoundOfPlan == BoundInv => GrahamBound
<1>. SUFFICES ASSUME BoundInv, Planned, \A t \in Active : Tag(t) = NoTag
              PROVE  3 * shardCount * plan.Makespan <= (4 * shardCount - 1) * Optimum
  BY DEF GrahamBound
<1>1. phase # "floor" /\ plan.Makespan = makespan
  BY DEF Planned, BoundInv, LoadsAreWork
<1>2. makespan \in Range(load)
  BY <1>1, MakespanIsLoad DEF BoundInv
<1>3. DOMAIN load = DOMAIN bins
  BY <1>1 DEF BoundInv, PackInv, TypeOK
<1>4. PICK i \in DOMAIN bins : makespan = load[i]
  BY <1>2, <1>3 DEF Range
<1>. QED
  BY <1>1, <1>4 DEF BoundInv, BoundSoFar

-----------------------------------------------------------------------------
(* Planning again.                                                         *)

\* What the packing of a set of bins is read from.
LEMMA PackingReads ==
    ASSUME UNCHANGED <<tags, quarantined, hash, c, duration>>
    PROVE  /\ Active' = Active /\ \A t : Tag(t)' = Tag(t)
           /\ \A S : Work(S)' = Work(S)
           /\ \A n : ShardsFor(n)' = ShardsFor(n)
           /\ \A t, u : Sooner(t, u)' <=> Sooner(t, u)
           /\ \A b : InOrder(b)' <=> InOrder(b)
           /\ \A b : Greedy(b)' <=> Greedy(b)
           /\ \A b : Partition(b)' <=> Partition(b)
<1>1. Active' = Active /\ \A t : Tag(t)' = Tag(t)
  BY DEF Active, Tag
<1>2. \A S : Work(S)' = Work(S)
  BY DEF Work, Units
<1>3. \A n : ShardsFor(n)' = ShardsFor(n)
  BY <1>1 DEF ShardsFor, Desired, Target, MinShards, MaxShards
<1>4. \A t, u : Sooner(t, u)' <=> Sooner(t, u)
  BY DEF Sooner
<1>5. \A b, i, t : Earlier(b, i, t)' = Earlier(b, i, t)
  BY <1>4 DEF Earlier
<1>6. \A b, t : OpenTo(b, t)' = OpenTo(b, t)
  BY <1>1, <1>5 DEF OpenTo
<1>7. \A b : Greedy(b)' <=> Greedy(b)
  BY <1>2, <1>5, <1>6 DEF Greedy
<1>8. \A b : InOrder(b)' <=> InOrder(b)
  BY <1>4 DEF InOrder
<1>9. \A b : Partition(b)' <=> Partition(b)
  BY <1>1 DEF Partition
<1>. QED
  BY <1>1, <1>2, <1>3, <1>4, <1>7, <1>8, <1>9

\* Sooner is a strict order, and it is total where hashes differ.
LEMMA SoonerOrders ==
    ASSUME TypeOK, HashesDiffer, NEW t \in Active, NEW u \in Active
    PROVE  /\ ~ (Sooner(t, u) /\ Sooner(u, t))
           /\ ~ Sooner(t, t)
           /\ t # u /\ Before(t, u) => Sooner(t, u)
<1>1. /\ duration[t] \in Nat /\ duration[u] \in Nat
      /\ hash[t] \in Nat /\ hash[u] \in Nat
  BY DEF TypeOK, Active
<1>2. hash[t] = hash[u] => t = u
  BY DEF HashesDiffer
<1>. QED
  BY <1>1, <1>2 DEF Sooner, Before

\* The bins open to a test are those the tests packed so far leave open.
LEMMA OpenBinsAreOpen ==
    ASSUME PackInv, PackedGreedily, phase # "floor",
           NEW t \in Active, NEW b, DOMAIN b = DOMAIN bins,
           \A j \in DOMAIN bins : Earlier(b, j, t) = Range(bins[j])
    PROVE  OpenTo(b, t) = OpenBins(t)
<1>. DEFINE owners == {j \in DOMAIN bins : \E u \in Range(bins[j]) : Tag(u) = Tag(t)}
<1>1. OpenTo(b, t) = IF Tag(t) = NoTag \/ owners = {} THEN DOMAIN bins ELSE owners
  BY DEF OpenTo
<1>2. /\ t \in Tests /\ (Tag(t) = NoTag \/ Tag(t) \in Exclusive)
      /\ exclusiveBin \in [Exclusive -> DOMAIN bins \cup {NoBin}]
      /\ NoBin \notin DOMAIN bins
  <2>1. t \in Tests /\ DOMAIN bins \subseteq Nat
    BY ShardCountType DEF PackInv, TypeOK, Active, Indexes
  <2>. QED
    BY <2>1, TagType, NothingAssumption DEF PackInv, TypeOK
<1>3. CASE Tag(t) = NoTag
  BY <1>1, <1>3 DEF OpenBins
<1>4. CASE Tag(t) # NoTag
  <2>. DEFINE o == exclusiveBin[Tag(t)]
  <2>1. \A j \in owners : o = j
    BY <1>4 DEF PackInv, OwnersAgree
  <2>2. o # NoBin => o \in owners
    BY <1>2, <1>4 DEF PackedGreedily
  <2>3. CASE o = NoBin
    <3>1. owners = {}
      BY <1>2, <2>1, <2>3
    <3>. QED
      BY <1>1, <2>3, <3>1 DEF OpenBins
  <2>4. CASE o # NoBin
    <3>1. owners = {o}
      BY <2>1, <2>2, <2>4
    <3>. QED
      BY <1>1, <1>4, <2>4, <3>1 DEF OpenBins
  <2>. QED
    BY <2>3, <2>4
<1>. QED
  BY <1>3, <1>4

\* Packing a test keeps the bins greedy: what was packed before does not see
\* it, and it went to the bin that was best.
LEMMA PlaceIsGreedy ==
    ASSUME PackInv, LoadsAreWork, HashesDiffer, PackedGreedily,
           NEW t \in Tests, NEW i \in DOMAIN bins, Place(t, i)
    PROVE  /\ \A u \in Active \ todo', v \in todo' : Sooner(u, v)
           /\ InOrder(bins') /\ Greedy(bins')
<1>. DEFINE I == Indexes(shardCount)
<1>1. /\ bins \in [I -> Seq(Tests)] /\ DOMAIN bins = I /\ load \in [I -> Nat]
      /\ duration \in [Tests -> Nat] /\ Active \in SUBSET Tests
      /\ todo \in SUBSET Active /\ t \in todo /\ t \in Active
      /\ phase = "pack" /\ phase # "floor" /\ i \in I
  BY DEF PackInv, TypeOK, Active, Place, IsFirst
<1>2. /\ DOMAIN bins' = I /\ bins'[i] = Append(bins[i], t)
      /\ \A j \in I \ {i} : bins'[j] = bins[j]
      /\ todo' = todo \ {t}
  BY <1>1 DEF Place
<1>3. /\ DOMAIN bins'[i] = 1 .. Len(bins[i]) + 1 /\ Len(bins[i]) \in Nat
      /\ DOMAIN bins[i] = 1 .. Len(bins[i])
      /\ \A k \in DOMAIN bins[i] : bins'[i][k] = bins[i][k]
      /\ bins'[i][Len(bins[i]) + 1] = t
  BY <1>1, <1>2
<1>4. Range(bins'[i]) = Range(bins[i]) \cup {t}
  BY <1>3 DEF Range
<1>5. \A j \in I : Range(bins[j]) \subseteq Active \ todo
  BY <1>1 DEF PackInv, BinsHoldDone
<1>6. \A u \in Active \ todo : Sooner(u, t) /\ ~ Sooner(t, u)
  BY <1>1, SoonerOrders DEF PackedGreedily, PackInv
<1>7. \A v \in todo' : Sooner(t, v)
  BY <1>1, <1>2, SoonerOrders DEF PackInv, Place, IsFirst
<1>8. \A u \in Active \ todo', v \in todo' : Sooner(u, v)
  BY <1>1, <1>2, <1>7 DEF PackedGreedily
<1>9. InOrder(bins')
  <2>. SUFFICES ASSUME NEW j \in I, NEW k \in DOMAIN bins'[j], NEW l \in DOMAIN bins'[j], k < l
                PROVE  Sooner(bins'[j][k], bins'[j][l])
    BY <1>2 DEF InOrder
  <2>1. \A h \in I : \A a, b \in DOMAIN bins[h] : a < b => Sooner(bins[h][a], bins[h][b])
    BY <1>1 DEF PackedGreedily, InOrder
  <2>2. CASE j # i
    BY <1>2, <2>1, <2>2
  <2>3. CASE j = i /\ l \in DOMAIN bins[i]
    <3>1. k \in DOMAIN bins[i]
      BY <1>3, <2>3
    <3>. QED
      BY <1>3, <2>1, <2>3, <3>1
  <2>4. CASE j = i /\ l \notin DOMAIN bins[i]
    <3>1. l = Len(bins[i]) + 1 /\ k \in DOMAIN bins[i]
      BY <1>3, <2>4
    <3>2. bins[i][k] \in Range(bins[i])
      BY <3>1 DEF Range
    <3>. QED
      BY <1>3, <1>5, <1>6, <2>4, <3>1, <3>2
  <2>. QED
    BY <2>2, <2>3, <2>4
<1>10. ASSUME NEW u \in Active \ todo, NEW j \in I
       PROVE  Earlier(bins', j, u) = Earlier(bins, j, u)
  <2>1. Range(bins'[j]) = Range(bins[j]) \/ Range(bins'[j]) = Range(bins[j]) \cup {t}
    BY <1>2, <1>4
  <2>2. ~ Sooner(t, u)
    BY <1>6
  <2>. QED
    BY <2>1, <2>2 DEF Earlier
<1>11. ASSUME NEW j \in I PROVE Earlier(bins', j, t) = Range(bins[j])
  <2>1. ~ Sooner(t, t)
    BY <1>1, SoonerOrders DEF PackInv
  <2>2. \A u \in Range(bins[j]) : Sooner(u, t)
    BY <1>5, <1>6
  <2>3. Range(bins'[j]) = Range(bins[j]) \/ Range(bins'[j]) = Range(bins[j]) \cup {t}
    BY <1>2, <1>4
  <2>. QED
    BY <2>1, <2>2, <2>3 DEF Earlier
<1>. DEFINE Best(b, j, u) ==
              /\ j \in OpenTo(b, u)
              /\ \A h \in OpenTo(b, u) :
                    \/ Work(Earlier(b, j, u)) < Work(Earlier(b, h, u))
                    \/ Work(Earlier(b, j, u)) = Work(Earlier(b, h, u)) /\ j <= h
<1>12. ASSUME NEW j \in I, NEW u \in Range(bins[j]) PROVE Best(bins', j, u)
  <2>1. u \in Active \ todo
    BY <1>5
  <2>2. Best(bins, j, u)
    BY <1>1 DEF PackedGreedily, Greedy
  <2>3. OpenTo(bins', u) = OpenTo(bins, u)
    BY <1>1, <1>2, <1>10, <2>1 DEF OpenTo
  <2>4. OpenTo(bins, u) \subseteq I
    BY <1>1 DEF OpenTo
  <2>. QED
    BY <1>10, <2>1, <2>2, <2>3, <2>4
<1>13. Best(bins', i, t)
  <2>1. OpenTo(bins', t) = OpenBins(t)
    BY <1>1, <1>2, <1>11, OpenBinsAreOpen
  <2>2. IsBest(t, i)
    BY DEF Place
  <2>3. \A j \in I : Work(Earlier(bins', j, t)) = load[j]
    BY <1>1, <1>11 DEF LoadsAreWork
  <2>4. OpenBins(t) \subseteq I
    <3>1. OpenTo(bins', t) \subseteq DOMAIN bins'
      BY DEF OpenTo
    <3>. QED
      BY <1>2, <2>1, <3>1
  <2>. QED
    BY <1>1, <2>1, <2>2, <2>3, <2>4 DEF IsBest
<1>14. Greedy(bins')
  <2>1. ASSUME NEW j \in I, NEW u \in Range(bins'[j]) PROVE Best(bins', j, u)
    <3>1. u \in Range(bins[j]) \/ (j = i /\ u = t)
      BY <1>2, <1>4
    <3>. HIDE DEF Best
    <3>. QED
      BY <1>12, <1>13, <3>1
  <2>. QED
    BY <1>2, <2>1 DEF Greedy
<1>. QED
  BY <1>8, <1>9, <1>14

\* A test that is packed again comes where the stored plan has it.
LEMMA PlaceFollowsStored ==
    ASSUME PackInv, LoadsAreWork, AgainInv, stored # NoPlan,
           NEW t \in Tests, NEW i \in DOMAIN bins, Place(t, i)
    PROVE  /\ Len(bins[i]) + 1 \in DOMAIN StoredBins[i]
           /\ StoredBins[i][Len(bins[i]) + 1] = t
<1>. DEFINE I == Indexes(shardCount)
            B == StoredBins
<1>1. /\ bins \in [I -> Seq(Tests)] /\ DOMAIN bins = I /\ load \in [I -> Nat]
      /\ todo \in SUBSET Active /\ t \in todo /\ t \in Active
      /\ phase = "pack" /\ phase # "floor" /\ i \in I
  BY DEF PackInv, TypeOK, Active, Place, IsFirst
<1>2. DOMAIN B = I
  BY <1>1 DEF AgainInv, SumIsWork, StoredBins, shardCount
<1>3. /\ \A j \in I : B[j] \in Seq(Tests)
      /\ Partition(B) /\ InOrder(B) /\ Greedy(B)
      /\ \A j \in I : \A k \in DOMAIN bins[j] : k \in DOMAIN B[j] /\ bins[j][k] = B[j][k]
  BY <1>1, <1>2 DEF AgainInv, StoredIsPlan
<1>. HIDE DEF B
<1>4. /\ \A j \in I : Range(B[j]) \subseteq Active
      /\ \A u \in Active : \E j \in I : u \in Range(B[j])
      /\ \A j, h \in I : \A k \in DOMAIN B[j], l \in DOMAIN B[h] :
            B[j][k] = B[h][l] => j = h /\ k = l
  BY <1>2, <1>3, Zenon DEF Partition
<1>5. /\ \A u \in Active \ todo : Sooner(u, t)
      /\ \A u \in Active : u \in todo => ~ Sooner(u, t)
  <2>1. \A u \in Active \ todo : Sooner(u, t)
    BY <1>1 DEF AgainInv, PackedGreedily
  <2>2. ASSUME NEW u \in Active, u \in todo PROVE ~ Sooner(u, t)
    <3>1. u = t \/ Before(t, u)
      BY <2>2 DEF Place, IsFirst
    <3>. QED
      BY <1>1, <3>1, SoonerOrders DEF AgainInv, PackInv
  <2>. QED
    BY <2>1, <2>2
\* The tests packed so far are those the stored bins had before t.
<1>6. ASSUME NEW j \in I PROVE Earlier(B, j, t) = Range(bins[j])
  <2>1. ASSUME NEW u \in Range(bins[j]) PROVE u \in Range(B[j]) /\ Sooner(u, t)
    <3>1. u \in Range(B[j])
      BY <1>3, <2>1 DEF Range
    <3>2. u \in Active \ todo
      BY <1>1 DEF PackInv, BinsHoldDone
    <3>. QED
      BY <1>5, <3>1, <3>2
  <2>2. ASSUME NEW u \in Range(B[j]), Sooner(u, t) PROVE u \in Range(bins[j])
    <3>1. u \in Active \ todo
      BY <1>4, <1>5, <2>2
    <3>2. PICK h \in I : u \in Range(bins[h])
      BY <1>1, <3>1 DEF PackInv, BinsHoldDone
    <3>3. PICK k \in DOMAIN bins[h] : u = bins[h][k]
      BY <3>2 DEF Range
    <3>4. PICK l \in DOMAIN B[j] : u = B[j][l]
      BY <2>2 DEF Range
    <3>5. k \in DOMAIN B[h] /\ B[h][k] = B[j][l]
      BY <1>3, <3>3, <3>4
    <3>. QED
      BY <1>4, <3>2, <3>5
  <2>. QED
    BY <2>1, <2>2 DEF Earlier
<1>7. PICK h \in I : t \in Range(B[h])
  BY <1>1, <1>4
<1>8. h = i
  <2>1. OpenTo(B, t) = OpenBins(t)
    BY <1>1, <1>2, <1>6, OpenBinsAreOpen DEF AgainInv
  <2>2. \A j \in I : Work(Earlier(B, j, t)) = load[j]
    BY <1>1, <1>6 DEF LoadsAreWork
  <2>3. /\ h \in OpenBins(t)
        /\ \A j \in OpenBins(t) :
              \/ Work(Earlier(B, h, t)) < Work(Earlier(B, j, t))
              \/ Work(Earlier(B, h, t)) = Work(Earlier(B, j, t)) /\ h <= j
    BY <1>2, <1>3, <1>7, <2>1 DEF Greedy
  <2>4. /\ i \in OpenBins(t)
        /\ \A j \in OpenBins(t) : load[i] < load[j] \/ (load[i] = load[j] /\ i <= j)
    BY DEF Place, IsBest
  <2>5. load[h] < load[i] \/ (load[h] = load[i] /\ h <= i)
    BY <1>1, <2>2, <2>3, <2>4
  <2>6. load[i] < load[h] \/ (load[i] = load[h] /\ i <= h)
    BY <2>3, <2>4
  <2>7. load[i] \in Nat /\ load[h] \in Nat
    BY <1>1
  <2>8. i \in Nat /\ h \in Nat
    BY <1>1, ShardCountType DEF Indexes, PackInv, TypeOK
  <2>. QED
    BY <2>5, <2>6, <2>7, <2>8
<1>9. PICK n \in DOMAIN B[i] : t = B[i][n]
  BY <1>7, <1>8 DEF Range
<1>10. /\ DOMAIN B[i] = 1 .. Len(B[i]) /\ Len(B[i]) \in Nat
       /\ DOMAIN bins[i] = 1 .. Len(bins[i]) /\ Len(bins[i]) \in Nat
  BY <1>1, <1>3
<1>11. ~ (n <= Len(bins[i]))
  <2>1. n \notin DOMAIN bins[i]
    <3>1. t \notin Range(bins[i])
      BY <1>1 DEF PackInv, BinsHoldDone
    <3>. QED
      BY <1>1, <1>3, <1>9, <3>1 DEF Range
  <2>. QED
    BY <1>9, <1>10, <2>1
<1>12. \A m \in 1 .. n - 1 : m <= Len(bins[i])
  <2>. TAKE m \in 1 .. n - 1
  <2>1. m \in DOMAIN B[i] /\ m < n
    BY <1>9, <1>10
  <2>2. Sooner(B[i][m], t)
    BY <1>1, <1>2, <1>3, <1>9, <2>1 DEF InOrder
  <2>3. B[i][m] \in Range(bins[i])
    <3>1. B[i][m] \in Range(B[i])
      BY <2>1 DEF Range
    <3>. QED
      BY <1>1, <1>6, <2>2, <3>1 DEF Earlier
  <2>4. PICK k \in DOMAIN bins[i] : B[i][m] = bins[i][k]
    BY <2>3 DEF Range
  <2>5. k \in DOMAIN B[i] /\ B[i][m] = B[i][k]
    BY <1>1, <1>3, <2>4
  <2>6. m = k
    BY <1>1, <1>4, <2>1, <2>5
  <2>. QED
    BY <1>10, <2>4, <2>6
<1>13. n = Len(bins[i]) + 1
  <2>1. n \in Nat /\ n >= 1
    BY <1>9, <1>10
  <2>2. CASE n = 1
    BY <1>10, <1>11, <2>2
  <2>3. CASE n # 1
    <3>1. n - 1 \in 1 .. n - 1
      BY <2>1, <2>3
    <3>2. n - 1 <= Len(bins[i])
      BY <1>12, <3>1
    <3>. QED
      BY <1>10, <1>11, <2>1, <3>2
  <2>. QED
    BY <2>2, <2>3
<1>. QED
  BY <1>9, <1>13 DEF B

\* Once every test is packed again the bins are those of the stored plan.
LEMMA PackedAgain ==
    ASSUME PackInv, AgainInv, Planned, stored # NoPlan
    PROVE  bins = StoredBins
<1>. DEFINE I == Indexes(shardCount)
            B == StoredBins
<1>1. bins \in [I -> Seq(Tests)] /\ DOMAIN bins = I /\ phase # "floor" /\ todo = {}
  BY DEF PackInv, TypeOK, Planned, PlannedIsDone
<1>2. DOMAIN B = I /\ B = [j \in I |-> B[j]]
  BY <1>1 DEF AgainInv, SumIsWork, StoredBins, shardCount
<1>3. /\ \A j \in I : B[j] \in Seq(Tests)
      /\ Partition(B)
      /\ \A j \in I : \A k \in DOMAIN bins[j] : k \in DOMAIN B[j] /\ bins[j][k] = B[j][k]
  BY <1>1, <1>2 DEF AgainInv, StoredIsPlan
<1>. HIDE DEF B
<1>4. ASSUME NEW j \in I PROVE bins[j] = B[j]
  <2>1. ASSUME NEW n \in DOMAIN B[j] PROVE n \in DOMAIN bins[j]
    <3>1. B[j][n] \in Range(B[j])
      BY <2>1 DEF Range
    <3>2. B[j][n] \in Active
      BY <1>2, <3>1, <1>3 DEF Partition
    <3>3. PICK h \in I : B[j][n] \in Range(bins[h])
      BY <1>1, <3>2 DEF PackInv, BinsHoldDone
    <3>4. PICK k \in DOMAIN bins[h] : B[j][n] = bins[h][k]
      BY <3>3 DEF Range
    <3>5. k \in DOMAIN B[h] /\ B[j][n] = B[h][k]
      BY <1>3, <3>4
    <3>6. j = h /\ n = k
      BY <1>2, <1>3, <3>5 DEF Partition
    <3>. QED
      BY <3>4, <3>6
  <2>2. DOMAIN bins[j] = DOMAIN B[j] /\ \A k \in DOMAIN bins[j] : bins[j][k] = B[j][k]
    BY <1>3, <2>1
  <2>3. bins[j] \in Seq(Tests) /\ B[j] \in Seq(Tests)
    BY <1>1, <1>3
  <2>. QED
    BY <2>2, <2>3
<1>5. bins = [j \in I |-> bins[j]]
  BY <1>1
<1>6. bins = B
  BY <1>2, <1>4, <1>5
<1>. QED
  BY <1>6 DEF B

\* Then the plan is the stored one.
LEMMA AgainIsSame == PackInv /\ AgainInv => ReplayAgrees
<1>. SUFFICES ASSUME PackInv, AgainInv, Planned, stored # NoPlan PROVE plan = stored
  BY DEF ReplayAgrees
<1>1. bins = StoredBins
  BY PackedAgain
<1>2. plan = PlanOf(bins) /\ stored = PlanOf(StoredBins)
  BY DEF AgainInv, PlanIsWhole, StoredIsPlan
<1>. QED
  BY <1>1, <1>2

\* Replay walks through the quarantine lane in its order.
LEMMA ReplayKeepsLane ==
    ASSUME PackInv, Planned, Replay
    PROVE  QuarantineLane' = QuarantineLane
<1>. DEFINE W(t) == {u \in Tests : Walked(u, t)}
            Q(t) == Active \cup {u \in quarantined : position[u] <= position[t]}
<1>1. /\ quarantined' = quarantined /\ quarantined \in SUBSET Tests
      /\ position \in [Tests -> Nat]
      /\ position' = [t \in Tests |-> Cardinality(W(t))]
  BY DEF Replay, PackInv, TypeOK
<1>2. ASSUME NEW t \in quarantined PROVE W(t) = Q(t)
  <2>1. \A j \in DOMAIN bins : \A l \in DOMAIN bins[j] : bins[j][l] # t
    <3>1. \A j \in DOMAIN bins : Range(bins[j]) \subseteq Active
      BY DEF PackInv, BinsHoldDone, Planned
    <3>. QED
      BY <3>1 DEF Range, Active
  <2>2. \A u : Walked(u, t) <=> (u \in quarantined => position[u] <= position[t])
    BY <1>2, <2>1 DEF Walked
  <2>. QED
    BY <1>1, <2>2 DEF Active
<1>3. ASSUME NEW t \in quarantined PROVE IsFiniteSet(Q(t)) /\ Cardinality(Q(t)) \in Nat
  <2>1. Q(t) \in SUBSET Tests
    BY <1>1 DEF Active
  <2>. HIDE DEF Q
  <2>. QED
    BY <2>1, TestsAssumption, FS_Subset, FS_CardinalityType
<1>4. ASSUME NEW t \in quarantined, NEW u \in quarantined
      PROVE  Cardinality(Q(t)) <= Cardinality(Q(u)) <=> position[t] <= position[u]
  <2>1. position[t] \in Nat /\ position[u] \in Nat
    BY <1>1
  <2>2. CASE position[t] <= position[u]
    <3>1. Q(t) \subseteq Q(u)
      BY <1>1, <2>1, <2>2
    <3>. HIDE DEF Q
    <3>2. Cardinality(Q(t)) <= Cardinality(Q(u))
      BY <1>3, <3>1, FS_Subset
    <3>. QED
      BY <2>2, <3>2
  <2>3. CASE position[u] < position[t]
    <3>1. Q(u) \subseteq Q(t)
      BY <1>1, <2>1, <2>3
    <3>2. t \in Q(t) /\ t \notin Q(u)
      BY <1>1, <2>1, <2>3 DEF Active
    <3>. HIDE DEF Q
    <3>3. Cardinality(Q(u)) <= Cardinality(Q(t)) /\ Cardinality(Q(u)) # Cardinality(Q(t))
      BY <1>3, <3>1, <3>2, FS_Subset
    <3>. QED
      BY <1>3, <2>1, <2>3, <3>3
  <2>. QED
    BY <2>1, <2>2, <2>3
<1>5. \A t, u \in quarantined : position'[t] <= position'[u] <=> position[t] <= position[u]
  <2>. HIDE DEF Q, W
  <2>. QED
    BY <1>1, <1>2, <1>4
<1>. HIDE DEF Q, W
<1>. QED
  BY <1>1, <1>5 DEF QuarantineLane

\* A plan is read from the lane of the quarantine and the durations.
LEMMA PlanReads ==
    ASSUME UNCHANGED <<tags, quarantined, hash, c, duration>>, QuarantineLane' = QuarantineLane
    PROVE  /\ \A b : PlanOf(b)' = PlanOf(b)
           /\ UNCHANGED stored => UNCHANGED StoredBins
<1>1. Active' = Active /\ (\A S : Work(S)' = Work(S)) /\ \A n : ShardsFor(n)' = ShardsFor(n)
  BY PackingReads
<1>2. ASSUME NEW b PROVE PlanOf(b)' = PlanOf(b)
  <2>1. [i \in DOMAIN b |-> Work(Range(b[i]))'] = [i \in DOMAIN b |-> Work(Range(b[i]))]
    BY <1>1
  <2>2. Work(Active)' = Work(Active)
    BY <1>1
  <2>. QED
    BY <2>1, <2>2, Zenon DEF PlanOf, Trimmed, Longest
<1>3. UNCHANGED stored => UNCHANGED StoredBins
  BY <1>1 DEF StoredBins
<1>. QED
  BY <1>2, <1>3

\* WorkAdd as a formula, which holds of the next state too.
WorkAdds ==
    duration \in [Tests -> Nat] =>
        \A S \in SUBSET Tests, t \in Tests : t \notin S =>
            Work(S \cup {t}) = Work(S) + duration[t]

\* It does hold.
LEMMA WorkAddsUp == WorkAdds
BY WorkAdd DEF WorkAdds

\* Flooring adds up: of a test that was floored before it changes nothing.
LEMMA AgainFloor ==
    ASSUME PackInv, AgainInv, NEW t \in Tests, FloorTest(t) PROVE AgainInv'
<1>1. /\ phase = "floor" /\ phase' = "floor" /\ t \in todo /\ todo \in SUBSET Active
      /\ Active' = Active /\ Active \in SUBSET Tests /\ todo' = todo \ {t}
      /\ duration \in [Tests -> Nat] /\ duration' \in [Tests -> Nat]
      /\ duration'[t] = Larger(duration[t], Floor)
      /\ \A u \in Tests \ {t} : duration'[u] = duration[u]
      /\ UNCHANGED <<tags, quarantined, hash, c, position, stored>>
  BY NumbersAssumption DEF PackInv, TypeOK, FloorTest, Active, Larger, input
<1>2. HashesDiffer' /\ PackedGreedily' /\ PlanIsWhole'
  BY <1>1 DEF AgainInv, HashesDiffer, PackedGreedily, PlanIsWhole, Planned
<1>3. SumIsWork'
  <2>1. PICK R : R = Active \ todo
    OBVIOUS
  <2>2. R \in SUBSET Tests /\ t \notin R /\ Active' \ todo' = R \cup {t}
    BY <1>1, <2>1
  <2>3. Work(R)' = Work(R)
    <3>1. \A u \in R : duration'[u] = duration[u]
      BY <1>1, <2>2
    <3>2. Units(R)' = Units(R)
      BY <3>1 DEF Units
    <3>. QED
      BY <3>2 DEF Work
  <2>4. Work(R \cup {t})' = Work(R)' + duration'[t]
    <3>1. WorkAdds'
      BY WorkAddsUp, PTL
    <3>. QED
      BY <1>1, <2>2, <3>1 DEF WorkAdds
  <2>5. totalMS = Work(R) /\ totalMS' = totalMS + duration'[t]
    BY <1>1, <2>1 DEF AgainInv, SumIsWork, FloorTest
  <2>. QED
    BY <1>1, <2>2, <2>3, <2>4, <2>5 DEF SumIsWork
<1>4. StoredIsPlan'
  <2>1. CASE stored = NoPlan
    BY <1>1, <2>1 DEF StoredIsPlan
  <2>2. CASE stored # NoPlan
    <3>1. duration[t] >= Floor /\ duration[t] \in Nat
      BY <1>1, <2>2 DEF AgainInv, StoredIsPlan
    <3>2. duration'[t] = duration[t]
      BY <1>1, <3>1, NumbersAssumption DEF Larger
    <3>3. duration' = duration
      BY <1>1, <3>2
    <3>4. QuarantineLane' = QuarantineLane
      BY <1>1 DEF QuarantineLane
    <3>. QED
      BY <1>1, <2>2, <3>3, <3>4, PackingReads, PlanReads DEF AgainInv, StoredIsPlan
  <2>. QED
    BY <2>1, <2>2
<1>. QED
  BY <1>2, <1>3, <1>4 DEF AgainInv

\* Empty bins are greedily packed, and part of any plan.
LEMMA AgainMakeBins == ASSUME PackInv, AgainInv, MakeBins PROVE AgainInv'
<1>1. /\ phase = "floor" /\ phase' = "pack" /\ todo = {} /\ todo' = Active
      /\ Active' = Active
      /\ UNCHANGED <<tags, quarantined, hash, c, duration, position, stored, totalMS, exclusiveBin>>
      /\ \A i \in DOMAIN bins' : bins'[i] = << >>
  BY DEF MakeBins, Active, input
<1>2. \A i \in DOMAIN bins' : DOMAIN bins'[i] = {} /\ Range(bins'[i]) = {}
  BY <1>1 DEF Range
<1>3. HashesDiffer' /\ PlanIsWhole'
  BY <1>1 DEF AgainInv, HashesDiffer, PlanIsWhole, Planned
<1>4. SumIsWork'
  <2>1. totalMS = Work(Active) /\ Work(Active)' = Work(Active)
    <3>1. Active \ todo = Active
      BY <1>1
    <3>2. \A S : Work(S)' = Work(S)
      BY <1>1, PackingReads
    <3>. QED
      BY <1>1, <3>1, <3>2 DEF AgainInv, SumIsWork
  <2>. QED
    BY <1>1, <2>1 DEF SumIsWork
<1>5. PackedGreedily'
  <2>1. InOrder(bins') /\ Greedy(bins')
    BY <1>2 DEF InOrder, Greedy
  <2>2. InOrder(bins)' /\ Greedy(bins)'
    BY <1>1, <2>1, PackingReads
  <2>3. \A x \in Exclusive : exclusiveBin'[x] = NoBin
    BY <1>1 DEF PackInv, TypeOK
  <2>. QED
    BY <1>1, <2>2, <2>3 DEF PackedGreedily
<1>6. StoredIsPlan'
  <2>1. QuarantineLane' = QuarantineLane
    BY <1>1 DEF QuarantineLane
  <2>. QED
    BY <1>1, <1>2, <2>1, PackingReads, PlanReads DEF AgainInv, StoredIsPlan
<1>. QED
  BY <1>3, <1>4, <1>5, <1>6 DEF AgainInv

\* Packing is greedy, and follows the stored plan.
LEMMA AgainPlace ==
    ASSUME PackInv, LoadsAreWork, AgainInv, NEW t \in Tests, NEW i \in DOMAIN bins, Place(t, i)
    PROVE  AgainInv'
<1>. DEFINE I == Indexes(shardCount)
<1>1. /\ phase = "pack" /\ phase' = "pack" /\ Active' = Active
      /\ UNCHANGED <<tags, quarantined, hash, c, duration, position, stored, totalMS>>
      /\ bins \in [I -> Seq(Tests)] /\ DOMAIN bins = I /\ i \in I
      /\ exclusiveBin \in [Exclusive -> DOMAIN bins \cup {NoBin}]
  BY DEF Place, Active, input, PackInv, TypeOK
<1>2. /\ DOMAIN bins' = I /\ bins'[i] = Append(bins[i], t)
      /\ \A j \in I \ {i} : bins'[j] = bins[j]
  BY <1>1 DEF Place
<1>3. /\ DOMAIN bins'[i] = 1 .. Len(bins[i]) + 1 /\ Len(bins[i]) \in Nat
      /\ DOMAIN bins[i] = 1 .. Len(bins[i])
      /\ \A k \in DOMAIN bins[i] : bins'[i][k] = bins[i][k]
      /\ bins'[i][Len(bins[i]) + 1] = t
  BY <1>1, <1>2
<1>4. Range(bins'[i]) = Range(bins[i]) \cup {t}
  BY <1>3 DEF Range
<1>5. HashesDiffer' /\ PlanIsWhole'
  BY <1>1 DEF AgainInv, HashesDiffer, PlanIsWhole, Planned
<1>6. SumIsWork'
  <2>1. Work(Active)' = Work(Active)
    BY <1>1, PackingReads
  <2>. QED
    BY <1>1, <2>1 DEF AgainInv, SumIsWork
<1>7. PackedGreedily'
  <2>1. /\ \A u \in Active \ todo', v \in todo' : Sooner(u, v)
        /\ InOrder(bins') /\ Greedy(bins')
    BY PlaceIsGreedy DEF AgainInv
  <2>2. ASSUME NEW x \in Exclusive, exclusiveBin'[x] # NoBin
        PROVE  \E u \in Range(bins'[exclusiveBin'[x]]) : Tag(u) = x
    <3>1. CASE x = Tag(t)
      <4>1. exclusiveBin'[x] = i
        BY <1>1, <3>1, NothingAssumption DEF Place
      <4>. QED
        BY <1>4, <3>1, <4>1
    <3>2. CASE x # Tag(t)
      <4>1. exclusiveBin'[x] = exclusiveBin[x]
        BY <1>1, <3>2 DEF Place
      <4>2. PICK u \in Range(bins[exclusiveBin[x]]) : Tag(u) = x
        BY <1>1, <2>2, <4>1 DEF AgainInv, PackedGreedily
      <4>3. exclusiveBin[x] \in I
        BY <1>1, <2>2, <4>1
      <4>. QED
        BY <1>2, <1>4, <4>1, <4>2, <4>3
    <3>. QED
      BY <3>1, <3>2
  <2>. QED
    BY <1>1, <2>1, <2>2, PackingReads DEF PackedGreedily
<1>8. StoredIsPlan'
  <2>1. CASE stored = NoPlan
    BY <1>1, <2>1 DEF StoredIsPlan
  <2>2. CASE stored # NoPlan
    <3>1. QuarantineLane' = QuarantineLane
      BY <1>1 DEF QuarantineLane
    <3>2. StoredBins' = StoredBins /\ \A b : PlanOf(b)' = PlanOf(b)
      BY <1>1, <3>1, PlanReads
    <3>3. ASSUME NEW j \in I, NEW k \in DOMAIN bins'[j]
          PROVE  k \in DOMAIN StoredBins[j] /\ bins'[j][k] = StoredBins[j][k]
      <4>1. \A h \in I : \A l \in DOMAIN bins[h] :
               l \in DOMAIN StoredBins[h] /\ bins[h][l] = StoredBins[h][l]
        BY <1>1, <2>2 DEF AgainInv, StoredIsPlan
      <4>2. CASE j # i \/ k # Len(bins[i]) + 1
        BY <1>2, <1>3, <4>1, <4>2
      <4>3. CASE j = i /\ k = Len(bins[i]) + 1
        BY <1>3, <2>2, <4>3, PlaceFollowsStored
      <4>. QED
        BY <4>2, <4>3
    <3>4. /\ \A u \in Active : duration[u] >= Floor
          /\ \A j \in DOMAIN StoredBins : StoredBins[j] \in Seq(Tests)
          /\ Partition(StoredBins) /\ InOrder(StoredBins) /\ Greedy(StoredBins)
          /\ stored = PlanOf(StoredBins)
      BY <2>2 DEF AgainInv, StoredIsPlan
    <3>5. (Partition(StoredBins) /\ InOrder(StoredBins) /\ Greedy(StoredBins))'
      BY <1>1, <3>2, <3>4, PackingReads
    <3>. QED
      BY <1>1, <1>2, <3>2, <3>3, <3>4, <3>5 DEF StoredIsPlan
  <2>. QED
    BY <2>1, <2>2
<1>. QED
  BY <1>5, <1>6, <1>7, <1>8 DEF AgainInv

\* The plan returned is the plan of the bins.
LEMMA AgainReturn == ASSUME PackInv, LoadsAreWork, AgainInv, Return PROVE AgainInv'
<1>1. /\ phase = "pack" /\ phase' = "planned" /\ bins' = bins
      /\ UNCHANGED <<tags, quarantined, hash, c, duration, position, stored, totalMS,
                     todo, load, exclusiveBin>>
  BY ReturnKeepsBins DEF Return, input
<1>2. QuarantineLane' = QuarantineLane /\ Active' = Active
  BY <1>1 DEF QuarantineLane, Active
<1>3. HashesDiffer' /\ SumIsWork'
  BY <1>1, <1>2, PackingReads DEF AgainInv, HashesDiffer, SumIsWork
<1>4. PackedGreedily'
  BY <1>1, PackingReads DEF AgainInv, PackedGreedily
<1>5. StoredIsPlan'
  BY <1>1, <1>2, PackingReads, PlanReads DEF AgainInv, StoredIsPlan
<1>6. plan' = PlanOf(bins)
  <2>. DEFINE loads == [i \in DOMAIN bins |-> Work(Range(bins[i]))]
  <2>1. load = loads
    <3>1. load \in [DOMAIN bins -> Nat]
      BY <1>1 DEF PackInv, TypeOK
    <3>2. \A i \in DOMAIN bins : load[i] = loads[i]
      BY <1>1 DEF LoadsAreWork
    <3>. QED
      BY <3>1, <3>2
  <2>2. totalMS = Work(Active)
    BY <1>1 DEF AgainInv, SumIsWork
  <2>3. plan' = [Assignments      |-> [i \in Indexes(Trimmed(bins)) |-> bins[i]],
                 Durations        |-> [i \in Indexes(Trimmed(bins)) |-> load[i]],
                 QuarantineLane   |-> QuarantineLane,
                 TotalPredictedMS |-> totalMS,
                 Makespan         |-> Longest(load)]
    BY <1>1 DEF Return, Kept, makespan
  <2>4. PlanOf(bins) = [Assignments      |-> [i \in Indexes(Trimmed(bins)) |-> bins[i]],
                        Durations        |-> [i \in Indexes(Trimmed(bins)) |-> loads[i]],
                        QuarantineLane   |-> QuarantineLane,
                        TotalPredictedMS |-> Work(Active),
                        Makespan         |-> Longest(loads)]
    BY DEF PlanOf
  <2>. HIDE DEF loads
  <2>. QED
    BY <2>1, <2>2, <2>3, <2>4
<1>7. PlanIsWhole'
  BY <1>1, <1>2, <1>6, PlanReads DEF PlanIsWhole
<1>. QED
  BY <1>3, <1>4, <1>5, <1>7 DEF AgainInv

\* The stored plan is the plan of the bins it was packed in.
LEMMA AgainReplay == ASSUME PackInv, AgainInv, Replay PROVE AgainInv'
<1>1. /\ Planned /\ phase' = "floor" /\ todo' = Active /\ totalMS' = 0 /\ todo = {}
      /\ stored' = plan /\ UNCHANGED <<tags, quarantined, hash, c, duration>>
      /\ phase # "floor"
  BY DEF Replay, Planned, loadPlan, PackInv, PlannedIsDone
<1>2. Active' = Active /\ QuarantineLane' = QuarantineLane
  BY <1>1, ReplayKeepsLane DEF Active
<1>3. HashesDiffer' /\ PackedGreedily' /\ PlanIsWhole'
  BY <1>1, <1>2 DEF AgainInv, HashesDiffer, PackedGreedily, PlanIsWhole, Planned
<1>4. SumIsWork'
  <2>1. Active' \ todo' = {} /\ Work({}) = 0 /\ Work({})' = Work({})
    BY <1>1, <1>2, PackingReads, WorkOfFew DEF PackInv, TypeOK
  <2>. QED
    BY <1>1, <2>1 DEF SumIsWork
<1>5. StoredBins' = bins
  <2>. DEFINE I == Indexes(shardCount)
  <2>1. ShardsFor(Work(Active))' = shardCount
    BY <1>1, <1>2, PackingReads DEF AgainInv, SumIsWork, shardCount
  <2>2. bins \in [I -> Seq(Tests)] /\ DOMAIN bins = I /\ shardCount \in Nat
    BY <1>1, ShardCountType DEF PackInv, TypeOK
  <2>3. /\ Kept \in 1 .. shardCount
        /\ \A i \in DOMAIN bins : i >= Kept => bins[i] = << >>
    BY <1>1, KeptType
  <2>4. plan.Assignments = [i \in Indexes(Kept) |-> bins[i]]
    BY <1>1 DEF PackInv, PlanIsBins
  <2>5. ASSUME NEW i \in I
        PROVE  (IF i \in DOMAIN plan.Assignments THEN plan.Assignments[i] ELSE << >>) = bins[i]
    <3>1. i \in Indexes(Kept) \/ i >= Kept
      BY <2>2, <2>3 DEF Indexes
    <3>. QED
      BY <2>2, <2>3, <2>4, <3>1
  <2>6. StoredBins' = [i \in I |-> IF i \in DOMAIN plan.Assignments
                                    THEN plan.Assignments[i] ELSE << >>]
    BY <1>1, <2>1 DEF StoredBins
  <2>7. StoredBins' = [i \in I |-> bins[i]]
    BY <2>5, <2>6
  <2>. QED
    BY <2>2, <2>7
<1>6. Partition(bins)
  <2>1. \A i \in DOMAIN bins : Range(bins[i]) \subseteq Active
    BY <1>1 DEF PackInv, BinsHoldDone
  <2>2. \A t \in Active : \E i \in DOMAIN bins : t \in Range(bins[i])
    BY <1>1 DEF PackInv, BinsHoldDone
  <2>3. \A i, j \in DOMAIN bins : \A k \in DOMAIN bins[i], l \in DOMAIN bins[j] :
           bins[i][k] = bins[j][l] => i = j /\ k = l
    BY DEF PackInv, PlacedOnce
  <2>. QED
    BY <2>1, <2>2, <2>3, Zenon DEF Partition
<1>7. InOrder(bins) /\ Greedy(bins) /\ plan = PlanOf(bins)
  BY <1>1 DEF AgainInv, PackedGreedily, PlanIsWhole
<1>8. /\ \A t \in Active : duration[t] >= Floor
      /\ \A i \in DOMAIN bins : bins[i] \in Seq(Tests)
  BY <1>1 DEF PackInv, Floored, TypeOK
<1>9. StoredIsPlan'
  <2>1. (Partition(StoredBins) /\ InOrder(StoredBins) /\ Greedy(StoredBins))'
    BY <1>1, <1>5, <1>6, <1>7, PackingReads
  <2>2. stored' = PlanOf(StoredBins)'
    BY <1>1, <1>2, <1>5, <1>7, PlanReads
  <2>. QED
    BY <1>1, <1>2, <1>5, <1>8, <2>1, <2>2 DEF StoredIsPlan
<1>. QED
  BY <1>3, <1>4, <1>9 DEF AgainInv

\* One step per action.
LEMMA AgainStep == BoundInv /\ AgainInv /\ [Next]_vars => AgainInv'
<1>. SUFFICES ASSUME BoundInv, AgainInv, [Next]_vars PROVE AgainInv'
  OBVIOUS
<1>. USE DEF BoundInv
<1>1. CASE UNCHANGED vars
  <2>1. UNCHANGED <<tags, quarantined, hash, c, position, duration, phase, todo, totalMS,
                    bins, exclusiveBin, plan, stored>>
    BY <1>1 DEF vars, input
  <2>2. QuarantineLane' = QuarantineLane /\ Active' = Active
    BY <2>1 DEF QuarantineLane, Active
  <2>3. HashesDiffer' /\ SumIsWork'
    BY <2>1, <2>2, PackingReads DEF AgainInv, HashesDiffer, SumIsWork
  <2>4. PackedGreedily'
    BY <2>1, PackingReads DEF AgainInv, PackedGreedily
  <2>5. StoredIsPlan' /\ PlanIsWhole'
    BY <2>1, <2>2, PackingReads, PlanReads DEF AgainInv, StoredIsPlan, PlanIsWhole, Planned
  <2>. QED
    BY <2>3, <2>4, <2>5 DEF AgainInv
<1>. QED
  BY <1>1, AgainFloor, AgainMakeBins, AgainPlace, AgainReturn, AgainReplay DEF Next

-----------------------------------------------------------------------------
(* The packing behind a predictor.                                         *)

\* Until the durations are there PlanFunc has not begun; then it packs.
PlanningInv ==
    /\ stage \in {"ask", "fallback", "model", "history"}
    /\ PackInv
    /\ stage \in {"ask", "fallback"} => Started

\* Nothing is placed before the predictor has answered.
LEMMA PlanningStart == PlanningInit => PlanningInv
<1>. SUFFICES ASSUME PlanningInit PROVE PlanningInv
  OBVIOUS
<1>1. Started
  BY NumbersAssumption DEF PlanningInit, Init, Started
<1>. QED
  BY <1>1, PackStart DEF PlanningInit, PlanningInv

\* Predicted durations leave the rest of the start as it is.
LEMMA PredictionStarts ==
    ASSUME Started, NEW d \in [Tests -> Nat], UseDurations(d)
    PROVE  Started' /\ PackInv'
<1>1. Started'
  BY DEF Started, UseDurations, Active, input
<1>2. (Started => PackInv)'
  BY PackStart, PTL
<1>. QED
  BY <1>1, <1>2

\* The ML service answers with durations, or the heuristic is asked.
LEMMA AskStep == ASSUME PlanningInv, AskPredictor PROVE PlanningInv'
<1>1. Started
  BY DEF AskPredictor, PlanningInv
<1>2. CASE MLPredict
  <2>1. PICK d \in [Tests -> Durations] : UseDurations(d) /\ stage' = "model"
    BY <1>2 DEF MLPredict
  <2>2. d \in [Tests -> Nat]
    BY NumbersAssumption
  <2>. QED
    BY <1>1, <2>1, <2>2, PredictionStarts DEF PlanningInv
<1>3. CASE Fallback
  <2>1. PackInv'
    BY <1>3, PackStep DEF Fallback, PlanningInv
  <2>2. Started' /\ stage' = "fallback"
    BY <1>1, <1>3 DEF Fallback, Started, vars, input, Active
  <2>. QED
    BY <2>1, <2>2 DEF PlanningInv
<1>. QED
  BY <1>2, <1>3 DEF AskPredictor

\* Cold starts and percentiles of the history are natural numbers too.
LEMMA HeuristicStep ==
    ASSUME PlanningInv, NEW h \in Histories, Heuristic(h) PROVE PlanningInv'
<1>1. Started /\ stage' = "history"
  BY DEF Heuristic, PlanningInv
<1>2. [t \in Tests |-> Predicted(h, t)] \in [Tests -> Nat] /\ coldOnly \in [Tests -> Nat]
  BY PlanningAssumption DEF Predicted, coldOnly
<1>3. PackInv'
  BY <1>1, <1>2, PredictionStarts DEF Heuristic
<1>. QED
  BY <1>1, <1>3 DEF PlanningInv

\* Prediction and packing keep the invariant, in whichever order the service
\* fails, answers or is not there.
THEOREM PlanningInvariant == PlanningSpec => []PlanningInv
<1>1. PlanningInv /\ [PlanningNext]_planningVars => PlanningInv'
  <2>. SUFFICES ASSUME PlanningInv, [PlanningNext]_planningVars PROVE PlanningInv'
    OBVIOUS
  <2>1. CASE PlanStep
    BY <2>1, PackStep DEF PlanStep, PlanningInv
  <2>2. CASE UNCHANGED planningVars
    <3>1. UNCHANGED vars /\ stage' = stage
      BY <2>2 DEF planningVars
    <3>2. PackInv' /\ (Started => Started')
      BY <3>1, PackStep DEF PlanningInv, Started, vars, input, Active
    <3>. QED
      BY <3>1, <3>2 DEF PlanningInv
  <2>. QED
    BY <2>1, <2>2, AskStep, HeuristicStep DEF PlanningNext
<1>. QED
  BY <1>1, PlanningStart, PTL DEF PlanningSpec

\* Whatever predicted the durations, the plan runs every active test in one
\* shard, once, and no quarantined one.
THEOREM PlannedFromAnyPrediction == PlanningSpec => []EveryTestPlannedOnce
<1>1. PlanningInv => EveryTestPlannedOnce
  BY PackIsPartition DEF PlanningInv
<1>. QED
  BY <1>1, PlanningInvariant, PTL

\* Whatever predicted the durations, no shard of the plan is empty.
THEOREM NoneEmptyFromAnyPrediction == PlanningSpec => []NoEmptyShard
<1>1. PlanningInv => NoEmptyShard
  BY PackLeavesNoneEmpty DEF PlanningInv
<1>. QED
  BY <1>1, PlanningInvariant, PTL

\* The predictor's steps leave PlanFunc where it starts.
LEMMA PredictorStarts ==
    ASSUME PlanningInv, AskPredictor \/ \E h \in Histories : Heuristic(h)
    PROVE  Started' /\ quarantined' = quarantined /\ hash' = hash
<1>1. Started
  BY DEF AskPredictor, Heuristic, PlanningInv
<1>2. CASE UNCHANGED vars
  BY <1>1, <1>2 DEF Started, vars, input, Active
<1>3. ASSUME NEW d \in [Tests -> Nat], UseDurations(d)
      PROVE  Started' /\ quarantined' = quarantined /\ hash' = hash
  BY <1>1, <1>3, PredictionStarts DEF UseDurations, input
<1>4. CASE AskPredictor
  <2>1. [Tests -> Durations] \subseteq [Tests -> Nat]
    BY NumbersAssumption
  <2>. QED
    BY <1>2, <1>3, <1>4, <2>1 DEF AskPredictor, MLPredict, Fallback
<1>5. ASSUME NEW h \in Histories, Heuristic(h)
      PROVE  Started' /\ quarantined' = quarantined /\ hash' = hash
  <2>1. [t \in Tests |-> Predicted(h, t)] \in [Tests -> Nat] /\ coldOnly \in [Tests -> Nat]
    BY PlanningAssumption DEF Predicted, coldOnly
  <2>. QED
    BY <1>3, <1>5, <2>1 DEF Heuristic
<1>. QED
  BY <1>4, <1>5

\* The bound holds behind the predictor.
LEMMA PlanningBound == PlanningSpec => []BoundInv
<1>1. PlanningInv /\ phase = "floor" => BoundInv
  BY DEF PlanningInv, BoundInv, LoadsAreWork, BoundSoFar, Planned
<1>2. PlanningInit => BoundInv
  BY <1>1, PlanningStart DEF PlanningInit, Init
<1>3. PlanningInv /\ PlanningInv' /\ BoundInv /\ [PlanningNext]_planningVars => BoundInv'
  <2>. SUFFICES ASSUME PlanningInv, PlanningInv', BoundInv, [PlanningNext]_planningVars
                PROVE  BoundInv'
    OBVIOUS
  <2>1. CASE PlanStep \/ UNCHANGED planningVars
    BY <2>1, BoundStep DEF PlanStep, planningVars
  <2>2. CASE AskPredictor \/ \E h \in Histories : Heuristic(h)
    <3>1. phase' = "floor" /\ PackInv'
      BY <2>2, PredictorStarts DEF Started, PlanningInv
    <3>. QED
      BY <3>1 DEF BoundInv, LoadsAreWork, BoundSoFar, Planned
  <2>. QED
    BY <2>1, <2>2 DEF PlanningNext
<1>. QED
  BY <1>2, <1>3, PlanningInvariant, PTL DEF PlanningSpec

\* PlanFunc's comment claims Graham's bound for longest-processing-time-first
\* packing: without exclusive tags no shard gets more than 4/3 - 1/(3m) of what
\* the best assignment to m shards gives its longest one.  It holds for every
\* manifest and for whatever durations were predicted.
THEOREM BoundFromAnyPrediction == PlanningSpec => []GrahamBound
  BY PlanningBound, BoundOfPlan, PTL

\* A start is the start of a plan that can be made again.
LEMMA AgainStart == Started /\ HashesDiffer => AgainInv
<1>. SUFFICES ASSUME Started, HashesDiffer PROVE AgainInv
  OBVIOUS
<1>1. Active \ todo = {} /\ duration \in [Tests -> Nat]
  BY DEF Started
<1>2. SumIsWork
  BY <1>1, WorkOfFew DEF Started, SumIsWork
<1>. QED
  BY <1>2 DEF Started, AgainInv, PackedGreedily, PlanIsWhole, Planned, StoredIsPlan

\* `teo replay` comes to the plan it was given, for every manifest, all
\* constraints and whatever durations were predicted: what Replay changes is the
\* order of the tests, which the packing does not see as long as stableHash
\* tells the active tests apart.
THEOREM ReplayFromAnyPrediction == PlanningSpec /\ HashesDiffer => []ReplayAgrees
<1>1. PlanningInit /\ HashesDiffer => AgainInv
  BY AgainStart, NumbersAssumption DEF PlanningInit, Init, Started
<1>2. PlanningInv /\ BoundInv /\ AgainInv /\ [PlanningNext]_planningVars => AgainInv'
  <2>. SUFFICES ASSUME PlanningInv, BoundInv, AgainInv, [PlanningNext]_planningVars
                PROVE  AgainInv'
    OBVIOUS
  <2>1. CASE PlanStep \/ UNCHANGED planningVars
    BY <2>1, AgainStep DEF PlanStep, planningVars
  <2>2. CASE AskPredictor \/ \E h \in Histories : Heuristic(h)
    <3>1. Started' /\ HashesDiffer'
      BY <2>2, PredictorStarts DEF AgainInv, HashesDiffer, Active
    <3>2. (Started /\ HashesDiffer => AgainInv)'
      BY AgainStart, PTL
    <3>. QED
      BY <3>1, <3>2
  <2>. QED
    BY <2>1, <2>2 DEF PlanningNext
<1>3. BoundInv => PackInv
  BY DEF BoundInv
<1>. QED
  BY <1>1, <1>2, <1>3, PlanningInvariant, PlanningBound, AgainIsSame, PTL DEF PlanningSpec
=============================================================================
