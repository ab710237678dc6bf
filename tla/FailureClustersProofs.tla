----------------------- MODULE FailureClustersProofs -----------------------
(***************************************************************************)
(* A link is of its execution's own trace, is never replaced, and a pass   *)
(* that ends without errors leaves none of the failures it owes one        *)
(* unlinked; a cluster counts no more failures than were delivered to it.  *)
(* Proved for any batches and reports, any number of overlapping passes,   *)
(* any page size and any fingerprints.                                     *)
(***************************************************************************)
EXTENDS FailureClusters, FiniteSetTheorems, WellFoundedInduction, TLAPS

-----------------------------------------------------------------------------
(* Sets of executions.                                                     *)

\* A set of numbers that is not empty has a least one.
LEMMA LeastNumber ==
    ASSUME NEW S \in SUBSET Nat, S # {}
    PROVE  \E m \in S : \A n \in S : m <= n
<1>1. PICK m \in S : \A n \in S : ~ (<<n, m>> \in OpToRel(<, Nat))
  BY NatLessThanWellFounded, WFMin, Zenon
<1>2. \A n \in S : ~ (n < m)
  BY <1>1 DEF OpToRel
<1>. QED
  BY <1>2

\* The row a pass is at is one of its rows.
LEMMA FirstIsRow ==
    ASSUME NEW S \in SUBSET Execs, S # {} PROVE First(S) \in S
BY LeastNumber, ClustersAssumption DEF First

\* A finite set of numbers that is not empty has a greatest one: the one with
\* the fewest above it.
LEMMA GreatestNumber ==
    ASSUME NEW S \in SUBSET Nat, S # {}, IsFiniteSet(S)
    PROVE  \E m \in S : \A n \in S : n <= m
<1>. DEFINE Above(m) == {n \in S : m < n}
            Sizes == {Cardinality(Above(m)) : m \in S}
<1>1. \A m \in S : IsFiniteSet(Above(m)) /\ Cardinality(Above(m)) \in Nat
  <2>. TAKE m \in S
  <2>1. Above(m) \in SUBSET S
    OBVIOUS
  <2>2. IsFiniteSet(Above(m))
    BY <2>1, FS_Subset
  <2>. QED
    BY <2>2, FS_CardinalityType
<1>2. Sizes \in SUBSET Nat /\ Sizes # {}
  BY <1>1
<1>3. PICK k \in Sizes : \A n \in Sizes : k <= n
  <2>. HIDE DEF Sizes
  <2>. QED
    BY <1>2, LeastNumber
<1>4. PICK m \in S : k = Cardinality(Above(m))
  OBVIOUS
<1>5. ASSUME NEW n \in S, m < n PROVE FALSE
  <2>0. m \in Nat /\ n \in Nat /\ \A o \in S : o \in Nat
    OBVIOUS
  <2>1. Above(n) \subseteq Above(m) /\ n \in Above(m) /\ n \notin Above(n)
    <3>1. \A o \in S : n < o => m < o
      BY <1>5, <2>0
    <3>2. ~ (n < n)
      BY <2>0
    <3>. QED
      BY <1>5, <3>1, <3>2
  <2>2. Cardinality(Above(n)) < Cardinality(Above(m))
    <3>1. Above(n) # Above(m) /\ Above(n) \in SUBSET Above(m)
      BY <2>1
    <3>2. IsFiniteSet(Above(m))
      BY <1>1
    <3>3. Cardinality(Above(n)) \in Nat /\ Cardinality(Above(m)) \in Nat
      BY <1>1
    <3>. HIDE DEF Above
    <3>4. /\ Cardinality(Above(n)) <= Cardinality(Above(m))
          /\ Cardinality(Above(n)) # Cardinality(Above(m))
      BY <3>1, <3>2, FS_Subset
    <3>. QED
      BY <3>3, <3>4
  <2>3. Cardinality(Above(n)) \in Sizes
    OBVIOUS
  <2>4. Cardinality(Above(m)) <= Cardinality(Above(n))
    BY <1>3, <1>4, <2>3
  <2>5. Cardinality(Above(n)) \in Nat /\ Cardinality(Above(m)) \in Nat
    BY <1>1
  <2>. HIDE DEF Above
  <2>. QED
    BY <2>2, <2>4, <2>5
<1>. QED
  BY <1>5

\* The first rows of a set, up to a number of them: all if they are fewer than
\* that, and otherwise everything left out is above the last of them.
LEMMA Paging ==
    ASSUME NEW S \in SUBSET Execs, NEW n \in Nat \ {0}
    PROVE  LET page == {e \in S : Cardinality({o \in S : o <= e}) <= n} IN
           /\ Cardinality(page) \in Nat
           /\ Cardinality(page) < n => page = S
           /\ Cardinality(page) >= n =>
                LET last == CHOOSE e \in page : \A o \in page : o <= e IN
                last \in page /\ \A e \in S \ page : last < e
<1>. DEFINE UpTo(e) == {o \in S : o <= e}
            page == {e \in S : Cardinality(UpTo(e)) <= n}
<1>0. S \in SUBSET Nat /\ IsFiniteSet(S) /\ page \in SUBSET S /\ IsFiniteSet(page)
      /\ page \in SUBSET Nat
  <2>1. S \in SUBSET Nat /\ page \in SUBSET S /\ page \in SUBSET Nat
    BY ClustersAssumption
  <2>2. IsFiniteSet(S)
    BY ClustersAssumption, FS_Subset
  <2>3. IsFiniteSet(page)
    <3>. HIDE DEF page
    <3>. QED BY <2>1, <2>2, FS_Subset
  <2>. QED
    BY <2>1, <2>2, <2>3
<1>1. \A e \in S : /\ UpTo(e) \in SUBSET S /\ IsFiniteSet(UpTo(e))
                   /\ Cardinality(UpTo(e)) \in Nat
  <2>. TAKE e \in S
  <2>1. UpTo(e) \in SUBSET S
    OBVIOUS
  <2>. HIDE DEF UpTo
  <2>2. IsFiniteSet(UpTo(e))
    BY <1>0, <2>1, FS_Subset
  <2>. QED
    BY <2>1, <2>2, FS_CardinalityType
<1>2. Cardinality(page) \in Nat
  <2>. HIDE DEF page
  <2>. QED
    BY <1>0, FS_CardinalityType
<1>3. \A x \in page : \A e \in S \ page : x < e
  <2>. SUFFICES ASSUME NEW x \in page, NEW e \in S \ page, ~ (x < e) PROVE FALSE
    OBVIOUS
  <2>0. x \in Nat /\ e \in Nat /\ e <= x /\ \A o \in S : o \in Nat
    BY <1>0
  <2>1. UpTo(e) \subseteq UpTo(x)
    <3>1. \A o \in S : o <= e => o <= x
      BY <2>0
    <3>. QED
      BY <3>1
  <2>2. Cardinality(UpTo(e)) <= Cardinality(UpTo(x))
    <3>1. x \in S
      OBVIOUS
    <3>. HIDE DEF UpTo, page
    <3>. QED
      BY <1>1, <2>1, <3>1, FS_Subset
  <2>. QED
    BY <1>1, <2>2
<1>4. ASSUME Cardinality(page) < n, page # S PROVE FALSE
  <2>1. PICK e \in S \ page : \A o \in S \ page : e <= o
    <3>1. S \ page \in SUBSET Nat /\ S \ page # {}
      BY <1>0, <1>4
    <3>. HIDE DEF page
    <3>. QED
      BY <3>1, LeastNumber
  <2>2. UpTo(e) = page \cup {e}
    <3>1. e \in Nat /\ \A o \in S : o \in Nat
      BY <1>0
    <3>2. \A o \in S : o <= e <=> (o \in page \/ o = e)
      <4>. HIDE DEF page
      <4>. QED BY <1>0, <1>3, <2>1, <3>1
    <3>. HIDE DEF page
    <3>. QED
      BY <1>0, <3>2
  <2>3. Cardinality(page \cup {e}) = Cardinality(page) + 1
    <3>. HIDE DEF page
    <3>. QED
      BY <1>0, FS_AddElement
  <2>4. ~ (Cardinality(UpTo(e)) <= n)
    OBVIOUS
  <2>. HIDE DEF page, UpTo
  <2>. QED
    BY <1>2, <1>4, <2>2, <2>3, <2>4
<1>5. ASSUME Cardinality(page) >= n
      PROVE  \E e \in page : \A o \in page : o <= e
  <2>1. page # {}
    <3>. HIDE DEF page
    <3>. QED
      BY <1>5, FS_EmptySet
  <2>. HIDE DEF page
  <2>. QED
    BY <1>0, <2>1, GreatestNumber
<1>. QED
  BY <1>2, <1>3, <1>4, <1>5

-----------------------------------------------------------------------------
(* What the steps of a pass, and of others, leave of what holds of it.     *)

\* A pass at rest, and one that has ended, holds nothing.
LEMMA IdlePass ==
    /\ Idle \in PassStates
    /\ \A x, all, sn : PassOK(Idle, x, all, sn)
<1>1. Unread \in Answers
  BY DEF Unread, Answers
<1>2. Idle \in PassStates
  BY <1>1, ClustersAssumption DEF Idle, PassStates
<1>. QED
  BY <1>2 DEF Idle, PassOK, Caches, Queue, Owed, Unread, Empty

\* A pass that has met no error ends well if what it owes is linked.
LEMMA EndedPass ==
    ASSUME NEW r \in PassStates, NEW x, NEW all, NEW sn,
           r.errors \/ \A e \in r.want : x[e].link # NoCluster
    PROVE  Ended(r) \in PassStates /\ PassOK(Ended(r), x, all, sn)
<1>. DEFINE w == IF r.errors THEN {} ELSE r.want
<1>1. w \in SUBSET Execs /\ \A e \in w : x[e].link # NoCluster
  BY DEF PassStates
<1>. HIDE DEF w
<1>2. Ended(r) = [Idle EXCEPT !.pc = "done", !.want = w]
  BY DEF Ended, w
<1>3. Idle \in PassStates /\ Caches(Idle, sn) /\ Queue(Idle, x)
  BY IdlePass DEF PassOK
<1>4. Ended(r) \in PassStates
  BY <1>1, <1>2, <1>3 DEF PassStates
<1>5. /\ Ended(r).pc = "done" /\ Ended(r).want = w /\ Ended(r).todo = {}
      /\ Ended(r).stacks = Idle.stacks /\ Ended(r).cids = Idle.cids
  BY <1>2 DEF Idle
<1>6. Caches(Ended(r), sn)
  BY <1>3, <1>5 DEF Caches
<1>7. Queue(Ended(r), x) /\ Owed(Ended(r), x, all)
  BY <1>1, <1>5 DEF Queue, Owed
<1>. QED
  BY <1>4, <1>6, <1>7 DEF PassOK

\* A pass goes on to its next row, or ends, once the row it is at is linked, is
\* not owed a link, or has met an error.
LEMMA RowDone ==
    ASSUME NEW r \in PassStates, NEW x \in [Execs -> Rows], NEW all, NEW sn, NEW e,
           r.pc \in {"rows", "cluster", "assign"}, e \in r.todo,
           \A o \in r.todo : x[o].there /\ x[o].trace # NoTrace,
           Caches(r, sn), Owed(r, x, all),
           r.errors \/ (e \in r.want => x[e].link # NoCluster)
    PROVE  NextRow(r, e) \in PassStates /\ PassOK(NextRow(r, e), x, all, sn)
<1>1. CASE r.todo = {e}
  <2>1. r.errors \/ \A o \in r.want : x[o].link # NoCluster
    BY <1>1 DEF Owed
  <2>. QED
    BY <1>1, <2>1, EndedPass DEF NextRow
<1>2. CASE r.todo # {e}
  <2>. DEFINE n == [r EXCEPT !.pc = "rows", !.todo = r.todo \ {e}]
  <2>1. NextRow(r, e) = n
    BY <1>2 DEF NextRow
  <2>2. /\ n \in PassStates /\ n.pc = "rows" /\ n.todo = r.todo \ {e} /\ n.todo # {}
        /\ n.dry = r.dry /\ n.since = r.since /\ n.stacks = r.stacks /\ n.cids = r.cids
        /\ n.errors = r.errors /\ n.want = r.want
    BY <1>2 DEF PassStates
  <2>. HIDE DEF n
  <2>3. Caches(n, sn)
    BY <2>2 DEF Caches
  <2>4. Queue(n, x)
    BY <2>2 DEF Queue
  <2>5. Owed(n, x, all)
    <3>1. n.dry => n.want = {}
      BY <2>2 DEF Owed
    <3>2. \A t \in Traces : n.stacks[t].got = "error" => n.errors
      BY <2>2 DEF Owed
    <3>3. ASSUME NEW o \in n.want
          PROVE  /\ Qualifies(n, o, x, all)
                 /\ n.errors \/ x[o].link # NoCluster \/ o \in n.todo
      BY <2>2, <3>3 DEF Owed, Qualifies
    <3>. QED
      BY <2>2, <3>1, <3>2, <3>3 DEF Owed
  <2>. QED
    BY <2>1, <2>2, <2>3, <2>4, <2>5 DEF PassOK
<1>. QED
  BY <1>1, <1>2

\* What two tables of executions agree on when the second is later.
Later(x, y) ==
    \A e \in Execs :
        /\ x[e].there => /\ y[e].there /\ y[e].trace = x[e].trace
                         /\ y[e].outcome = x[e].outcome /\ y[e].old = x[e].old
        /\ x[e].link # NoCluster => y[e].link = x[e].link

\* Rows that are inserted or linked meanwhile do a pass no harm.
LEMMA TableGrows ==
    ASSUME NEW x \in [Execs -> Rows], NEW y \in [Execs -> Rows], Later(x, y),
           NEW r \in PassStates, NEW all, NEW sn, PassOK(r, x, all, sn)
    PROVE  PassOK(r, y, all, sn)
<1>0. r.todo \in SUBSET Execs /\ r.want \in SUBSET Execs
  BY DEF PassStates
<1>1. Queue(r, y)
  <2>1. \A e \in r.todo : /\ y[e].there /\ y[e].trace # NoTrace
                          /\ y[e].trace = x[e].trace
    BY <1>0 DEF PassOK, Queue, Later
  <2>2. r.todo # {} => y[First(r.todo)].trace = x[First(r.todo)].trace
    BY <1>0, <2>1, FirstIsRow
  <2>. QED
    BY <2>1, <2>2 DEF PassOK, Queue
<1>2. Owed(r, y, all)
  <2>1. ASSUME NEW e \in r.want, Qualifies(r, e, x, all) PROVE Qualifies(r, e, y, all)
    BY <1>0, <2>1 DEF Later, Qualifies
  <2>2. \A e \in r.want : x[e].link # NoCluster => y[e].link # NoCluster
    BY <1>0 DEF Later
  <2>. QED
    BY <2>1, <2>2 DEF PassOK, Owed
<1>. QED
  BY <1>1, <1>2 DEF PassOK

\* Nor does what is seen of other exports.
LEMMA SeenGrows ==
    ASSUME NEW r, NEW x, NEW all, NEW sn, NEW sm, PassOK(r, x, all, sn),
           \A t \in Traces : sn[t] \subseteq sm[t]
    PROVE  PassOK(r, x, all, sm)
BY DEF PassOK, Caches

\* Nor do spans that arrive or expire, once what it owes is adjusted.
LEMMA SpansMove ==
    ASSUME NEW r \in PassStates, NEW x, NEW all, NEW sn, PassOK(r, x, all, sn),
           NEW new
    PROVE  LET q == [r EXCEPT !.want = {e \in @ : HasStack(new, x[e].trace)}] IN
           q \in PassStates /\ PassOK(q, x, new, sn)
<1>. DEFINE w == {e \in r.want : HasStack(new, x[e].trace)}
            q == [r EXCEPT !.want = w]
<1>1. w \in SUBSET r.want /\ w \in SUBSET Execs /\ \A e \in w : HasStack(new, x[e].trace)
  BY DEF PassStates
<1>. HIDE DEF w
<1>2. /\ q \in PassStates /\ q.want = w /\ q.pc = r.pc /\ q.todo = r.todo
      /\ q.dry = r.dry /\ q.since = r.since /\ q.stacks = r.stacks /\ q.cids = r.cids
      /\ q.errors = r.errors /\ q.cursor = r.cursor
  BY <1>1 DEF PassStates
<1>. HIDE DEF q
<1>3. Caches(q, sn)
  BY <1>2 DEF PassOK, Caches
<1>4. Queue(q, x)
  BY <1>2 DEF PassOK, Queue
<1>5. Owed(q, x, new)
  <2>1. ASSUME NEW e \in w, Qualifies(r, e, x, all) PROVE Qualifies(q, e, x, new)
    BY <1>1, <1>2, <2>1 DEF Qualifies
  <2>. QED
    BY <1>1, <1>2, <2>1 DEF PassOK, Owed
<1>6. q \in PassStates /\ PassOK(q, x, new, sn)
  BY <1>2, <1>3, <1>4, <1>5 DEF PassOK
<1>. QED
  BY <1>6 DEF q, w

-----------------------------------------------------------------------------
(* The steps.                                                              *)

\* The counters stay within their bounds, and counts are numbers.
LEMMA Counting ==
    ASSUME StoresTyped
    PROVE  /\ Fault => faults' \in 0..FaultLimit
           /\ Delivery => deliveries' \in 0..MaxDeliveries
           /\ \A f : UpsertCluster(f) \in [Fingerprints -> Nat]
           /\ \A f : ClusterFor(f) \in [Fingerprints -> Nat]
<1>1. FaultLimit \in Nat /\ MaxDeliveries \in Nat
  BY ClustersAssumption
<1>2. /\ Fault => faults' \in 0..FaultLimit
      /\ Delivery => deliveries' \in 0..MaxDeliveries
  BY <1>1 DEF StoresTyped, Fault, Delivery
<1>3. ASSUME NEW f PROVE UpsertCluster(f) \in [Fingerprints -> Nat]
  <2>1. CASE f \in Fingerprints
    BY <2>1 DEF StoresTyped, UpsertCluster
  <2>2. CASE f \notin Fingerprints
    BY <2>2 DEF StoresTyped, UpsertCluster
  <2>. QED
    BY <2>1, <2>2
<1>4. ASSUME NEW f PROVE ClusterFor(f) \in [Fingerprints -> Nat]
  BY DEF StoresTyped, ClusterFor
<1>. QED
  BY <1>2, <1>3, <1>4

\* Nothing is stored at first but rows without a link.
LEMMA InvInit == Init => ClustersInv
<1>. SUFFICES ASSUME Init PROVE ClustersInv
  OBVIOUS
<1>1. execs \in [Execs -> Rows] /\ RowsWhole(execs) /\ LinkIsOfItsTrace
  BY InputsAssumption DEF Init, RowsWhole, LinkIsOfItsTrace
<1>2. StoresTyped
  BY <1>1, IdlePass, ClustersAssumption DEF Init, StoresTyped, Waiting
<1>3. SourceInv
  BY DEF Init, SourceInv, Waiting
<1>4. \A p \in Passes : PassOK(pass[p], execs, spans, seen)
  BY IdlePass DEF Init
<1>. QED
  BY <1>1, <1>2, <1>3, <1>4 DEF ClustersInv

\* The steps that count a failure touch neither links nor caches.
LEMMA CountStep ==
    ASSUME ClustersInv, NEW r \in Requests, ExportCount(r) \/ ExportDies(r)
    PROVE  ClustersInv'
<1>0. /\ UNCHANGED <<execs, spans, report, pass, seen, deliveries>>
      /\ occurrences' \in [Fingerprints -> Nat] /\ faults' \in 0..FaultLimit
  BY Counting DEF ExportCount, ExportDies, ClustersInv, StoresTyped
<1>1. StoresTyped'
  BY <1>0 DEF ClustersInv, StoresTyped
<1>2. (RowsWhole(execs) /\ SourceInv /\ LinkIsOfItsTrace)'
  BY <1>0 DEF ClustersInv, RowsWhole, SourceInv, LinkIsOfItsTrace
<1>3. \A p \in Passes : PassOK(pass'[p], execs', spans', seen')
  BY <1>0 DEF ClustersInv
<1>. QED
  BY <1>1, <1>2, <1>3 DEF ClustersInv

\* A batch is stored whole, and what it says of a trace is noted for that trace.
LEMMA WriteStep ==
    ASSUME ClustersInv, NEW r \in Requests, ExportWrite(r) PROVE ClustersInv'
<1>. DEFINE errs == {sp \in Range(r) : sp.code = "error"}
<1>0. /\ UNCHANGED <<execs, occurrences, report, faults>>
      /\ deliveries' \in 0..MaxDeliveries
      /\ spans' = spans \cup errs
      /\ pass' = StillWanted(spans')
  BY Counting DEF ExportWrite, ClustersInv
<1>1. \A sp \in errs : sp.trace \in Traces /\ sp.code = "error" /\ sp.stack \in AllStacks
  BY InputsAssumption DEF AllStacks
<1>2. /\ seen' \in [Traces -> SUBSET Fingerprints]
      /\ \A t \in Traces : seen[t] \subseteq seen'[t]
      /\ \A sp \in errs : sp.stack # Empty => FingerprintStack(sp.stack) \in seen'[sp.trace]
  <2>1. seen' = [t \in Traces |-> seen[t] \cup
                   {FingerprintStack(sp.stack) :
                      sp \in {x \in errs : x.trace = t /\ x.stack # Empty}}]
    BY DEF ExportWrite
  <2>2. \A sp \in errs : sp.stack # Empty => FingerprintStack(sp.stack) \in Fingerprints
    BY <1>1 DEF Fingerprints
  <2>. HIDE DEF errs
  <2>3. seen \in [Traces -> SUBSET Fingerprints]
    BY DEF ClustersInv, StoresTyped
  <2>. QED
    BY <1>1, <2>1, <2>2, <2>3
<1>. HIDE DEF errs
<1>3. \A p \in Passes : pass'[p] \in PassStates /\ PassOK(pass'[p], execs', spans', seen')
  <2>. TAKE p \in Passes
  <2>1. pass[p] \in PassStates /\ PassOK(pass[p], execs, spans, seen)
    BY DEF ClustersInv, StoresTyped
  <2>2. pass'[p] = [pass[p] EXCEPT !.want = {e \in @ : HasStack(spans', execs[e].trace)}]
    BY <1>0 DEF StillWanted
  <2>3. \A t \in Traces : seen[t] \subseteq seen'[t]
    BY <1>2
  <2>4. pass'[p] \in PassStates /\ PassOK(pass'[p], execs, spans', seen)
    BY <2>1, <2>2, SpansMove
  <2>5. PassOK(pass'[p], execs, spans', seen')
    BY <2>3, <2>4, SeenGrows
  <2>. QED
    BY <1>0, <2>4, <2>5
<1>4. StoresTyped'
  BY <1>0, <1>1, <1>2, <1>3 DEF ClustersInv, StoresTyped, StillWanted
<1>5. RowsWhole(execs)' /\ SourceInv'
  BY <1>0, <1>2 DEF ClustersInv, RowsWhole, SourceInv, StoresTyped
<1>6. LinkIsOfItsTrace'
  <2>1. \A e \in Execs : execs[e].trace # NoTrace => execs[e].trace \in Traces
    BY DEF ClustersInv, StoresTyped, Rows
  <2>. QED
    BY <1>0, <1>2, <2>1 DEF ClustersInv, LinkIsOfItsTrace
<1>. QED
  BY <1>3, <1>4, <1>5, <1>6 DEF ClustersInv

\* Spans that expire take nothing back that was noted.
LEMMA ExpireStep ==
    ASSUME ClustersInv, NEW t \in Traces, SpansExpire(t) PROVE ClustersInv'
<1>0. /\ UNCHANGED <<execs, occurrences, export, report, seen, deliveries>>
      /\ faults' \in 0..FaultLimit
      /\ spans' \subseteq spans
      /\ pass' = StillWanted(spans')
  BY Counting DEF SpansExpire, ClustersInv
<1>3. \A p \in Passes : pass'[p] \in PassStates /\ PassOK(pass'[p], execs', spans', seen')
  <2>. TAKE p \in Passes
  <2>1. pass[p] \in PassStates /\ PassOK(pass[p], execs, spans, seen)
    BY DEF ClustersInv, StoresTyped
  <2>2. pass'[p] = [pass[p] EXCEPT !.want = {e \in @ : HasStack(spans', execs[e].trace)}]
    BY <1>0 DEF StillWanted
  <2>. QED
    BY <1>0, <2>1, <2>2, SpansMove
<1>4. StoresTyped'
  BY <1>0, <1>3 DEF ClustersInv, StoresTyped, StillWanted
<1>5. (RowsWhole(execs) /\ SourceInv /\ LinkIsOfItsTrace)'
  BY <1>0 DEF ClustersInv, RowsWhole, SourceInv, LinkIsOfItsTrace
<1>. QED
  BY <1>3, <1>4, <1>5 DEF ClustersInv

\* A report that is counted, or given up, carries the fingerprint of its stack.
LEMMA UpsertStep ==
    ASSUME ClustersInv, NEW m \in Reports, ReportUpsert(m) \/ ReportFails(m)
    PROVE  ClustersInv'
<1>0. /\ UNCHANGED <<execs, spans, pass, seen>>
      /\ faults' \in 0..FaultLimit /\ deliveries' \in 0..MaxDeliveries
      /\ occurrences' \in [Fingerprints -> Nat]
  BY Counting DEF ReportUpsert, ReportFails, ClustersInv, StoresTyped
<1>1. PICK w \in [pc : {"idle", "insert"}, cid : Fingerprints \cup {NoCluster}] :
        /\ report' = [report EXCEPT ![m] = w]
        /\ w.cid # NoCluster => w.cid = FingerprintStack(m.stack)
  <2>1. Clustered(m) => FingerprintStack(m.stack) \in Fingerprints
    BY DEF Clustered, Fingerprints, AllStacks
  <2>. DEFINE none == [pc |-> "insert", cid |-> NoCluster]
              own == [pc |-> "insert", cid |-> FingerprintStack(m.stack)]
              States == [pc : {"idle", "insert"}, cid : Fingerprints \cup {NoCluster}]
  <2>2. /\ none \in States /\ none.cid = NoCluster
        /\ Waiting \in States /\ Waiting.cid = NoCluster
        /\ Clustered(m) => own \in States
        /\ own.cid = FingerprintStack(m.stack)
    BY <2>1 DEF Waiting
  <2>3. \/ report' = [report EXCEPT ![m] = none]
        \/ Clustered(m) /\ report' = [report EXCEPT ![m] = own]
        \/ report' = [report EXCEPT ![m] = Waiting]
    BY DEF ReportUpsert, ReportFails
  <2>. HIDE DEF none, own, States
  <2>4. \E w \in States : /\ report' = [report EXCEPT ![m] = w]
                          /\ w.cid # NoCluster => w.cid = FingerprintStack(m.stack)
    BY <2>2, <2>3
  <2>. QED
    BY <2>4 DEF States
<1>2. StoresTyped'
  BY <1>0, <1>1 DEF ClustersInv, StoresTyped
<1>3. SourceInv'
  BY <1>0, <1>1 DEF ClustersInv, StoresTyped, SourceInv
<1>4. (RowsWhole(execs) /\ LinkIsOfItsTrace)'
  BY <1>0 DEF ClustersInv, RowsWhole, LinkIsOfItsTrace
<1>5. \A p \in Passes : PassOK(pass'[p], execs', spans', seen')
  BY <1>0 DEF ClustersInv
<1>. QED
  BY <1>2, <1>3, <1>4, <1>5 DEF ClustersInv

\* A row is inserted only where there is none.
LEMMA InsertKeeps ==
    ASSUME ClustersInv, NEW m \in Reports, ReportInsert(m)
    PROVE  /\ execs' \in [Execs -> Rows] /\ Later(execs, execs') /\ RowsWhole(execs')
           /\ LinkIsOfItsTrace'
<1>1. CASE execs[m.exec].there
  <2>1. UNCHANGED <<execs, seen>>
    BY <1>1 DEF ReportInsert
  <2>. QED
    BY <2>1 DEF ClustersInv, StoresTyped, Later, RowsWhole, LinkIsOfItsTrace
<1>2. CASE ~ execs[m.exec].there
  <2>. DEFINE row == [there |-> TRUE, trace |-> NoTrace, outcome |-> m.outcome,
                      old |-> FALSE, link |-> report[m].cid]
  <2>1. m.exec \in Execs /\ execs' = [execs EXCEPT ![m.exec] = row] /\ seen' = seen
    BY <1>2, InputsAssumption DEF ReportInsert
  <2>2. row \in Rows
    BY InputsAssumption DEF ClustersInv, StoresTyped, Rows
  <2>3. row.there /\ row.trace = NoTrace /\ row.link = report[m].cid
    OBVIOUS
  <2>4. row.link # NoCluster => row.link = FingerprintStack(m.stack)
    BY <2>3 DEF ClustersInv, SourceInv
  <2>. HIDE DEF row
  <2>5. execs[m.exec].link = NoCluster
    <3>1. execs[m.exec] = Absent
      BY <1>2, <2>1 DEF ClustersInv, RowsWhole
    <3>2. Absent.link = NoCluster
      BY DEF Absent
    <3>. QED
      BY <3>1, <3>2
  <2>6. execs \in [Execs -> Rows]
    BY DEF ClustersInv, StoresTyped
  <2>7. execs' \in [Execs -> Rows] /\ RowsWhole(execs')
    BY <2>1, <2>2, <2>3, <2>6 DEF ClustersInv, RowsWhole
  <2>8. Later(execs, execs')
    BY <1>2, <2>1, <2>5, <2>6 DEF Later
  <2>9. LinkIsOfItsTrace'
    BY <2>1, <2>3, <2>4, <2>6 DEF ClustersInv, LinkIsOfItsTrace
  <2>. QED
    BY <2>7, <2>8, <2>9
<1>. QED
  BY <1>1, <1>2

\* An INSERT adds a whole row, which no pass has fetched, or finds one.
LEMMA InsertStep ==
    ASSUME ClustersInv, NEW m \in Reports, ReportInsert(m) PROVE ClustersInv'
<1>0. /\ UNCHANGED <<spans, occurrences, pass, seen, deliveries, faults>>
      /\ report' = [report EXCEPT ![m] = Waiting]
  BY DEF ReportInsert
<1>1. /\ execs' \in [Execs -> Rows] /\ Later(execs, execs') /\ RowsWhole(execs')
      /\ LinkIsOfItsTrace'
  BY InsertKeeps
<1>2. StoresTyped'
  BY <1>0, <1>1 DEF ClustersInv, StoresTyped, Waiting
<1>3. SourceInv'
  BY <1>0 DEF ClustersInv, StoresTyped, SourceInv, Waiting
<1>4. \A p \in Passes : PassOK(pass'[p], execs', spans', seen')
  BY <1>0, <1>1, TableGrows DEF ClustersInv, StoresTyped
<1>. QED
  BY <1>1, <1>2, <1>3, <1>4 DEF ClustersInv

\* A step of one pass, whatever it does to the table of executions, keeps the
\* invariant if it leaves that pass in order.
LEMMA PassMoves ==
    ASSUME ClustersInv, NEW p \in Passes, NEW r \in PassStates,
           pass' = [pass EXCEPT ![p] = r], PassOK(r, execs', spans, seen),
           UNCHANGED <<spans, report, seen, deliveries>>,
           occurrences' \in [Fingerprints -> Nat], faults' \in 0..FaultLimit,
           execs' \in [Execs -> Rows], Later(execs, execs'), RowsWhole(execs'),
           LinkIsOfItsTrace'
    PROVE  ClustersInv'
<1>1. StoresTyped'
  BY DEF ClustersInv, StoresTyped
<1>2. SourceInv'
  BY DEF ClustersInv, SourceInv
<1>3. \A q \in Passes : PassOK(pass'[q], execs', spans', seen')
  <2>. TAKE q \in Passes
  <2>1. CASE q = p
    BY <2>1 DEF ClustersInv, StoresTyped
  <2>2. CASE q # p
    <3>1. /\ pass'[q] = pass[q] /\ pass[q] \in PassStates
          /\ PassOK(pass[q], execs, spans, seen) /\ execs \in [Execs -> Rows]
      BY <2>2 DEF ClustersInv, StoresTyped
    <3>2. PassOK(pass[q], execs', spans, seen)
      BY <3>1, TableGrows
    <3>. QED
      BY <3>1, <3>2
  <2>. QED
    BY <2>1, <2>2
<1>. QED
  BY <1>1, <1>2, <1>3 DEF ClustersInv

\* The same for a step that leaves the executions alone.
LEMMA PassGoesOn ==
    ASSUME ClustersInv, NEW p \in Passes, NEW r \in PassStates,
           pass' = [pass EXCEPT ![p] = r], PassOK(r, execs, spans, seen),
           UNCHANGED <<execs, spans, report, seen, deliveries>>,
           occurrences' \in [Fingerprints -> Nat], faults' \in 0..FaultLimit
    PROVE  ClustersInv'
<1>1. /\ execs' \in [Execs -> Rows] /\ RowsWhole(execs') /\ PassOK(r, execs', spans, seen)
  BY DEF ClustersInv, StoresTyped
<1>2. LinkIsOfItsTrace'
  BY DEF ClustersInv, LinkIsOfItsTrace
<1>3. Later(execs, execs')
  BY DEF Later
<1>. QED
  BY <1>1, <1>2, <1>3, PassMoves

\* A pass begins with empty caches, and every row it owes ahead of its cursor.
LEMMA RunStep == ASSUME ClustersInv, NEW p \in Passes, Run(p) PROVE ClustersInv'
<1>1. PICK fl \in Flags :
        pass' = [pass EXCEPT ![p] = [Idle EXCEPT
                   !.pc = "scan", !.dry = fl.dry, !.since = fl.since,
                   !.want = {e \in Execs : /\ IsPending(e, fl.since) /\ ~fl.dry
                                           /\ HasStack(spans, execs[e].trace)}]]
  BY DEF Run
<1>. DEFINE w == {e \in Execs : /\ IsPending(e, fl.since) /\ ~fl.dry
                                /\ HasStack(spans, execs[e].trace)}
            r == [Idle EXCEPT !.pc = "scan", !.dry = fl.dry, !.since = fl.since,
                              !.want = w]
<1>2. /\ w \in SUBSET Execs /\ (fl.dry => w = {})
      /\ \A e \in w : /\ IsPending(e, fl.since) /\ HasStack(spans, execs[e].trace)
  OBVIOUS
<1>3. pass' = [pass EXCEPT ![p] = r]
  BY <1>1
<1>. HIDE DEF w
<1>4. /\ r \in PassStates /\ r.pc = "scan" /\ r.dry = fl.dry /\ r.since = fl.since
      /\ r.want = w /\ r.todo = {} /\ r.cursor = 0
      /\ r.stacks = Idle.stacks /\ r.cids = Idle.cids
  BY <1>2, IdlePass, InputsAssumption DEF PassStates, Idle
<1>. HIDE DEF r
<1>5. Caches(r, seen) /\ Queue(r, execs)
  BY <1>4, IdlePass DEF PassOK, Caches, Queue
<1>6. \A t \in Traces : r.stacks[t].got = "unread"
  BY <1>4 DEF Idle, Unread
<1>7. \A e \in r.want : r.cursor < e /\ Qualifies(r, e, execs, spans)
  <2>. TAKE e \in r.want
  <2>1. execs[e].trace \in Traces
    BY <1>2, <1>4 DEF IsPending, ClustersInv, StoresTyped, Rows
  <2>2. 0 < e
    <3>1. e \in Nat \ {0}
      BY <1>2, <1>4, ClustersAssumption
    <3>. QED
      BY <3>1
  <2>. QED
    BY <1>2, <1>4, <1>6, <2>1, <2>2 DEF IsPending, Qualifies
<1>8. Owed(r, execs, spans)
  BY <1>2, <1>4, <1>6, <1>7 DEF Owed
<1>9. UNCHANGED <<execs, spans, occurrences, report, seen, deliveries, faults>>
  BY DEF Run
<1>10. occurrences' \in [Fingerprints -> Nat] /\ faults' \in 0..FaultLimit
  BY <1>9 DEF ClustersInv, StoresTyped
<1>. QED
  BY <1>3, <1>4, <1>5, <1>8, <1>9, <1>10, PassGoesOn DEF PassOK

\* A page takes what is left, or leaves only rows above its last.
LEMMA ScanStep == ASSUME ClustersInv, NEW p \in Passes, PendingFailures(p) PROVE ClustersInv'
<1>. DEFINE r == pass[p]
            page == pendingFailuresPage(p)
            last == CHOOSE e \in page : \A o \in page : o <= e
            got == [r EXCEPT !.todo = r.todo \cup page]
            above == {e \in Execs : e > r.cursor /\ IsPending(e, r.since)}
<1>0. /\ r \in PassStates /\ r.pc = "scan" /\ PassOK(r, execs, spans, seen)
  BY DEF PendingFailures, ClustersInv, StoresTyped
<1>1. page = {e \in above : Cardinality({o \in above : o <= e}) <= PageSize}
  BY DEF pendingFailuresPage
<1>2. /\ page \in SUBSET above /\ Cardinality(page) \in Nat
      /\ Cardinality(page) < PageSize => page = above
      /\ Cardinality(page) >= PageSize => last \in page /\ \A e \in above \ page : last < e
  <2>1. above \in SUBSET Execs /\ PageSize \in Nat \ {0}
    BY ClustersAssumption
  <2>2. page \in SUBSET above
    BY <1>1
  <2>. DEFINE cut == {e \in above : Cardinality({o \in above : o <= e}) <= PageSize}
  <2>. HIDE DEF above
  <2>3. /\ Cardinality(cut) \in Nat
        /\ Cardinality(cut) < PageSize => cut = above
        /\ Cardinality(cut) >= PageSize =>
             LET l == CHOOSE e \in cut : \A o \in cut : o <= e IN
             l \in cut /\ \A e \in above \ cut : l < e
    BY <2>1, Paging
  <2>4. page = cut
    BY <1>1
  <2>. HIDE DEF cut, page
  <2>. QED
    BY <2>2, <2>3, <2>4
<1>3. /\ page \in SUBSET Execs
      /\ \A e \in page : execs[e].there /\ execs[e].trace # NoTrace
  BY <1>2 DEF IsPending
<1>4. \A e \in r.want : r.errors \/ execs[e].link # NoCluster \/ e \in r.todo \/ e \in above
  <2>1. \A e \in r.want : /\ Qualifies(r, e, execs, spans) /\ e \in Execs /\ e \in Nat
                          /\ r.errors \/ execs[e].link # NoCluster \/ e \in r.todo \/ r.cursor < e
    BY <1>0, ClustersAssumption DEF PassOK, Owed, PassStates
  <2>2. r.cursor \in Nat
    <3>1. r.cursor \in Execs \cup {0}
      BY <1>0 DEF PassStates
    <3>2. \A e \in Execs \cup {0} : e \in Nat
      BY ClustersAssumption
    <3>. QED
      BY <3>1, <3>2
  <2>. QED
    BY <2>1, <2>2 DEF Qualifies, IsPending
<1>. HIDE DEF page, above, last
<1>5. /\ got \in PassStates /\ got.pc = "scan" /\ got.todo = r.todo \cup page
      /\ got.dry = r.dry /\ got.since = r.since /\ got.stacks = r.stacks
      /\ got.cids = r.cids /\ got.errors = r.errors /\ got.want = r.want
      /\ got.cursor = r.cursor
  BY <1>0, <1>3 DEF PassStates
<1>6. /\ UNCHANGED <<execs, spans, occurrences, report, seen, deliveries, faults>>
      /\ occurrences' \in [Fingerprints -> Nat] /\ faults' \in 0..FaultLimit
  BY DEF PendingFailures, ClustersInv, StoresTyped
<1>7. pass' = [pass EXCEPT ![p] =
          IF Cardinality(page) >= PageSize THEN [got EXCEPT !.cursor = last]
          ELSE IF got.todo = {} THEN Ended(got) ELSE [got EXCEPT !.pc = "rows"]]
  BY DEF PendingFailures, page, last
<1>. HIDE DEF got
<1>8. PageSize \in Nat
  BY ClustersAssumption
\* What a pass that goes on has to show.
<1>9. ASSUME NEW n \in PassStates, n.pc \in {"scan", "rows"}, n.todo = r.todo \cup page,
             n.dry = r.dry, n.since = r.since, n.stacks = r.stacks, n.cids = r.cids,
             n.errors = r.errors, n.want = r.want, n.pc = "rows" => n.todo # {},
             \A e \in above : e \in page \/ (n.pc = "scan" /\ n.cursor < e)
      PROVE  PassOK(n, execs, spans, seen)
  <2>1. Caches(n, seen)
    BY <1>0, <1>9 DEF PassOK, Caches
  <2>2. Queue(n, execs)
    BY <1>0, <1>3, <1>9 DEF PassOK, Queue
  <2>3. \A e \in n.want : Qualifies(n, e, execs, spans)
    BY <1>0, <1>9 DEF PassOK, Owed, Qualifies
  <2>4. \A e \in n.want : \/ n.errors \/ execs[e].link # NoCluster \/ e \in n.todo
                          \/ n.pc = "scan" /\ n.cursor < e
    BY <1>4, <1>9
  <2>5. Owed(n, execs, spans)
    BY <1>0, <1>9, <2>3, <2>4 DEF PassOK, Owed
  <2>. QED
    BY <2>1, <2>2, <2>5 DEF PassOK
<1>10. CASE Cardinality(page) >= PageSize
  <2>. DEFINE n == [got EXCEPT !.cursor = last]
  <2>1. /\ n \in PassStates /\ n.pc = "scan" /\ n.todo = r.todo \cup page
        /\ n.dry = r.dry /\ n.since = r.since /\ n.stacks = r.stacks
        /\ n.cids = r.cids /\ n.errors = r.errors /\ n.want = r.want
        /\ n.cursor = last
    BY <1>2, <1>3, <1>5, <1>10 DEF PassStates
  <2>2. pass' = [pass EXCEPT ![p] = n]
    BY <1>7, <1>10
  <2>. HIDE DEF n
  <2>3. PassOK(n, execs, spans, seen)
    <3>1. \A e \in above : e \in page \/ (n.pc = "scan" /\ n.cursor < e)
      BY <1>2, <1>10, <2>1
    <3>. QED
      BY <1>9, <2>1, <3>1
  <2>. QED
    BY <1>6, <2>1, <2>2, <2>3, PassGoesOn
<1>11. CASE ~ (Cardinality(page) >= PageSize) /\ got.todo = {}
  <2>1. page = above
    BY <1>2, <1>8, <1>11
  <2>2. got.errors \/ \A e \in got.want : execs[e].link # NoCluster
    BY <1>4, <1>5, <1>11, <2>1
  <2>3. Ended(got) \in PassStates /\ PassOK(Ended(got), execs, spans, seen)
    BY <1>5, <2>2, EndedPass
  <2>4. pass' = [pass EXCEPT ![p] = Ended(got)]
    BY <1>7, <1>11
  <2>. QED
    BY <1>6, <2>3, <2>4, PassGoesOn
<1>12. CASE ~ (Cardinality(page) >= PageSize) /\ got.todo # {}
  <2>. DEFINE n == [got EXCEPT !.pc = "rows"]
  <2>1. /\ n \in PassStates /\ n.pc = "rows" /\ n.todo = r.todo \cup page
        /\ n.dry = r.dry /\ n.since = r.since /\ n.stacks = r.stacks
        /\ n.cids = r.cids /\ n.errors = r.errors /\ n.want = r.want
        /\ n.todo # {}
    BY <1>5, <1>12 DEF PassStates
  <2>2. pass' = [pass EXCEPT ![p] = n]
    BY <1>7, <1>12
  <2>. HIDE DEF n
  <2>3. PassOK(n, execs, spans, seen)
    <3>1. \A e \in above : e \in page \/ (n.pc = "scan" /\ n.cursor < e)
      BY <1>2, <1>8, <1>12
    <3>. QED
      BY <1>9, <2>1, <3>1
  <2>. QED
    BY <1>6, <2>1, <2>2, <2>3, PassGoesOn
<1>. QED
  BY <1>10, <1>11, <1>12

\* What ClickHouse answers for a trace was exported for it, and is a stack if the
\* trace has one.
LEMMA AnswerIsOfTrace ==
    ASSUME ClustersInv, NEW t \in Traces, NEW s \in StackFor(t)
    PROVE  /\ s \in AllStacks \cup {Empty}
           /\ s # Empty => FingerprintStack(s) \in seen[t]
           /\ HasStack(spans, t) => s # Empty
<1>1. CASE ErrorSpans(spans, t) = {}
  BY <1>1 DEF StackFor, HasStack
<1>2. CASE ErrorSpans(spans, t) # {}
  <2>1. PICK sp \in Newest(spans, t) : s = sp.stack
    BY <1>2 DEF StackFor
  <2>2. sp \in spans /\ sp.trace = t
    BY DEF Newest, ErrorSpans
  <2>. QED
    BY <2>1, <2>2 DEF ClustersInv, StoresTyped, SourceInv, HasStack
<1>. QED
  BY <1>1, <1>2

\* The row a pass is at.
LEMMA AtRow ==
    ASSUME ClustersInv, NEW p \in Passes, pass[p].pc \in {"rows", "cluster", "assign"}
    PROVE  /\ pass[p] \in PassStates /\ PassOK(pass[p], execs, spans, seen)
           /\ execs \in [Execs -> Rows]
           /\ Current(p) \in pass[p].todo /\ Current(p) \in Execs
           /\ execs[Current(p)].there /\ execs[Current(p)].trace \in Traces
<1>1. pass[p] \in PassStates /\ PassOK(pass[p], execs, spans, seen)
      /\ execs \in [Execs -> Rows]
  BY DEF ClustersInv, StoresTyped
<1>2. pass[p].todo \in SUBSET Execs /\ pass[p].todo # {}
  BY <1>1 DEF PassStates, PassOK, Queue
<1>3. Current(p) \in pass[p].todo
  BY <1>2, FirstIsRow DEF Current
<1>4. Current(p) \in Execs
  BY <1>2, <1>3
<1>5. execs[Current(p)].there /\ execs[Current(p)].trace # NoTrace
  BY <1>1, <1>3 DEF PassOK, Queue
<1>6. execs[Current(p)].trace \in Traces
  BY <1>1, <1>4, <1>5 DEF Rows
<1>. QED
  BY <1>1, <1>3, <1>4, <1>5, <1>6

\* A row that fails is passed over; the pass will not claim to be complete.
LEMMA RowFails ==
    ASSUME NEW r \in PassStates, NEW x \in [Execs -> Rows], NEW all, NEW sn, NEW e,
           r.pc \in {"rows", "cluster", "assign"}, e \in r.todo, PassOK(r, x, all, sn)
    PROVE  LET n == NextRow([r EXCEPT !.errors = TRUE], e) IN
           n \in PassStates /\ PassOK(n, x, all, sn)
<1>. DEFINE f == [r EXCEPT !.errors = TRUE]
<1>1. /\ f \in PassStates /\ f.pc = r.pc /\ f.todo = r.todo /\ f.errors = TRUE
      /\ f.dry = r.dry /\ f.since = r.since /\ f.stacks = r.stacks /\ f.cids = r.cids
      /\ f.want = r.want /\ f.cursor = r.cursor
  BY DEF PassStates
<1>. HIDE DEF f
<1>2. Caches(f, sn)
  BY <1>1 DEF PassOK, Caches
<1>3. Owed(f, x, all)
  BY <1>1 DEF PassOK, Owed, Qualifies
<1>4. \A o \in f.todo : x[o].there /\ x[o].trace # NoTrace
  BY <1>1 DEF PassOK, Queue
<1>5. NextRow(f, e) \in PassStates /\ PassOK(NextRow(f, e), x, all, sn)
  BY <1>1, <1>2, <1>3, <1>4, RowDone
<1>. QED
  BY <1>5 DEF f

\* The stack of a trace is fetched once, and a row it is owed is not passed over.
LEMMA FetchStep == ASSUME ClustersInv, NEW p \in Passes, FetchStack(p) PROVE ClustersInv'
<1>. DEFINE r == pass[p]
            e == Current(p)
            t == execs[e].trace
<1>0. /\ r.pc = "rows" /\ r \in PassStates /\ PassOK(r, execs, spans, seen)
      /\ execs \in [Execs -> Rows] /\ e \in r.todo /\ e \in Execs /\ t \in Traces
  BY AtRow DEF FetchStack
<1>1. PICK got :
        /\ got \in IF r.stacks[t] # Unread THEN {r.stacks[t]}
                   ELSE {[got |-> "ok", stack |-> s] : s \in StackFor(t)}
                        \cup {[got |-> "error", stack |-> Empty]}
        /\ IF got.got = "error" /\ r.stacks[t] = Unread THEN Fault ELSE UNCHANGED faults
        /\ pass' = [pass EXCEPT ![p] =
             LET q == [r EXCEPT !.stacks[t] = got] IN
             IF got.got = "error" THEN NextRow([q EXCEPT !.errors = TRUE], e)
             ELSE IF got.stack = Empty \/ q.dry THEN NextRow(q, e)
             ELSE [q EXCEPT !.pc = "cluster"]]
  BY DEF FetchStack
<1>2. /\ UNCHANGED <<execs, spans, occurrences, report, seen, deliveries>>
      /\ occurrences' \in [Fingerprints -> Nat] /\ faults' \in 0..FaultLimit
  BY <1>1, Counting DEF FetchStack, ClustersInv, StoresTyped
<1>3. /\ got \in Answers /\ got.got \in {"ok", "error"}
      /\ got.stack # Empty => got.got = "ok" /\ FingerprintStack(got.stack) \in seen[t]
      /\ \A o \in r.want : execs[o].trace = t /\ got.got = "ok" => got.stack # Empty
  <2>1. CASE r.stacks[t] # Unread
    <3>1. got = r.stacks[t] /\ got \in Answers
      BY <1>0, <1>1, <2>1 DEF PassStates
    <3>2. got.stack # Empty => got.got = "ok" /\ FingerprintStack(got.stack) \in seen[t]
      BY <1>0, <3>1 DEF PassOK, Caches
    <3>3. got.got # "unread"
      BY <2>1, <3>1, <3>2 DEF Answers, Unread
    <3>4. \A o \in r.want : execs[o].trace = t /\ got.got = "ok" => got.stack # Empty
      BY <1>0, <3>1 DEF PassOK, Owed, Qualifies
    <3>. QED
      BY <3>1, <3>2, <3>3, <3>4 DEF Answers
  <2>2. CASE got = [got |-> "error", stack |-> Empty]
    BY <2>2 DEF Answers
  <2>3. ASSUME NEW s \in StackFor(t), got = [got |-> "ok", stack |-> s]
        PROVE  /\ got \in Answers /\ got.got \in {"ok", "error"}
               /\ got.stack # Empty =>
                    got.got = "ok" /\ FingerprintStack(got.stack) \in seen[t]
               /\ \A o \in r.want :
                    execs[o].trace = t /\ got.got = "ok" => got.stack # Empty
    <3>1. /\ s \in AllStacks \cup {Empty}
          /\ s # Empty => FingerprintStack(s) \in seen[t]
          /\ HasStack(spans, t) => s # Empty
      BY <1>0, AnswerIsOfTrace
    <3>2. got \in Answers /\ got.got = "ok" /\ got.stack = s
      BY <2>3, <3>1 DEF Answers
    <3>3. \A o \in r.want : execs[o].trace = t => HasStack(spans, t)
      BY <1>0 DEF PassOK, Owed, Qualifies
    <3>. QED
      BY <3>1, <3>2, <3>3
  <2>. QED
    BY <1>1, <2>1, <2>2, <2>3
<1>. DEFINE q == [r EXCEPT !.stacks[t] = got]
<1>4. /\ q \in PassStates /\ q.pc = "rows" /\ q.todo = r.todo /\ q.dry = r.dry
      /\ q.since = r.since /\ q.cids = r.cids /\ q.errors = r.errors /\ q.want = r.want
      /\ q.stacks = [r.stacks EXCEPT ![t] = got]
  BY <1>0, <1>3 DEF PassStates
<1>5. pass' = [pass EXCEPT ![p] =
             IF got.got = "error" THEN NextRow([q EXCEPT !.errors = TRUE], e)
             ELSE IF got.stack = Empty \/ q.dry THEN NextRow(q, e)
             ELSE [q EXCEPT !.pc = "cluster"]]
  BY <1>1
<1>. HIDE DEF q
<1>6. /\ q.stacks[t] = got
      /\ \A u \in Traces : u # t => q.stacks[u] = r.stacks[u]
  BY <1>0, <1>4 DEF PassStates
<1>7. /\ \A o \in r.want : execs[o].trace \in Traces /\ Qualifies(q, o, execs, spans)
      /\ \A o \in r.todo : execs[o].there /\ execs[o].trace # NoTrace
  <2>1. \A o \in r.want : Qualifies(r, o, execs, spans) /\ execs[o].trace \in Traces
    BY <1>0 DEF PassOK, Owed, PassStates, Qualifies, Rows
  <2>2. \A o \in r.want : Qualifies(q, o, execs, spans)
    BY <1>3, <1>4, <1>6, <2>1 DEF Qualifies
  <2>3. \A o \in r.todo : execs[o].there /\ execs[o].trace # NoTrace
    BY <1>0 DEF PassOK, Queue
  <2>. QED
    BY <2>1, <2>2, <2>3
<1>8. Caches(q, seen)
  BY <1>0, <1>3, <1>4, <1>6 DEF PassOK, Caches
<1>9. CASE got.got = "error"
  <2>. DEFINE f == [q EXCEPT !.errors = TRUE]
  <2>1. /\ f \in PassStates /\ f.pc = "rows" /\ f.todo = r.todo /\ f.dry = r.dry
        /\ f.since = r.since /\ f.cids = q.cids /\ f.want = r.want
        /\ f.stacks = q.stacks /\ f.errors = TRUE
    BY <1>4 DEF PassStates
  <2>2. pass' = [pass EXCEPT ![p] = NextRow(f, e)]
    BY <1>5, <1>9
  <2>. HIDE DEF f
  <2>3. Caches(f, seen)
    BY <1>8, <2>1 DEF Caches
  <2>4. \A o \in f.want : Qualifies(f, o, execs, spans)
    BY <1>4, <1>7, <2>1 DEF Qualifies
  <2>5. Owed(f, execs, spans)
    BY <1>0, <2>1, <2>4 DEF PassOK, Owed
  <2>6. NextRow(f, e) \in PassStates /\ PassOK(NextRow(f, e), execs, spans, seen)
    BY <1>0, <1>7, <2>1, <2>3, <2>5, RowDone
  <2>. QED
    BY <1>2, <2>2, <2>6, PassGoesOn
<1>10. CASE got.got = "ok"
  <2>1. \A u \in Traces : q.stacks[u].got = "error" => q.errors
    BY <1>0, <1>4, <1>6, <1>10 DEF PassOK, Owed
  <2>2. Owed(q, execs, spans)
    BY <1>0, <1>4, <1>7, <2>1 DEF PassOK, Owed
  <2>3. CASE got.stack = Empty \/ q.dry
    <3>1. e \notin q.want
      BY <1>0, <1>3, <1>4, <1>10, <2>2, <2>3 DEF Owed
    <3>2. NextRow(q, e) \in PassStates /\ PassOK(NextRow(q, e), execs, spans, seen)
      BY <1>0, <1>4, <1>7, <1>8, <2>2, <3>1, RowDone
    <3>3. pass' = [pass EXCEPT ![p] = NextRow(q, e)]
      BY <1>5, <1>10, <2>3
    <3>. QED
      BY <1>2, <3>2, <3>3, PassGoesOn
  <2>4. CASE ~ (got.stack = Empty \/ q.dry)
    <3>. DEFINE n == [q EXCEPT !.pc = "cluster"]
    <3>1. /\ n \in PassStates /\ n.pc = "cluster" /\ n.todo = q.todo /\ n.dry = q.dry
          /\ n.since = q.since /\ n.cids = q.cids /\ n.want = q.want
          /\ n.stacks = q.stacks /\ n.errors = q.errors
      BY <1>4 DEF PassStates
    <3>2. pass' = [pass EXCEPT ![p] = n]
      BY <1>5, <1>10, <2>4
    <3>. HIDE DEF n
    <3>3. Caches(n, seen)
      BY <1>8, <3>1 DEF Caches
    <3>4. First(n.todo) = e
      BY <1>4, <3>1 DEF Current
    <3>5. Queue(n, execs)
      BY <1>0, <1>4, <1>6, <1>7, <2>4, <3>1, <3>4 DEF Queue
    <3>6. \A o \in n.want : Qualifies(n, o, execs, spans)
      BY <1>4, <1>7, <3>1 DEF Qualifies
    <3>7. Owed(n, execs, spans)
      BY <1>4, <2>2, <3>1, <3>6 DEF Owed
    <3>. QED
      BY <1>2, <3>1, <3>2, <3>3, <3>5, <3>7, PassGoesOn DEF PassOK
  <2>. QED
    BY <2>3, <2>4
<1>. QED
  BY <1>3, <1>9, <1>10

\* The cluster a pass is about to resolve is that of a stack of the row's trace.
LEMMA ResolvedFingerprint ==
    ASSUME ClustersInv, NEW p \in Passes, ResolveCluster(p)
    PROVE  LET t == execs[Current(p)].trace
               f == FingerprintStack(pass[p].stacks[t].stack) IN
           f \in seen[t] /\ f \in Fingerprints /\ f # NoCluster
<1>. DEFINE r == pass[p]
            t == execs[Current(p)].trace
            f == FingerprintStack(r.stacks[t].stack)
<1>0. r.pc = "cluster" /\ PassOK(r, execs, spans, seen) /\ t \in Traces
  BY AtRow DEF ResolveCluster
<1>1. r.stacks[t].stack # Empty
  BY <1>0 DEF PassOK, Queue, Current
<1>2. f \in seen[t]
  BY <1>0, <1>1 DEF PassOK, Caches
<1>3. f \in Fingerprints
  BY <1>0, <1>2 DEF ClustersInv, StoresTyped
<1>. QED
  BY <1>2, <1>3, InputsAssumption

\* The cluster of a row is that of its trace's stack.
LEMMA ResolveStep ==
    ASSUME ClustersInv, NEW p \in Passes, ResolveCluster(p) PROVE ClustersInv'
<1>. DEFINE r == pass[p]
            e == Current(p)
            t == execs[e].trace
            f == FingerprintStack(r.stacks[t].stack)
<1>0. /\ r.pc = "cluster" /\ r \in PassStates /\ PassOK(r, execs, spans, seen)
      /\ execs \in [Execs -> Rows] /\ e \in r.todo /\ e \in Execs /\ t \in Traces
  BY AtRow DEF ResolveCluster
<1>1. /\ UNCHANGED <<execs, spans, report, seen, deliveries>>
      /\ occurrences' \in [Fingerprints -> Nat] /\ faults' \in 0..FaultLimit
  BY Counting DEF ResolveCluster, ClustersInv, StoresTyped
<1>2. f \in seen[t] /\ f \in Fingerprints /\ f # NoCluster
  BY ResolvedFingerprint
<1>. HIDE DEF f
\* What a pass that goes on to the UPDATE has to show.
<1>3. ASSUME NEW c \in [Traces -> Fingerprints \cup {NoCluster}], c[t] # NoCluster,
             \A u \in Traces : c[u] # NoCluster => c[u] \in seen[u],
             pass' = [pass EXCEPT ![p] = [r EXCEPT !.pc = "assign", !.cids = c]]
      PROVE  ClustersInv'
  <2>. DEFINE n == [r EXCEPT !.pc = "assign", !.cids = c]
  <2>1. /\ n \in PassStates /\ n.pc = "assign" /\ n.todo = r.todo /\ n.dry = r.dry
        /\ n.since = r.since /\ n.cids = c /\ n.want = r.want
        /\ n.stacks = r.stacks /\ n.errors = r.errors
    BY <1>0, <1>3 DEF PassStates
  <2>2. pass' = [pass EXCEPT ![p] = n]
    BY <1>3
  <2>. HIDE DEF n
  <2>3. Caches(n, seen)
    BY <1>0, <1>3, <2>1 DEF PassOK, Caches
  <2>4. First(n.todo) = e
    BY <2>1 DEF Current
  <2>5. Queue(n, execs)
    BY <1>0, <1>3, <2>1, <2>4 DEF PassOK, Queue
  <2>6. Owed(n, execs, spans)
    BY <1>0, <2>1 DEF PassOK, Owed, Qualifies
  <2>. QED
    BY <1>1, <2>1, <2>2, <2>3, <2>5, <2>6, PassGoesOn DEF PassOK
<1>4. CASE CachedCluster(p, t) # NoCluster /\ pass' = [pass EXCEPT ![p].pc = "assign"]
  <2>1. /\ r.cids \in [Traces -> Fingerprints \cup {NoCluster}] /\ r.cids[t] # NoCluster
        /\ \A u \in Traces : r.cids[u] # NoCluster => r.cids[u] \in seen[u]
    BY <1>0, <1>4 DEF CachedCluster, PassOK, Caches, PassStates
  <2>2. pass' = [pass EXCEPT ![p] = [r EXCEPT !.pc = "assign", !.cids = r.cids]]
    BY <1>0, <1>4 DEF ClustersInv, StoresTyped, PassStates
  <2>. QED
    BY <1>3, <2>1, <2>2
<1>5. CASE pass' = [pass EXCEPT ![p].pc = "assign", ![p].cids[t] = f]
  <2>. DEFINE c == [r.cids EXCEPT ![t] = f]
  <2>1. /\ c \in [Traces -> Fingerprints \cup {NoCluster}] /\ c[t] # NoCluster
        /\ \A u \in Traces : c[u] # NoCluster => c[u] \in seen[u]
    BY <1>0, <1>2 DEF PassOK, Caches, PassStates
  <2>2. pass' = [pass EXCEPT ![p] = [r EXCEPT !.pc = "assign", !.cids = c]]
    BY <1>0, <1>5 DEF ClustersInv, StoresTyped, PassStates
  <2>. HIDE DEF c
  <2>. QED
    BY <1>3, <2>1, <2>2
<1>6. CASE pass' = [pass EXCEPT ![p] = NextRow([r EXCEPT !.errors = TRUE], e)]
  <2>. DEFINE n == NextRow([r EXCEPT !.errors = TRUE], e)
  <2>1. n \in PassStates /\ PassOK(n, execs, spans, seen)
    BY <1>0, RowFails
  <2>. HIDE DEF n
  <2>2. pass' = [pass EXCEPT ![p] = n]
    BY <1>6 DEF n
  <2>. QED
    BY <1>1, <2>1, <2>2, PassGoesOn
<1>. QED
  BY <1>4, <1>5, <1>6 DEF ResolveCluster, f

\* The UPDATE links the row to the cluster of its own trace, or finds it linked.
LEMMA AssignStep ==
    ASSUME ClustersInv, NEW p \in Passes, AssignCluster(p)
    PROVE  ClustersInv' /\ Later(execs, execs')
<1>. DEFINE r == pass[p]
            e == Current(p)
            t == execs[e].trace
            c == CachedCluster(p, t)
<1>0. /\ r.pc = "assign" /\ r \in PassStates /\ PassOK(r, execs, spans, seen)
      /\ execs \in [Execs -> Rows] /\ e \in r.todo /\ e \in Execs
      /\ execs[e].there /\ t \in Traces
  BY AtRow DEF AssignCluster
<1>1. /\ UNCHANGED <<spans, occurrences, report, seen, deliveries>>
      /\ occurrences' \in [Fingerprints -> Nat] /\ faults' \in 0..FaultLimit
  BY Counting DEF AssignCluster, ClustersInv, StoresTyped
<1>2. c \in seen[t] /\ c \in Fingerprints /\ c # NoCluster
  <2>1. c # NoCluster /\ c = r.cids[t]
    BY <1>0 DEF PassOK, Queue, Current, CachedCluster
  <2>2. c \in seen[t]
    BY <1>0, <2>1 DEF PassOK, Caches
  <2>. QED
    BY <1>0, <2>1, <2>2 DEF ClustersInv, StoresTyped
<1>. HIDE DEF c
<1>3. CASE execs' = Linked(e, c) /\ pass' = [pass EXCEPT ![p] = NextRow(r, e)]
  <2>1. /\ execs' \in [Execs -> Rows] /\ Later(execs, execs') /\ RowsWhole(execs')
        /\ LinkIsOfItsTrace' /\ execs'[e].link # NoCluster
    <3>1. CASE execs[e].link # NoCluster
      <4>1. execs' = execs /\ seen' = seen
        BY <1>1, <1>3, <3>1 DEF Linked
      <4>2. LinkIsOfItsTrace' /\ RowsWhole(execs')
        BY <4>1 DEF ClustersInv, LinkIsOfItsTrace
      <4>. QED
        BY <1>0, <3>1, <4>1, <4>2 DEF Later
    <3>2. CASE execs[e].link = NoCluster
      <4>. DEFINE row == [execs[e] EXCEPT !.link = c]
      <4>1. execs' = [execs EXCEPT ![e] = row] /\ seen' = seen
        BY <1>0, <1>1, <1>3, <3>2 DEF Linked
      <4>2. /\ row \in Rows /\ row.there /\ row.trace = t /\ row.link = c
            /\ row.outcome = execs[e].outcome /\ row.old = execs[e].old
        BY <1>0, <1>2 DEF Rows
      <4>. HIDE DEF row
      <4>3. execs' \in [Execs -> Rows] /\ RowsWhole(execs') /\ execs'[e].link # NoCluster
        BY <1>0, <1>2, <4>1, <4>2 DEF ClustersInv, RowsWhole
      <4>4. Later(execs, execs')
        BY <1>0, <3>2, <4>1, <4>2 DEF Later
      <4>5. t # NoTrace
        BY <1>0, ClustersAssumption
      <4>6. LinkIsOfItsTrace'
        BY <1>0, <1>2, <4>1, <4>2, <4>5 DEF ClustersInv, LinkIsOfItsTrace
      <4>. QED
        BY <4>3, <4>4, <4>6
    <3>. QED
      BY <3>1, <3>2
  <2>2. PassOK(r, execs', spans, seen)
    BY <1>0, <2>1, TableGrows
  <2>3. NextRow(r, e) \in PassStates /\ PassOK(NextRow(r, e), execs', spans, seen)
    <3>1. /\ Caches(r, seen) /\ Owed(r, execs', spans)
          /\ \A o \in r.todo : execs'[o].there /\ execs'[o].trace # NoTrace
      BY <2>2 DEF PassOK, Queue
    <3>. QED
      BY <1>0, <2>1, <3>1, RowDone
  <2>. QED
    BY <1>1, <1>3, <2>1, <2>3, PassMoves
<1>4. CASE /\ pass' = [pass EXCEPT ![p] = NextRow([r EXCEPT !.errors = TRUE], e)]
           /\ execs' = execs
  <2>. DEFINE n == NextRow([r EXCEPT !.errors = TRUE], e)
  <2>1. n \in PassStates /\ PassOK(n, execs, spans, seen)
    BY <1>0, RowFails
  <2>. HIDE DEF n
  <2>2. pass' = [pass EXCEPT ![p] = n]
    BY <1>4 DEF n
  <2>3. ClustersInv'
    BY <1>1, <1>4, <2>1, <2>2, PassGoesOn
  <2>. QED
    BY <1>4, <2>3 DEF Later
<1>. QED
  BY <1>3, <1>4 DEF AssignCluster, c

\* A pass that is killed holds nothing any more.
LEMMA DiesStep == ASSUME ClustersInv, NEW p \in Passes, PassDies(p) PROVE ClustersInv'
<1>1. /\ UNCHANGED <<execs, spans, occurrences, report, seen, deliveries>>
      /\ occurrences' \in [Fingerprints -> Nat] /\ faults' \in 0..FaultLimit
      /\ pass' = [pass EXCEPT ![p] = Idle]
  BY Counting DEF PassDies, ClustersInv, StoresTyped
<1>. QED
  BY <1>1, IdlePass, PassGoesOn

\* No step but an insert into the table and the UPDATE of a link touches a row.
LEMMA TableStep == ASSUME ClustersInv, [Next]_vars PROVE Later(execs, execs')
<1>1. ASSUME execs' = execs PROVE Later(execs, execs')
  BY <1>1 DEF Later
<1>2. ASSUME NEW m \in Reports, ReportInsert(m) PROVE Later(execs, execs')
  BY <1>2, InsertKeeps
<1>3. ASSUME NEW p \in Passes, AssignCluster(p) PROVE Later(execs, execs')
  BY <1>3, AssignStep
<1>4. CASE UNCHANGED vars
  BY <1>1, <1>4 DEF vars
<1>5. CASE Otlp \/ \E t \in Traces : SpansExpire(t)
  BY <1>1, <1>5 DEF Otlp, ExportWrite, ExportCount, ExportDies, SpansExpire
<1>6. CASE Grpc
  BY <1>1, <1>2, <1>6 DEF Grpc, ReportUpsert, ReportFails
<1>7. CASE Backfill
  BY <1>1, <1>3, <1>7 DEF Backfill, Run, PendingFailures, FetchStack, ResolveCluster, PassDies
<1>. QED
  BY <1>4, <1>5, <1>6, <1>7 DEF Next

\* Every step of every writer keeps the invariant.
LEMMA InvStep == ClustersInv /\ [Next]_vars => ClustersInv'
<1>. SUFFICES ASSUME ClustersInv, [Next]_vars PROVE ClustersInv'
  OBVIOUS
<1>1. CASE UNCHANGED vars
  <2>1. \A p \in Passes : PassOK(pass'[p], execs', spans', seen')
    BY <1>1 DEF ClustersInv, vars
  <2>2. (StoresTyped /\ RowsWhole(execs) /\ SourceInv /\ LinkIsOfItsTrace)'
    BY <1>1 DEF ClustersInv, vars, StoresTyped, RowsWhole, SourceInv, LinkIsOfItsTrace
  <2>. QED
    BY <2>1, <2>2 DEF ClustersInv
<1>2. CASE Otlp
  BY <1>2, WriteStep, CountStep DEF Otlp
<1>3. CASE Grpc
  BY <1>3, UpsertStep, InsertStep DEF Grpc
<1>4. CASE Backfill
  BY <1>4, RunStep, ScanStep, FetchStep, ResolveStep, AssignStep, DiesStep DEF Backfill
<1>5. CASE \E t \in Traces : SpansExpire(t)
  BY <1>5, ExpireStep
<1>. QED
  BY <1>1, <1>2, <1>3, <1>4, <1>5 DEF Next

-----------------------------------------------------------------------------
(* Counting: what is delivered, what is counted, what is still to count.   *)

\* The failures of a batch are finitely many.
LEMMA HitsFinite ==
    ASSUME NEW r \in Requests, NEW f
    PROVE  /\ IsFiniteSet(flatten(r)) /\ flatten(r) \in SUBSET Nat
           /\ IsFiniteSet(Hits(r, f)) /\ Cardinality(Hits(r, f)) \in Nat
<1>1. Len(r) \in Nat /\ DOMAIN r = 1..Len(r)
  BY InputsAssumption
<1>2. IsFiniteSet(1..Len(r))
  BY <1>1, FS_Interval
<1>3. flatten(r) \in SUBSET (1..Len(r)) /\ Hits(r, f) \in SUBSET (1..Len(r))
  BY <1>1 DEF flatten, Hits
<1>4. IsFiniteSet(flatten(r)) /\ IsFiniteSet(Hits(r, f))
  BY <1>2, <1>3, FS_Subset
<1>5. flatten(r) \in SUBSET Nat
  BY <1>1, <1>3
<1>. QED
  BY <1>4, <1>5, FS_CardinalityType

\* Failures of a cluster among places x of the batches.
Places(x, f) == UNION {{r} \X (x[r] \cap Hits(r, f)) : r \in Requests}

\* They are finitely many.
LEMMA PlacesFinite ==
    ASSUME NEW x, NEW f
    PROVE  IsFiniteSet(Places(x, f)) /\ Cardinality(Places(x, f)) \in Nat
<1>. DEFINE Of(r) == {r} \X (x[r] \cap Hits(r, f))
            parts == {Of(r) : r \in Requests}
            g == [r \in Requests |-> Of(r)]
<1>1. ASSUME NEW r \in Requests PROVE IsFiniteSet(Of(r))
  <2>. DEFINE H == x[r] \cap Hits(r, f)
  <2>1. IsFiniteSet({r})
    BY FS_Singleton
  <2>2. IsFiniteSet(H)
    <3>1. H \in SUBSET Hits(r, f)
      OBVIOUS
    <3>. HIDE DEF H
    <3>. QED
      BY <3>1, HitsFinite, FS_Subset
  <2>. HIDE DEF H
  <2>3. IsFiniteSet({r} \X H)
    BY <2>1, <2>2, FS_Product, Zenon
  <2>. QED
    BY <2>3 DEF H
<1>2. g \in Surjection(Requests, parts)
  BY DEF Surjection
<1>3. \A T \in parts : IsFiniteSet(T)
  BY <1>1
<1>4. IsFiniteSet(parts)
  <2>. HIDE DEF g, parts
  <2>. QED
    BY <1>2, ClustersAssumption, FS_Surjection
<1>5. IsFiniteSet(UNION parts)
  <2>. HIDE DEF parts
  <2>. QED
    BY <1>3, <1>4, FS_UNION, Zenon
<1>6. IsFiniteSet(Places(x, f))
  BY <1>5 DEF Places
<1>. QED
  BY <1>6, FS_CardinalityType

\* Fewer places hold no more of them.
LEMMA PlacesShrink ==
    ASSUME NEW x, NEW y, NEW f, \A r \in Requests : y[r] \subseteq x[r]
    PROVE  Cardinality(Places(y, f)) <= Cardinality(Places(x, f))
<1>1. Places(y, f) \in SUBSET Places(x, f)
  BY DEF Places
<1>. QED
  BY <1>1, PlacesFinite, FS_Subset

\* A delivery adds no more than the batch holds.
LEMMA PlacesDelivered ==
    ASSUME NEW x, NEW y, NEW f, NEW r \in Requests,
           \A o \in Requests : o # r => y[o] = x[o]
    PROVE  Cardinality(Places(y, f)) <= Cardinality(Places(x, f)) + Cardinality(Hits(r, f))
<1>. DEFINE H == Hits(r, f)
            Q == {r} \X H
<1>1. IsFiniteSet(H) /\ Cardinality(H) \in Nat
  BY HitsFinite
<1>. HIDE DEF H
<1>2. IsFiniteSet({r}) /\ Cardinality({r}) = 1
  BY FS_Singleton
<1>3. IsFiniteSet(Q) /\ Cardinality(Q) = Cardinality({r}) * Cardinality(H)
  BY <1>1, <1>2, FS_Product, Zenon
<1>4. Places(y, f) \in SUBSET (Places(x, f) \cup Q)
  BY DEF Places, H
<1>. HIDE DEF Q
<1>5. /\ IsFiniteSet(Places(x, f) \cup Q)
      /\ Cardinality(Places(x, f) \cup Q) =
           Cardinality(Places(x, f)) + Cardinality(Q) - Cardinality(Places(x, f) \cap Q)
  BY <1>3, PlacesFinite, FS_Union
<1>6. Cardinality(Places(x, f) \cap Q) \in Nat
  BY <1>3, FS_Intersection, FS_CardinalityType
<1>7. Cardinality(Places(y, f)) <= Cardinality(Places(x, f) \cup Q)
  BY <1>4, <1>5, FS_Subset
<1>. QED
  BY <1>1, <1>2, <1>3, <1>5, <1>6, <1>7, PlacesFinite DEF H

\* Counting a failure of the cluster leaves one less to count.
LEMMA PlacesCounted ==
    ASSUME NEW x, NEW y, NEW f, NEW r \in Requests, NEW i \in x[r] \cap Hits(r, f),
           y[r] = x[r] \ {i}, \A o \in Requests : o # r => y[o] = x[o]
    PROVE  Cardinality(Places(y, f)) = Cardinality(Places(x, f)) - 1
<1>1. <<r, i>> \in Places(x, f)
  BY DEF Places
<1>2. Places(y, f) = Places(x, f) \ {<<r, i>>}
  BY DEF Places
<1>. DEFINE P == Places(x, f)
            p == <<r, i>>
<1>3. IsFiniteSet(P)
  BY PlacesFinite
<1>. HIDE DEF P, p
<1>4. p \in P => Cardinality(P \ {p}) = Cardinality(P) - 1
  BY <1>3, FS_RemoveElement
<1>. QED
  BY <1>1, <1>2, <1>4 DEF P, p

\* What CountsInv says of one cluster: n of the d failures delivered are counted
\* and w still to count; b, whether the backfill inserted the row.
Paid(n, w, d, b) == /\ b => n > 0
                    /\ n + w <= d + (IF b THEN 1 ELSE 0)

\* It says that of each cluster.
LEMMA CountsArePaid ==
    CountsInv <=> \A f \in Fingerprints :
        Paid(occurrences[f], Cardinality(Places(export, f)), delivered[f], f \in born)
BY DEF CountsInv, Paid, Uncounted, Places

\* The steps that may change a count or what is left to count, one cluster at a
\* time: a delivery pays for all it carries, a count for itself, and a link
\* counts once, for a row that was not there.
LEMMA Payments ==
    ASSUME NEW n \in Nat, NEW w \in Nat, NEW d \in Nat, NEW b \in BOOLEAN,
           Paid(n, w, d, b)
    PROVE  /\ \A v \in Nat : v <= w => Paid(n, v, d, b)
           /\ \A v \in Nat, h \in Nat : v <= w + h => Paid(n, v, d + h, b)
           /\ \A v \in Nat : v <= w => Paid(n + 1, v, d + 1, b)
           /\ \A v \in Nat : v = w - 1 => Paid(n + 1, v, d, b)
           /\ n = 0 => Paid(1, w, d, TRUE)
<1>1. CASE b
  BY <1>1 DEF Paid
<1>2. CASE ~b
  BY <1>2 DEF Paid
<1>. QED
  BY <1>1, <1>2

\* What an export has still to count are failures of its batch.
LEMMA ExportInit == Init => ExportTyped
BY DEF Init, ExportTyped

\* A delivery sets it, counting and dying only take from it.
LEMMA ExportStep == ClustersInv /\ ExportTyped /\ [Next]_vars => ExportTyped'
<1>. SUFFICES ASSUME ClustersInv, ExportTyped, [Next]_vars PROVE ExportTyped'
  OBVIOUS
<1>. DEFINE Books == delivered' \in [Fingerprints -> Nat] /\ born' \in SUBSET Fingerprints
<1>0. UNCHANGED <<delivered, born>> => Books
  BY DEF ExportTyped
<1>1. ASSUME export' = export, Books PROVE ExportTyped'
  BY <1>1 DEF ExportTyped
<1>2. ASSUME NEW r \in Requests, NEW left \in SUBSET flatten(r),
             export' = [export EXCEPT ![r] = left], Books
      PROVE  ExportTyped'
  BY <1>2, HitsFinite DEF ExportTyped
<1>. HIDE DEF Books
<1>3. CASE UNCHANGED vars
  BY <1>0, <1>1, <1>3 DEF vars
<1>4. CASE Otlp
  <2>1. ASSUME NEW r \in Requests, ExportWrite(r) PROVE ExportTyped'
    <3>1. \A f \in Fingerprints : delivered[f] + Cardinality(Hits(r, f)) \in Nat
      BY HitsFinite DEF ExportTyped
    <3>2. Books
      BY <2>1, <3>1 DEF ExportWrite, ExportTyped, Books
    <3>. QED
      BY <1>2, <2>1, <3>2 DEF ExportWrite
  <2>2. ASSUME NEW r \in Requests, ExportCount(r) PROVE ExportTyped'
    <3>1. export' = [export EXCEPT ![r] = export[r] \ {First(export[r])}]
      BY <2>2 DEF ExportCount
    <3>2. export[r] \ {First(export[r])} \in SUBSET flatten(r)
      BY DEF ExportTyped
    <3>3. Books
      BY <1>0, <2>2 DEF ExportCount
    <3>. QED
      BY <1>2, <3>1, <3>2, <3>3
  <2>3. ASSUME NEW r \in Requests, ExportDies(r) PROVE ExportTyped'
    <3>1. export' = [export EXCEPT ![r] = {}] /\ {} \in SUBSET flatten(r)
      BY <2>3 DEF ExportDies
    <3>2. Books
      BY <1>0, <2>3 DEF ExportDies
    <3>. QED
      BY <1>2, <3>1, <3>2
  <2>. QED
    BY <1>4, <2>1, <2>2, <2>3 DEF Otlp
<1>5. CASE Grpc
  <2>1. ASSUME NEW m \in Reports, ReportUpsert(m) PROVE ExportTyped'
    <3>1. \A f \in Fingerprints : delivered[f] \in Nat /\ delivered[f] + 1 \in Nat
      BY DEF ExportTyped
    <3>2. Books
      BY <2>1, <3>1 DEF ReportUpsert, ExportTyped, Books
    <3>. QED
      BY <1>1, <2>1, <3>2 DEF ReportUpsert
  <2>2. ASSUME NEW m \in Reports, ReportInsert(m) \/ ReportFails(m) PROVE ExportTyped'
    BY <1>0, <1>1, <2>2 DEF ReportInsert, ReportFails
  <2>. QED
    BY <1>5, <2>1, <2>2 DEF Grpc
<1>6. CASE Backfill
  <2>1. ASSUME NEW p \in Passes, ResolveCluster(p) PROVE ExportTyped'
    <3>. DEFINE f == FingerprintStack(pass[p].stacks[execs[Current(p)].trace].stack)
    <3>0. f \in Fingerprints
      BY <2>1, ResolvedFingerprint
    <3>1. born' \in {born, born \cup {f}}
      BY <2>1 DEF ResolveCluster
    <3>. HIDE DEF f
    <3>2. Books
      BY <2>1, <3>0, <3>1 DEF ResolveCluster, ExportTyped, Books
    <3>. QED
      BY <1>1, <2>1, <3>2 DEF ResolveCluster
  <2>2. ASSUME NEW p \in Passes, ~ResolveCluster(p),
               \/ Run(p) \/ PendingFailures(p) \/ FetchStack(p) \/ AssignCluster(p)
               \/ PassDies(p)
        PROVE  ExportTyped'
    BY <1>0, <1>1, <2>2 DEF Run, PendingFailures, FetchStack, AssignCluster, PassDies
  <2>. QED
    BY <1>6, <2>1, <2>2 DEF Backfill
<1>7. CASE \E t \in Traces : SpansExpire(t)
  BY <1>0, <1>1, <1>7 DEF SpansExpire
<1>. QED
  BY <1>3, <1>4, <1>5, <1>6, <1>7 DEF Next

\* Nothing is counted at first.
LEMMA CountsInit == Init => CountsInv
<1>. SUFFICES ASSUME Init, NEW f \in Fingerprints
     PROVE Paid(occurrences[f], Cardinality(Places(export, f)), delivered[f], f \in born)
  BY CountsArePaid
<1>1. /\ occurrences[f] = 0 /\ delivered[f] = 0 /\ born = {}
      /\ \A r \in Requests : export[r] = {}
  BY DEF Init
<1>2. Places(export, f) = {}
  BY <1>1 DEF Places
<1>3. Cardinality(Places(export, f)) = 0
  BY <1>2, FS_EmptySet
<1>. QED
  BY <1>1, <1>3 DEF Paid

\* Every step pays for what it counts.
LEMMA CountsStep ==
    StoresTyped /\ ExportTyped /\ CountsInv /\ [Next]_vars => CountsInv'
<1>. SUFFICES ASSUME StoresTyped, ExportTyped, CountsInv, [Next]_vars,
                     NEW f \in Fingerprints
     PROVE Paid(occurrences'[f], Cardinality(Places(export', f)), delivered'[f],
                f \in born')
  BY DEF CountsInv, Paid, Uncounted, Places
<1>. DEFINE n == occurrences[f]
            w == Cardinality(Places(export, f))
            d == delivered[f]
            b == f \in born
            v == Cardinality(Places(export', f))
            Goal == Paid(occurrences'[f], v, delivered'[f], f \in born')
<1>0. /\ n \in Nat /\ w \in Nat /\ d \in Nat /\ v \in Nat /\ b \in BOOLEAN
      /\ Paid(n, w, d, b)
  <2>1. n \in Nat /\ d \in Nat
    BY DEF StoresTyped, ExportTyped
  <2>. QED
    BY <2>1, CountsArePaid, PlacesFinite
<1>1. export' = export => v = w
  OBVIOUS
<1>2. \A c : /\ UpsertCluster(c)[f] = IF c = f THEN n + 1 ELSE n
             /\ ClusterFor(c)[f] = IF c = f /\ n = 0 THEN 1 ELSE n
  BY DEF StoresTyped, UpsertCluster, ClusterFor
<1>. HIDE DEF n, w, d, v
<1>3. ASSUME n = occurrences'[f], v <= w, UNCHANGED <<delivered, born>>
      PROVE  Goal
  BY <1>0, <1>3, Payments DEF d
<1>4. ASSUME occurrences' = occurrences, export' = export, UNCHANGED <<delivered, born>>
      PROVE  Goal
  BY <1>0, <1>1, <1>3, <1>4 DEF n
<1>. SUFFICES Goal
  BY DEF v
<1>. HIDE DEF Goal
<1>5. CASE UNCHANGED vars
  BY <1>4, <1>5 DEF vars
<1>6. ASSUME NEW r \in Requests, ExportWrite(r) PROVE Goal
  <2>1. \A o \in Requests : o # r => export'[o] = export[o]
    BY <1>6 DEF ExportWrite, ExportTyped
  <2>2. v <= w + Cardinality(Hits(r, f)) /\ Cardinality(Hits(r, f)) \in Nat
    BY <2>1, PlacesDelivered, HitsFinite DEF v, w
  <2>3. /\ occurrences'[f] = n /\ delivered'[f] = d + Cardinality(Hits(r, f))
        /\ born' = born
    BY <1>6 DEF ExportWrite, n, d
  <2>. QED
    <3>1. Paid(n, v, d + Cardinality(Hits(r, f)), b)
      BY <1>0, <2>2, Payments
    <3>. QED
      BY <2>3, <3>1 DEF Goal
<1>7. ASSUME NEW r \in Requests, ExportCount(r) PROVE Goal
  <2>. DEFINE i == First(export[r])
              c == FingerprintStack(r[i].stack)
  <2>1. i \in export[r] /\ i \in flatten(r)
    <3>1. export[r] \in SUBSET Nat /\ export[r] # {} /\ export[r] \subseteq flatten(r)
      BY <1>7 DEF ExportCount, ExportTyped
    <3>2. i \in export[r]
      BY <3>1, LeastNumber DEF First
    <3>. QED
      BY <3>1, <3>2
  <2>2. /\ export'[r] = export[r] \ {i} /\ UNCHANGED <<delivered, born>>
        /\ \A o \in Requests : o # r => export'[o] = export[o]
    BY <1>7 DEF ExportCount, ExportTyped
  <2>3. \/ occurrences' = occurrences
        \/ r[i].stack # Empty /\ occurrences' = UpsertCluster(c)
    BY <1>7 DEF ExportCount
  <2>4. CASE occurrences'[f] = n
    <3>1. \A o \in Requests : export'[o] \subseteq export[o]
      BY <2>2
    <3>2. v <= w
      BY <3>1, PlacesShrink DEF v, w
    <3>. QED
      BY <1>3, <2>2, <2>4, <3>2
  <2>5. CASE occurrences'[f] # n
    <3>1. r[i].stack # Empty /\ c = f /\ occurrences'[f] = n + 1
      BY <1>2, <2>3, <2>5 DEF n
    <3>2. i \in export[r] \cap Hits(r, f)
      BY <2>1, <3>1 DEF Hits
    <3>3. v = w - 1
      <4>. HIDE DEF i
      <4>. QED
        BY <2>2, <3>2, PlacesCounted DEF v, w
    <3>4. delivered'[f] = d /\ born' = born
      BY <2>2 DEF d
    <3>. QED
      <4>1. Paid(n + 1, v, d, b)
        BY <1>0, <3>3, Payments
      <4>. QED
        BY <3>1, <3>4, <4>1 DEF Goal
  <2>. QED
    BY <2>4, <2>5
<1>8. ASSUME NEW r \in Requests, ExportDies(r) PROVE Goal
  <2>1. \A o \in Requests : export'[o] \subseteq export[o]
    BY <1>8 DEF ExportDies, ExportTyped
  <2>2. v <= w
    BY <2>1, PlacesShrink DEF v, w
  <2>3. n = occurrences'[f] /\ UNCHANGED <<delivered, born>>
    BY <1>8 DEF ExportDies, n
  <2>. QED
    BY <1>3, <2>2, <2>3
<1>9. ASSUME NEW o \in Reports, ReportUpsert(o) PROVE Goal
  <2>. DEFINE hit == Clustered(o) /\ FingerprintStack(o.stack) = f
  <2>1. export' = export /\ delivered'[f] = (IF hit THEN d + 1 ELSE d) /\ born' = born
    BY <1>9 DEF ReportUpsert, d
  <2>2. occurrences'[f] = n \/ (hit /\ occurrences'[f] = n + 1)
    <3>1. \/ occurrences' = occurrences
          \/ Clustered(o) /\ occurrences' = UpsertCluster(FingerprintStack(o.stack))
      BY <1>9 DEF ReportUpsert
    <3>. QED
      BY <1>2, <3>1 DEF n
  <2>3. v <= w /\ v <= w + 1 /\ v <= w + 0
    BY <1>0, <1>1, <2>1
  <2>. HIDE DEF hit
  <2>4. CASE occurrences'[f] = n
    <3>1. Paid(n, v, d + 1, b) /\ Paid(n, v, d, b)
      BY <1>0, <2>3, Payments
    <3>. QED
      BY <2>1, <2>4, <3>1 DEF Goal
  <2>5. CASE hit /\ occurrences'[f] = n + 1
    <3>1. Paid(n + 1, v, d + 1, b)
      BY <1>0, <2>3, Payments
    <3>. QED
      BY <2>1, <2>5, <3>1 DEF Goal
  <2>. QED
    BY <2>2, <2>4, <2>5
<1>10. ASSUME NEW p \in Passes, ResolveCluster(p) PROVE Goal
  <2>. DEFINE c == FingerprintStack(pass[p].stacks[execs[Current(p)].trace].stack)
  <2>1. export' = export /\ delivered'[f] = d
    BY <1>10 DEF ResolveCluster, d
  <2>2. \/ occurrences' = occurrences /\ born' = born
        \/ /\ occurrences' = ClusterFor(c)
           /\ born' = IF occurrences[c] = 0 THEN born \cup {c} ELSE born
    BY <1>10 DEF ResolveCluster
  <2>. HIDE DEF c
  <2>3. \/ occurrences'[f] = n /\ (f \in born' <=> b)
        \/ n = 0 /\ occurrences'[f] = 1 /\ f \in born'
    BY <1>2, <2>2 DEF n
  <2>4. v = w /\ Paid(n, w, d, b) /\ (n = 0 => Paid(1, w, d, TRUE))
    BY <1>0, <1>1, <2>1, Payments
  <2>. QED
    BY <2>1, <2>3, <2>4 DEF Goal, Paid
<1>11. CASE Otlp
  BY <1>6, <1>7, <1>8, <1>11 DEF Otlp
<1>12. CASE Grpc
  BY <1>4, <1>9, <1>12 DEF Grpc, ReportInsert, ReportFails
<1>13. CASE Backfill
  BY <1>4, <1>10, <1>13 DEF Backfill, Run, PendingFailures, FetchStack, AssignCluster,
                            PassDies
<1>14. CASE \E t \in Traces : SpansExpire(t)
  BY <1>4, <1>14 DEF SpansExpire
<1>. QED
  BY <1>5, <1>11, <1>12, <1>13, <1>14 DEF Next

-----------------------------------------------------------------------------
(* The theorems.                                                           *)

\* Whatever spans arrive and expire, whichever results are reported and however
\* passes overlap, fail and die, the stores, the caches and the queues of the
\* passes fit together (Export, ReportTestFinished, Backfiller.Run).
THEOREM ClustersInvariant == Spec => []ClustersInv
<1>. QED
  BY InvInit, InvStep, PTL DEF Spec

\* Both databases, every pass and every export under way hold what their columns
\* and variables may hold; an export has only failures of its batch to count.
THEOREM ClustersTypeCorrect == Spec => []TypeOK
<1>1. ClustersInv /\ ExportTyped => TypeOK
  BY DEF ClustersInv, TypeOK
<1>. QED
  BY <1>1, ClustersInvariant, ExportInit, ExportStep, PTL DEF Spec

\* An execution is linked to the cluster of a stack exported for its own trace, or
\* reported with it, in every deployment: the per-trace caches of Backfiller.Run
\* never lend one trace's stack or cluster to another.
THEOREM LinksAreOfTheirTrace == Spec => []LinkIsOfItsTrace
<1>1. ClustersInv => LinkIsOfItsTrace
  BY DEF ClustersInv
<1>. QED
  BY <1>1, ClustersInvariant, PTL

\* No step replaces or removes a link, however many passes and reports race for
\* the row (AssignCluster's IS NULL, the ON CONFLICT of ReportTestFinished).
THEOREM LinksAreFinal == Spec => LinkIsFinal
<1>1. ClustersInv /\ [Next]_vars =>
        \A e \in Execs : execs[e].link # NoCluster => execs'[e].link = execs[e].link
  BY TableStep DEF Later
<1>. QED
  BY <1>1, ClustersInvariant, PTL DEF Spec, LinkIsFinal

\* For every page size and any number of overlapping passes, a pass that ends
\* without an error leaves none of the failures unlinked that were pending when
\* it began and whose trace has had a stack ever since (PendingFailures, Run).
THEOREM CompletePassesLink == Spec => []CompletePassLinks
<1>1. ClustersInv => CompletePassLinks
  BY DEF ClustersInv, PassOK, Owed, CompletePassLinks
<1>. QED
  BY <1>1, ClustersInvariant, PTL

\* However often batches and results are repeated, replicas die half way through a
\* batch and backfills run, a cluster's count is at most the number of failures
\* delivered to it, and one more if a backfill inserted its row (UpsertCluster,
\* ClusterFor).
THEOREM CountsAreOfDeliveries == Spec => []CountsDeliveries
<1>1. TypeOK => StoresTyped /\ ExportTyped
  BY DEF TypeOK
<1>2. TypeOK /\ CountsInv => CountsDeliveries
  <2>. SUFFICES ASSUME TypeOK, CountsInv, NEW f \in Fingerprints
       PROVE occurrences[f] <= delivered[f] + (IF f \in born THEN 1 ELSE 0)
    BY DEF CountsDeliveries
  <2>1. /\ occurrences[f] \in Nat /\ delivered[f] \in Nat
        /\ Cardinality(Places(export, f)) \in Nat
    BY PlacesFinite DEF TypeOK, StoresTyped, ExportTyped
  <2>. QED
    BY <2>1, CountsArePaid DEF Paid
<1>. QED
  BY <1>1, <1>2, ClustersTypeCorrect, CountsInit, CountsStep, PTL DEF Spec
=============================================================================
