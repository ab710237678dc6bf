-------------------------- MODULE FailureClusters --------------------------
(***************************************************************************)
(* Failures grouped by the fingerprint of their stack: spans that arrive   *)
(* over OTLP (Export), test results reported over gRPC                     *)
(* (ReportTestFinished), and the backfill job, which links the executions  *)
(* the OTLP path leaves without a cluster.                                 *)
(*                                                                         *)
(* Spans are in ClickHouse, executions and clusters in PostgreSQL; each    *)
(* step below makes one call to one of the two. One repository: a cluster  *)
(* is named by its fingerprint, which is unique within a repository.       *)
(***************************************************************************)
EXTENDS Integers, Sequences, FiniteSets, Functions

CONSTANTS
    Execs,          \* ids of executions, ordered
    Traces, NoTrace,
    NoCluster,
    Requests,       \* OTLP batches: sequences of spans
    Reports,        \* TestFinished messages: [exec, outcome, stack]
    History,        \* tables of executions a behaviour starts with
    Flags,          \* [dry, since]: flags of a pass
    Passes,         \* runs of backfill-clusters that may overlap
    PageSize,       \* pendingFailuresPageSize
    TailLines,      \* lines normalizeGeneric keeps
    MaxDeliveries,  \* bound: deliveries of batches and reports
    FaultLimit      \* bound: failing calls, crashes and expiries

ASSUME ClustersAssumption ==
    /\ Execs \subseteq Nat \ {0} /\ IsFiniteSet(Execs)
    /\ IsFiniteSet(Requests)
    /\ NoTrace \notin Traces
    /\ {PageSize, TailLines} \subseteq Nat \ {0}
    /\ {MaxDeliveries, FaultLimit} \subseteq Nat

VARIABLES
    execs,       \* execs[e]: Absent, or the row of teo.test_executions
    spans,       \* error spans of teo.span_events
    occurrences, \* occurrences[f]: of the row of teo.failure_clusters, 0 if none
    export,      \* export[r]: places in r of the failures Export has still to count
    report,      \* report[m]: where ReportTestFinished is with m
    pass,        \* pass[p]: a run of the backfill job; want: the executions
                 \* it owes a link, if it is no dry run and meets no error
    seen,        \* seen[t]: fingerprints exported for trace t so far
    delivered,   \* delivered[f]: failures of cluster f delivered so far, repeats too
    born,        \* clusters whose row the backfill inserted
    deliveries, faults

vars == <<execs, spans, occurrences, export, report, pass, seen, delivered, born,
          deliveries, faults>>

(***************************************************************************)
(* Stacks are sequences of lines. A line is a frame of a Python traceback, *)
(* "Name: message" for the name of an exception, other text, or blank. n   *)
(* is the number or address in it, which varies from failure to failure.   *)
(***************************************************************************)
Empty == <<>>
Failing == {"failed", "errored", "timed_out"}

isPythonTraceback(s) == \E i \in DOMAIN s : s[i].kind \in {"header", "frame"}

\* Frames keep file and function, exceptions their name; the rest is dropped.
normalizePython(s) ==
    LET kept == SelectSeq(s, LAMBDA l : l.kind \in {"frame", "exception"}) IN
    [i \in DOMAIN kept |-> <<kept[i].head, "">>]

\* The last lines, their numbers and addresses replaced by a placeholder.
normalizeGeneric(s) ==
    LET kept == SelectSeq(s, LAMBDA l : l.kind # "blank")
        drop == IF Len(kept) > TailLines THEN Len(kept) - TailLines ELSE 0 IN
    [i \in 1..(Len(kept) - drop) |-> <<kept[i + drop].head, kept[i + drop].rest>>]

\* hex(sha256(text)) tells texts apart, and is not empty for an empty text.
FingerprintStack(s) ==
    IF isPythonTraceback(s) THEN normalizePython(s) ELSE normalizeGeneric(s)

AllStacks == {sp.stack : sp \in UNION {Range(r) : r \in Requests}}
             \cup {m.stack : m \in Reports}
Fingerprints == {FingerprintStack(s) : s \in AllStacks \ {Empty}}

Rows == [there : BOOLEAN, trace : Traces \cup {NoTrace},
         outcome : Failing \cup {"", "passed"}, old : BOOLEAN,
         link : Fingerprints \cup {NoCluster}]
Absent == [there |-> FALSE, trace |-> NoTrace, outcome |-> "", old |-> FALSE,
           link |-> NoCluster]
Unread == [got |-> "unread", stack |-> Empty]
Idle == [pc |-> "idle", dry |-> FALSE, since |-> FALSE, cursor |-> 0, todo |-> {},
         stacks |-> [t \in Traces |-> Unread], cids |-> [t \in Traces |-> NoCluster],
         errors |-> FALSE, want |-> {}]
Waiting == [pc |-> "idle", cid |-> NoCluster]

\* A fingerprint is no NULL; spans and reports are of this table's traces and
\* executions; the rows a behaviour starts with wait for their first link.
ASSUME InputsAssumption ==
    /\ NoCluster \notin Fingerprints
    /\ \A r \in Requests : r \in Seq(Range(r)) /\ \A sp \in Range(r) : sp.trace \in Traces
    /\ \A m \in Reports : m.exec \in Execs /\ m.outcome \in Failing \cup {"passed"}
    /\ \A fl \in Flags : fl.dry \in BOOLEAN /\ fl.since \in BOOLEAN
    /\ \A h \in History :
         /\ h \in [Execs -> Rows]
         /\ \A e \in Execs : h[e].link = NoCluster /\ (h[e].there \/ h[e] = Absent)

Fault == faults < FaultLimit /\ faults' = faults + 1
Delivery == deliveries < MaxDeliveries /\ deliveries' = deliveries + 1

Answers == [got : {"unread", "ok", "error"}, stack : AllStacks \cup {Empty}]
PassStates ==
    [pc : {"idle", "scan", "rows", "cluster", "assign", "done"},
     dry : BOOLEAN, since : BOOLEAN, cursor : Execs \cup {0}, todo : SUBSET Execs,
     stacks : [Traces -> Answers], cids : [Traces -> Fingerprints \cup {NoCluster}],
     errors : BOOLEAN, want : SUBSET Execs]

StoresTyped ==
    /\ execs \in [Execs -> Rows]
    /\ \A sp \in spans : sp.trace \in Traces /\ sp.code = "error" /\ sp.stack \in AllStacks
    /\ occurrences \in [Fingerprints -> Nat]
    /\ report \in [Reports -> [pc : {"idle", "insert"},
                               cid : Fingerprints \cup {NoCluster}]]
    /\ pass \in [Passes -> PassStates]
    /\ seen \in [Traces -> SUBSET Fingerprints]
    /\ deliveries \in 0..MaxDeliveries /\ faults \in 0..FaultLimit

\* The failures of a batch, by their places.
flatten(r) == {i \in DOMAIN r : r[i].code = "error"}

\* Those of one cluster.
Hits(r, f) == {i \in flatten(r) : r[i].stack # Empty /\ FingerprintStack(r[i].stack) = f}

ExportTyped ==
    /\ export \in [Requests -> SUBSET Nat]
    /\ \A r \in Requests : export[r] \subseteq flatten(r)
    /\ delivered \in [Fingerprints -> Nat] /\ born \in SUBSET Fingerprints

TypeOK == StoresTyped /\ ExportTyped

Init ==
    /\ execs \in History
    /\ spans = {}
    /\ occurrences = [f \in Fingerprints |-> 0]
    /\ export = [r \in Requests |-> {}]
    /\ report = [m \in Reports |-> Waiting]
    /\ pass = [p \in Passes |-> Idle]
    /\ seen = [t \in Traces |-> {}]
    /\ delivered = [f \in Fingerprints |-> 0] /\ born = {}
    /\ deliveries = 0 /\ faults = 0

(***************************************************************************)
(* The two statements on teo.failure_clusters. Both insert the row if the  *)
(* fingerprint is new; its count starts at 1.                              *)
(***************************************************************************)
UpsertCluster(f) == [occurrences EXCEPT ![f] = @ + 1]
ClusterForCounting(f) == UpsertCluster(f)
ClusterFor(f) == [occurrences EXCEPT ![f] = IF @ = 0 THEN 1 ELSE @]

(***************************************************************************)
(* What ClickHouse answers for a trace: the stack of an error span that    *)
(* ended last, empty if that span has none or the trace no error span.     *)
(***************************************************************************)
ErrorSpans(all, t) == {sp \in all : sp.trace = t}
Newest(all, t) ==
    {sp \in ErrorSpans(all, t) : \A o \in ErrorSpans(all, t) : o.end <= sp.end}
StackFor(t) ==
    IF ErrorSpans(spans, t) = {} THEN {Empty} ELSE {sp.stack : sp \in Newest(spans, t)}
HasStack(all, t) == ErrorSpans(all, t) # {} /\ \A sp \in Newest(all, t) : sp.stack # Empty

\* Executions whose trace has had a stack ever since the pass began.
StillWanted(all) ==
    [p \in Passes |-> [pass[p] EXCEPT
        !.want = {e \in @ : HasStack(all, execs[e].trace)}]]

(***************************************************************************)
(* OTLP. A client repeats a batch until it is answered, and may repeat one *)
(* that was.                                                               *)
(***************************************************************************)
\* The whole batch is stored; then its failures are counted one by one.
ExportWrite(r) ==
    LET errs == {sp \in Range(r) : sp.code = "error"}
        all == spans \cup errs IN
    /\ export[r] = {} /\ r # <<>>
    /\ Delivery
    /\ spans' = all
    /\ pass' = StillWanted(all)
    /\ export' = [export EXCEPT ![r] = flatten(r)]
    /\ seen' = [t \in Traces |-> seen[t] \cup
                  {FingerprintStack(sp.stack) :
                     sp \in {x \in errs : x.trace = t /\ x.stack # Empty}}]
    /\ delivered' = [f \in Fingerprints |-> delivered[f] + Cardinality(Hits(r, f))]
    /\ UNCHANGED <<execs, occurrences, report, born, faults>>

First(rows) == CHOOSE e \in rows : \A o \in rows : e <= o

\* A failing statement is logged, and the failure stays uncounted.
ExportCount(r) ==
    LET i == First(export[r])
        stack == r[i].stack IN
    /\ export[r] # {}
    /\ export' = [export EXCEPT ![r] = @ \ {i}]
    /\ \/ /\ occurrences' = IF stack = Empty THEN occurrences
                            ELSE UpsertCluster(FingerprintStack(stack))
          /\ UNCHANGED faults
       \/ Fault /\ UNCHANGED occurrences
    /\ UNCHANGED <<execs, spans, report, pass, seen, delivered, born, deliveries>>

\* The replica dies between two failures of a batch.
ExportDies(r) ==
    /\ export[r] # {}
    /\ Fault
    /\ export' = [export EXCEPT ![r] = {}]
    /\ UNCHANGED <<execs, spans, occurrences, report, pass, seen, delivered, born, deliveries>>

\* ClickHouse drops spans of a trace past their TTL.
SpansExpire(t) ==
    LET all == spans \ ErrorSpans(spans, t) IN
    /\ all # spans
    /\ Fault
    /\ spans' = all
    /\ pass' = StillWanted(all)
    /\ UNCHANGED <<execs, occurrences, export, report, seen, delivered, born, deliveries>>

(***************************************************************************)
(* gRPC. The cluster is counted before the row is inserted, each in a      *)
(* statement of its own; the row of a result reported before is kept.      *)
(***************************************************************************)
Clustered(m) == m.outcome \in Failing /\ m.stack # Empty

ReportUpsert(m) ==
    /\ report[m].pc = "idle"
    /\ Delivery
    /\ \/ /\ Clustered(m)
          /\ occurrences' = UpsertCluster(FingerprintStack(m.stack))
          /\ report' = [report EXCEPT ![m] =
                          [pc |-> "insert", cid |-> FingerprintStack(m.stack)]]
          /\ UNCHANGED faults
       \/ /\ (Clustered(m) /\ Fault) \/ (~Clustered(m) /\ UNCHANGED faults)
          /\ report' = [report EXCEPT ![m] = [pc |-> "insert", cid |-> NoCluster]]
          /\ UNCHANGED occurrences
    /\ delivered' = [f \in Fingerprints |->
                       IF Clustered(m) /\ FingerprintStack(m.stack) = f
                       THEN delivered[f] + 1 ELSE delivered[f]]
    /\ UNCHANGED <<execs, spans, export, pass, seen, born>>

ReportInsert(m) ==
    /\ report[m].pc = "insert"
    /\ execs' = IF execs[m.exec].there THEN execs
                ELSE [execs EXCEPT ![m.exec] =
                        [there |-> TRUE, trace |-> NoTrace, outcome |-> m.outcome,
                         old |-> FALSE, link |-> report[m].cid]]
    /\ report' = [report EXCEPT ![m] = Waiting]
    /\ UNCHANGED <<spans, occurrences, export, pass, seen, delivered, born, deliveries, faults>>

\* The INSERT fails or the process dies; the worker may report again.
ReportFails(m) ==
    /\ report[m].pc = "insert"
    /\ Fault
    /\ report' = [report EXCEPT ![m] = Waiting]
    /\ UNCHANGED <<execs, spans, occurrences, export, pass, seen, delivered, born, deliveries>>

(***************************************************************************)
(* Backfill. The candidates are fetched in pages by id, then each is given *)
(* its cluster; stack and cluster are cached by trace.                     *)
(***************************************************************************)
IsPending(e, since) ==
    /\ execs[e].there /\ execs[e].link = NoCluster
    /\ execs[e].outcome \in Failing
    /\ execs[e].trace # NoTrace
    /\ since => ~execs[e].old

\* The mutant pages by the number of rows fetched so far.
pendingFailuresPageByOffset(p) ==
    LET all == {e \in Execs : IsPending(e, pass[p].since)}
        rank(e) == Cardinality({o \in all : o <= e})
        got == Cardinality(pass[p].todo) IN
    {e \in all : got < rank(e) /\ rank(e) <= got + PageSize}
pendingFailuresPage(p) ==
    LET above == {e \in Execs : e > pass[p].cursor /\ IsPending(e, pass[p].since)} IN
    {e \in above : Cardinality({o \in above : o <= e}) <= PageSize}

Run(p) ==
    /\ pass[p].pc \in {"idle", "done"}
    /\ \E fl \in Flags :
         pass' = [pass EXCEPT ![p] = [Idle EXCEPT
                    !.pc = "scan", !.dry = fl.dry, !.since = fl.since,
                    !.want = {e \in Execs : /\ IsPending(e, fl.since) /\ ~fl.dry
                                            /\ HasStack(spans, execs[e].trace)}]]
    /\ UNCHANGED <<execs, spans, occurrences, export, report, seen, delivered, born, deliveries, faults>>

\* The pass, done with its first row.
Current(p) == First(pass[p].todo)
Ended(r) == [Idle EXCEPT !.pc = "done", !.want = IF r.errors THEN {} ELSE r.want]
NextRow(r, e) ==
    IF r.todo = {e} THEN Ended(r) ELSE [r EXCEPT !.pc = "rows", !.todo = @ \ {e}]

PendingFailures(p) ==
    LET page == pendingFailuresPage(p)
        got == [pass[p] EXCEPT !.todo = @ \cup page] IN
    /\ pass[p].pc = "scan"
    /\ pass' = [pass EXCEPT ![p] =
          IF Cardinality(page) >= PageSize
          THEN [got EXCEPT !.cursor = CHOOSE e \in page : \A o \in page : o <= e]
          ELSE IF got.todo = {} THEN Ended(got) ELSE [got EXCEPT !.pc = "rows"]]
    /\ UNCHANGED <<execs, spans, occurrences, export, report, seen, delivered, born, deliveries, faults>>

\* One answer of ClickHouse, or its error, serves every row of the trace.
FetchStack(p) ==
    LET e == Current(p)
        t == execs[e].trace IN
    /\ pass[p].pc = "rows"
    /\ \E got \in IF pass[p].stacks[t] # Unread THEN {pass[p].stacks[t]}
                  ELSE {[got |-> "ok", stack |-> s] : s \in StackFor(t)}
                       \cup {[got |-> "error", stack |-> Empty]} :
         LET r == [pass[p] EXCEPT !.stacks[t] = got] IN
         /\ IF got.got = "error" /\ pass[p].stacks[t] = Unread
            THEN Fault ELSE UNCHANGED faults
         /\ pass' = [pass EXCEPT ![p] =
               IF got.got = "error" THEN NextRow([r EXCEPT !.errors = TRUE], e)
               ELSE IF got.stack = Empty \/ r.dry THEN NextRow(r, e)
               ELSE [r EXCEPT !.pc = "cluster"]]
    /\ UNCHANGED <<execs, spans, occurrences, export, report, seen, delivered, born, deliveries>>

CachedClusterOfPass(p, t) ==
    IF \E u \in Traces : pass[p].cids[u] # NoCluster
    THEN pass[p].cids[CHOOSE u \in Traces : pass[p].cids[u] # NoCluster] ELSE NoCluster
CachedCluster(p, t) == pass[p].cids[t]

ResolveCluster(p) ==
    LET e == Current(p)
        t == execs[e].trace
        f == FingerprintStack(pass[p].stacks[t].stack) IN
    /\ pass[p].pc = "cluster"
    /\ \/ /\ CachedCluster(p, t) # NoCluster
          /\ pass' = [pass EXCEPT ![p].pc = "assign"]
          /\ UNCHANGED <<occurrences, born, faults>>
       \/ /\ CachedCluster(p, t) = NoCluster
          /\ occurrences' = ClusterFor(f)
          /\ born' = IF occurrences[f] = 0 THEN born \cup {f} ELSE born
          /\ pass' = [pass EXCEPT ![p].pc = "assign", ![p].cids[t] = f]
          /\ UNCHANGED faults
       \/ /\ CachedCluster(p, t) = NoCluster
          /\ Fault
          /\ pass' = [pass EXCEPT ![p] = NextRow([@ EXCEPT !.errors = TRUE], e)]
          /\ UNCHANGED <<occurrences, born>>
    /\ UNCHANGED <<execs, spans, export, report, seen, delivered, deliveries>>

\* UPDATE ... WHERE failure_cluster_id IS NULL.
LinkedUnguarded(e, f) == [execs EXCEPT ![e].link = f]
Linked(e, f) ==
    IF execs[e].link = NoCluster THEN [execs EXCEPT ![e].link = f] ELSE execs

AssignCluster(p) ==
    LET e == Current(p) IN
    /\ pass[p].pc = "assign"
    /\ \/ /\ execs' = Linked(e, CachedCluster(p, execs[e].trace))
          /\ pass' = [pass EXCEPT ![p] = NextRow(@, e)]
          /\ UNCHANGED faults
       \/ /\ Fault
          /\ pass' = [pass EXCEPT ![p] = NextRow([@ EXCEPT !.errors = TRUE], e)]
          /\ UNCHANGED execs
    /\ UNCHANGED <<spans, occurrences, export, report, seen, delivered, born, deliveries>>

\* The scan fails, which is fatal, or the process is killed.
PassDies(p) ==
    /\ pass[p].pc \notin {"idle", "done"}
    /\ Fault
    /\ pass' = [pass EXCEPT ![p] = Idle]
    /\ UNCHANGED <<execs, spans, occurrences, export, report, seen, delivered, born, deliveries>>

Otlp == \E r \in Requests : ExportWrite(r) \/ ExportCount(r) \/ ExportDies(r)
Grpc == \E m \in Reports : ReportUpsert(m) \/ ReportInsert(m) \/ ReportFails(m)
Backfill == \E p \in Passes :
    \/ Run(p) \/ PendingFailures(p) \/ FetchStack(p) \/ ResolveCluster(p)
    \/ AssignCluster(p) \/ PassDies(p)

Next == Otlp \/ Grpc \/ Backfill \/ \E t \in Traces : SpansExpire(t)

Spec == Init /\ [][Next]_vars

(***************************************************************************)
(* Properties.                                                             *)
(***************************************************************************)

\* An execution is linked to the cluster of a stack that was exported for its
\* own trace or reported with it: the caches of Backfiller.Run, which live for
\* a whole pass while spans arrive and expire, never lend one trace's stack or
\* cluster to another.
LinkIsOfItsTrace ==
    \A e \in Execs : execs[e].link # NoCluster =>
        IF execs[e].trace # NoTrace THEN execs[e].link \in seen[execs[e].trace]
        ELSE \E m \in Reports : m.exec = e /\ execs[e].link = FingerprintStack(m.stack)

\* No step replaces a link once written: of two overlapping passes that read
\* different stacks for a trace, the one that assigns last leaves the row alone
\* (AssignCluster).
LinkIsFinal ==
    [][\A e \in Execs :
          execs[e].link # NoCluster => execs'[e].link = execs[e].link]_vars

\* A pass that ends without errors, and was no dry run, leaves none of the
\* failures unlinked that were pending when it began and whose trace has had a
\* stack ever since, though it pages through rows that other passes are linking
\* and new ones are added to (PendingFailures, Run).
CompletePassLinks ==
    \A p \in Passes : pass[p].pc = "done" =>
        \A e \in pass[p].want : execs[e].link # NoCluster

\* However often batches and reports are repeated, exports die half way and the
\* backfill runs, a cluster's count is at most the number of failures delivered
\* to it, and one more only if a backfill inserted its row (UpsertCluster,
\* ClusterFor): the ranking by occurrences is one of deliveries.
CountsDeliveries ==
    \A f \in Fingerprints :
        occurrences[f] <= delivered[f] + (IF f \in born THEN 1 ELSE 0)

\* Backfiller says that the failures it links "were already counted once at live
\* ingest", so that none is counted twice. Not true of one that is linked between
\* Export's write to ClickHouse and its UpsertCluster.
NeverCountedTwice == \A f \in Fingerprints : occurrences[f] <= delivered[f]

(***************************************************************************)
(* Inductive invariants: what the links rest on. x is the table of         *)
(* executions, all the spans, sn what was seen, r a pass.                  *)
(***************************************************************************)

\* A row is inserted whole.
RowsWhole(x) == \A e \in Execs : x[e].there \/ x[e] = Absent

\* A cluster id is carried by the report it is of, and the stack of a span was
\* exported for its trace.
SourceInv ==
    /\ \A m \in Reports :
         report[m].cid # NoCluster => report[m].cid = FingerprintStack(m.stack)
    /\ \A sp \in spans : sp.stack # Empty => FingerprintStack(sp.stack) \in seen[sp.trace]

\* What a pass has cached for a trace was exported for it.
Caches(r, sn) ==
    \A t \in Traces :
        /\ r.stacks[t].stack # Empty =>
             r.stacks[t].got = "ok" /\ FingerprintStack(r.stacks[t].stack) \in sn[t]
        /\ r.cids[t] # NoCluster => r.cids[t] \in sn[t]

\* The rows a pass has fetched have a trace, and the row it is at has the stack
\* or the cluster the next statement is about.
Queue(r, x) ==
    /\ \A e \in r.todo : x[e].there /\ x[e].trace # NoTrace
    /\ r.pc \in {"rows", "cluster", "assign"} => r.todo # {}
    /\ r.pc = "cluster" => r.stacks[x[First(r.todo)].trace].stack # Empty
    /\ r.pc = "assign" => r.cids[x[First(r.todo)].trace] # NoCluster

\* A row a pass owes a link still qualifies for one, and what is cached for its
\* trace is a stack.
Qualifies(r, e, x, all) ==
    /\ x[e].there /\ x[e].outcome \in Failing /\ x[e].trace # NoTrace
    /\ r.since => ~x[e].old
    /\ HasStack(all, x[e].trace)
    /\ r.stacks[x[e].trace].got = "ok" => r.stacks[x[e].trace].stack # Empty

\* While no error has been met, it is linked, fetched and not yet visited, or
\* ahead of the cursor of a scan; when the pass has ended it is linked.
Owed(r, x, all) ==
    /\ r.pc \in {"scan", "rows", "cluster", "assign"} =>
         /\ r.dry => r.want = {}
         /\ \A t \in Traces : r.stacks[t].got = "error" => r.errors
         /\ \A e \in r.want :
              /\ Qualifies(r, e, x, all)
              /\ \/ r.errors \/ x[e].link # NoCluster \/ e \in r.todo
                 \/ r.pc = "scan" /\ r.cursor < e
    /\ r.pc = "done" => \A e \in r.want : x[e].link # NoCluster

PassOK(r, x, all, sn) == Caches(r, sn) /\ Queue(r, x) /\ Owed(r, x, all)

ClustersInv ==
    /\ StoresTyped /\ RowsWhole(execs) /\ SourceInv /\ LinkIsOfItsTrace
    /\ \A p \in Passes : PassOK(pass[p], execs, spans, seen)

\* Failures of a cluster that were delivered and may still be counted, in
\* whichever of the exports that are under way.
Uncounted(f) == UNION {{r} \X (export[r] \cap Hits(r, f)) : r \in Requests}

\* Each was delivered, and is not counted yet; a row stays once inserted.
CountsInv ==
    \A f \in Fingerprints :
        /\ f \in born => occurrences[f] > 0
        /\ occurrences[f] + Cardinality(Uncounted(f)) <=
             delivered[f] + (IF f \in born THEN 1 ELSE 0)
=============================================================================
