--------------------------- MODULE RootCauseHints ---------------------------
(***************************************************************************)
(* The llm-hints job: each pass loads the clusters that have no hint, most *)
(* frequent first and at most MaxClusters, asks a language model for hints *)
(* in batches, and stores them one by one. The CronJob runs one pass after *)
(* another; operators may run others, with flags, at the same time.        *)
(***************************************************************************)
EXTENDS Integers, FiniteSets

CONSTANTS
    Clusters,
    Refused,         \* clusters the language model gives no usable answer for
    Hints, NoHint,
    Cron, Operators, \* processes that run the job
    MaxClusters,     \* clusters of a pass
    BatchSize,       \* clusters of a call to Summarize
    MaxOccurrences,  \* bound: failures of a cluster
    LossLimit       \* bound: lost calls, failing statements and crashes

ASSUME HintsAssumption ==
    /\ Refused \subseteq Clusters
    /\ NoHint \notin Hints
    /\ Cron \notin Operators
    /\ {MaxClusters, BatchSize} \subseteq Nat \ {0}
    /\ {MaxOccurrences, LossLimit} \subseteq Nat

VARIABLES
    occurrences,  \* occurrences[c] of the row of teo.failure_clusters, 0 if none
    hint,         \* hint[c]: its root_cause_hint
    pass,         \* pass[h]: where the pass of process h is
    losses

hintsVars == <<occurrences, hint, pass, losses>>

Processes == Operators \cup {Cron}
NoPass == [pc |-> "idle", restale |-> FALSE, dry |-> FALSE, todo |-> {},
         batch |-> {}, answer |-> [c \in Clusters |-> NoHint]]
Loss == losses < LossLimit /\ losses' = losses + 1

HintsTypeOK ==
    /\ occurrences \in [Clusters -> 0..MaxOccurrences]
    /\ hint \in [Clusters -> Hints \cup {NoHint}]
    /\ pass \in [Processes -> [pc : {"idle", "loop", "save"}, restale : BOOLEAN,
                               dry : BOOLEAN, todo : SUBSET Clusters,
                               batch : SUBSET Clusters,
                               answer : [Clusters -> Hints \cup {NoHint}]]]
    /\ losses \in 0..LossLimit

HintsInit ==
    /\ occurrences = [c \in Clusters |-> 0]
    /\ hint = [c \in Clusters |-> NoHint]
    /\ pass = [h \in Processes |-> NoPass]
    /\ losses = 0

\* Ingest counts a failure, and inserts the row of a new cluster.
UpsertCluster(c) ==
    /\ occurrences[c] < MaxOccurrences
    /\ occurrences' = [occurrences EXCEPT ![c] = @ + 1]
    /\ UNCHANGED <<hint, pass, losses>>

PendingHintedToo(c, restale) == occurrences[c] > 0
Pending(c, restale) == occurrences[c] > 0 /\ (restale \/ hint[c] = NoHint)

\* What ORDER BY occurrences DESC LIMIT n may return; ties are open.
PendingClusters(restale, n) ==
    LET all == {c \in Clusters : Pending(c, restale)} IN
    {s \in SUBSET all :
        /\ Cardinality(s) = IF Cardinality(all) < n THEN Cardinality(all) ELSE n
        /\ \A c \in s, d \in all \ s : occurrences[c] >= occurrences[d]}

Load(h, restale, dry) ==
    /\ pass[h].pc = "idle"
    /\ \E s \in PendingClusters(restale, MaxClusters) :
         /\ s # {}
         /\ pass' = [pass EXCEPT ![h] = [NoPass EXCEPT !.pc = "loop", !.restale = restale,
                                                    !.dry = dry, !.todo = s]]
    /\ UNCHANGED <<occurrences, hint, losses>>

\* The CronJob passes no flags.
RunCron == Load(Cron, FALSE, FALSE)
RunOperator(h) == \E restale, dry \in BOOLEAN : Load(h, restale, dry)

(***************************************************************************)
(* One call per cluster of the batch. A refusal, an unusable answer and a  *)
(* lost call leave the cluster without an answer; the others get any hint. *)
(***************************************************************************)
Summarize(h) ==
    LET size == IF Cardinality(pass[h].todo) < BatchSize
                THEN Cardinality(pass[h].todo) ELSE BatchSize IN
    /\ pass[h].pc = "loop"
    /\ \E batch \in {b \in SUBSET pass[h].todo : Cardinality(b) = size},
          lost \in SUBSET Clusters :
         LET ok == (batch \ Refused) \ lost
             rest == pass[h].todo \ batch IN
         /\ lost \subseteq batch \ Refused
         /\ IF lost = {} THEN UNCHANGED losses ELSE Loss
         /\ \E v \in [ok -> Hints] : pass' = [pass EXCEPT ![h] =
               IF ok # {} /\ ~@.dry
               THEN [@ EXCEPT !.pc = "save", !.todo = rest, !.batch = ok,
                              !.answer = [c \in Clusters |-> IF c \in ok THEN v[c] ELSE NoHint]]
               ELSE IF rest = {} THEN NoPass ELSE [@ EXCEPT !.todo = rest]]
    /\ UNCHANGED <<occurrences, hint>>

\* UPDATE ... WHERE id = $1 AND ($5 OR root_cause_hint IS NULL).
SavedUnguarded(c, v, restale) == [hint EXCEPT ![c] = v]
Saved(c, v, restale) ==
    IF restale \/ hint[c] = NoHint THEN [hint EXCEPT ![c] = v] ELSE hint

\* The pass, done with cluster c of its batch.
NextCluster(r, c) ==
    IF r.batch # {c} THEN [r EXCEPT !.batch = @ \ {c}, !.answer[c] = NoHint]
    ELSE IF r.todo = {} THEN NoPass
    ELSE [NoPass EXCEPT !.pc = "loop", !.restale = r.restale, !.todo = r.todo]

SaveHint(h) ==
    /\ pass[h].pc = "save"
    /\ \E c \in pass[h].batch :
         /\ \/ /\ hint' = Saved(c, pass[h].answer[c], pass[h].restale)
               /\ UNCHANGED losses
            \/ Loss /\ UNCHANGED hint
         /\ pass' = [pass EXCEPT ![h] = NextCluster(@, c)]
    /\ UNCHANGED occurrences

Dies(h) ==
    /\ pass[h].pc # "idle"
    /\ Loss
    /\ pass' = [pass EXCEPT ![h] = NoPass]
    /\ UNCHANGED <<occurrences, hint>>

Step(h) == Summarize(h) \/ SaveHint(h)

HintsNext ==
    \/ \E c \in Clusters : UpsertCluster(c)
    \/ RunCron
    \/ \E h \in Operators : RunOperator(h)
    \/ \E h \in Processes : Step(h) \/ Dies(h)

HintsSpec == HintsInit /\ [][HintsNext]_hintsVars

\* The CronJob is started again and again, and a pass that lives goes on.
FairHintsSpec == HintsSpec /\ WF_hintsVars(RunCron) /\ WF_hintsVars(Step(Cron))

(***************************************************************************)
(* Properties.                                                             *)
(***************************************************************************)

\* A stored hint is replaced only by another, and only by the one that a pass with
\* --restale was given for that cluster, though passes that overlap have loaded and
\* paid for the same clusters, and answers are matched to them by id (SaveHint, Run).
HintIsKept ==
    [][\A c \in Clusters : (hint[c] # NoHint /\ hint'[c] # hint[c]) =>
          /\ hint'[c] # NoHint
          /\ \E h \in Processes :
               /\ pass[h].pc = "save" /\ pass[h].restale
               /\ c \in pass[h].batch /\ hint'[c] = pass[h].answer[c]]_hintsVars

\* Every cluster the model can say something about gets a hint in the end, as
\* long as a pass has room for more clusters than the model refuses: a cluster
\* that fails in every pass stays at the head of the list (PendingClusters, Run).
HintsArrive ==
    Cardinality(Refused) < MaxClusters =>
        \A c \in Clusters \ Refused : occurrences[c] > 0 ~> hint[c] # NoHint

\* Inductive invariant: a pass saves only for clusters that it has an answer for.
HintsInv ==
    /\ HintsTypeOK
    /\ \A h \in Processes : \A c \in pass[h].batch : pass[h].answer[c] # NoHint
=============================================================================
