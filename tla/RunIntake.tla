----------------------------- MODULE RunIntake -----------------------------
(***************************************************************************)
(* Create of internal/runsvc, as POST /api/v1/runs and the mutations call  *)
(* it: concurrent requests and retries for one repository, with the        *)
(* Idempotency-Key contract, the partial unique index of migration 005 and *)
(* statements that fail one by one.  Nothing here is a transaction: each   *)
(* statement commits on its own.                                           *)
(***************************************************************************)
EXTENDS Naturals, FiniteSets

CONSTANTS
    Calls,      \* requests that may be in flight at once
    Keys,       \* idempotency keys
    NoKey,      \* the header is missing
    Commits, NoCommit,
    Runs,       \* bound: runs that may be created
    NoRun,
    FaultLimit  \* bound: statements that fail, processes that die

ASSUME NothingAssumption ==
    NoKey \notin Keys /\ NoCommit \notin Commits /\ NoRun \notin Runs
ASSUME FaultLimitAssumption == FaultLimit \in Nat

VARIABLES
    key,       \* meta->>'idempotency_key' of each run
    commit,    \* commit_sha of each run; NoCommit if there is no row
    manifest,  \* runs with a row in run_plans
    call,      \* control state of each request
    replies,   \* what clients were told (history)
    faults

vars == <<key, commit, manifest, call, replies, faults>>

rows == <<key, commit, manifest>>

Steps == {"idle", "lookup", "insert", "again", "manifest", "reload"}

IdleCall == [step |-> "idle", key |-> NoKey, commit |-> NoCommit, run |-> NoRun]

Outcomes == {"created", "existing", "conflict", "error"}

TypeOK ==
    /\ key \in [Runs -> Keys \cup {NoKey}]
    /\ commit \in [Runs -> Commits \cup {NoCommit}]
    /\ manifest \in SUBSET {r \in Runs : commit[r] # NoCommit}
    /\ call \in [Calls -> [step : Steps, key : Keys \cup {NoKey},
                           commit : Commits \cup {NoCommit},
                           run : Runs \cup {NoRun}]]
    /\ replies \in SUBSET [key : Keys \cup {NoKey}, commit : Commits \cup {NoCommit},
                           outcome : Outcomes, run : Runs \cup {NoRun}]
    /\ faults \in Nat

Init ==
    /\ key = [r \in Runs |-> NoKey]
    /\ commit = [r \in Runs |-> NoCommit]
    /\ manifest = {}
    /\ call = [q \in Calls |-> IdleCall]
    /\ replies = {}
    /\ faults = 0

At(q, step) == call[q].step = step

Goto(q, step) == call' = [call EXCEPT ![q].step = step]

\* The handler returns; the client has its answer: the run, which is new or
\* not, a conflict, or another error.
Reply(q, outcome, r) ==
    /\ replies' = replies \cup {[key |-> call[q].key, commit |-> call[q].commit,
                                 outcome |-> outcome, run |-> r]}
    /\ call' = [call EXCEPT ![q] = IdleCall]

Fault == faults < FaultLimit /\ faults' = faults + 1

-----------------------------------------------------------------------------

\* Create is called with a valid request for an enabled repository.
Begin(q, k, co) ==
    /\ At(q, "idle")
    /\ call' = [call EXCEPT ![q] =
           [step |-> IF k = NoKey THEN "insert" ELSE "lookup",
            key |-> k, commit |-> co, run |-> NoRun]]
    /\ UNCHANGED <<rows, replies, faults>>

\* Rows that lookupIdempotent's SELECT finds.
Matching(q) == {r \in Runs : commit[r] # NoCommit /\ key[r] = call[q].key}

\* Seeded fault: the commit of the row is not compared.
LookupHitAnyCommit(q, step, r) ==
    /\ At(q, step)
    /\ r \in Matching(q)
    /\ Reply(q, "existing", r)
    /\ UNCHANGED <<rows, faults>>

\* lookupIdempotent finds the run of the key: the existing run, or a conflict
\* if its commit is another one.
LookupHit(q, step, r) ==
    /\ At(q, step)
    /\ r \in Matching(q)
    /\ IF commit[r] = call[q].commit THEN Reply(q, "existing", r)
                                     ELSE Reply(q, "conflict", NoRun)
    /\ UNCHANGED <<rows, faults>>

\* The first lookup misses: insert.
LookupMiss(q) ==
    /\ At(q, "lookup")
    /\ Matching(q) = {}
    /\ Goto(q, "insert")
    /\ UNCHANGED <<rows, replies, faults>>

\* The first lookup fails: Create goes on as if it had missed.
LookupFails(q) ==
    /\ At(q, "lookup")
    /\ Fault
    /\ Goto(q, "insert")
    /\ UNCHANGED <<rows, replies>>

\* runs_idempotency_key_uniq, which leaves out rows without a key.
UniqueViolation(q) == call[q].key # NoKey /\ Matching(q) # {}

InsertRow(q, r) ==
    /\ ~UniqueViolation(q)
    /\ commit[r] = NoCommit
    /\ key' = [key EXCEPT ![r] = call[q].key]
    /\ commit' = [commit EXCEPT ![r] = call[q].commit]

\* INSERT INTO teo.runs, under a fresh id.
InsertRun(q, r) ==
    /\ At(q, "insert")
    /\ InsertRow(q, r)
    /\ call' = [call EXCEPT ![q].step = "manifest", ![q].run = r]
    /\ UNCHANGED <<manifest, replies, faults>>

\* Seeded fault: the loser of the race is told that the insert failed.
InsertViolatesErrors(q) ==
    /\ At(q, "insert")
    /\ UniqueViolation(q)
    /\ Reply(q, "error", NoRun)
    /\ UNCHANGED <<rows, faults>>

\* 23505: a concurrent request won; look again.
InsertViolates(q) ==
    /\ At(q, "insert")
    /\ UniqueViolation(q)
    /\ Goto(q, "again")
    /\ UNCHANGED <<rows, replies, faults>>

\* The INSERT fails otherwise, and nothing is stored,
InsertFails(q) ==
    /\ At(q, "insert")
    /\ Fault
    /\ Reply(q, "error", NoRun)
    /\ UNCHANGED rows

\* or the row is stored and only the answer of the database is lost.
InsertUnanswered(q, r) ==
    /\ At(q, "insert")
    /\ Fault
    /\ InsertRow(q, r)
    /\ Reply(q, "error", NoRun)
    /\ UNCHANGED manifest

\* The second lookup misses or fails: "insert run".
AgainFails(q) ==
    /\ At(q, "again")
    /\ IF Matching(q) = {} THEN UNCHANGED faults ELSE Fault
    /\ Reply(q, "error", NoRun)
    /\ UNCHANGED rows

\* INSERT INTO teo.run_plans; an error is ignored.
StoreManifest(q) ==
    /\ At(q, "manifest")
    /\ manifest' = manifest \cup {call[q].run}
    /\ Goto(q, "reload")
    /\ UNCHANGED <<key, commit, replies, faults>>

LoseManifest(q) ==
    /\ At(q, "manifest")
    /\ Fault
    /\ Goto(q, "reload")
    /\ UNCHANGED <<rows, replies>>

\* loadRun, and the answer.
Reload(q) ==
    /\ At(q, "reload")
    /\ Reply(q, "created", call[q].run)
    /\ UNCHANGED <<rows, faults>>

ReloadFails(q) ==
    /\ At(q, "reload")
    /\ Fault
    /\ Reply(q, "error", NoRun)
    /\ UNCHANGED rows

\* The API process dies between two statements; the client learns nothing.
Crash(q) ==
    /\ ~At(q, "idle")
    /\ Fault
    /\ call' = [call EXCEPT ![q] = IdleCall]
    /\ UNCHANGED <<rows, replies>>

Serve(q) ==
    \/ \E r \in Runs : LookupHit(q, "lookup", r) \/ LookupHit(q, "again", r)
    \/ LookupMiss(q)
    \/ \E r \in Runs : InsertRun(q, r)
    \/ InsertViolates(q)
    \/ AgainFails(q)
    \/ StoreManifest(q)
    \/ Reload(q)

Break(q) ==
    \/ LookupFails(q) \/ InsertFails(q) \/ LoseManifest(q)
    \/ ReloadFails(q) \/ Crash(q)
    \/ \E r \in Runs : InsertUnanswered(q, r)

Next ==
    \E q \in Calls :
        \/ \E k \in Keys \cup {NoKey}, co \in Commits : Begin(q, k, co)
        \/ Serve(q)
        \/ Break(q)

Spec == Init /\ [][Next]_vars

-----------------------------------------------------------------------------
(* The Idempotency-Key contract.                                           *)

Names(a) == a.outcome \in {"created", "existing"}

\* However requests race, fail or are repeated, every answer to a key that
\* names a run names the same one, and it is a run of the commit asked for.
SameKeySameRun ==
    /\ \A a, b \in replies :
          a.key # NoKey /\ a.key = b.key /\ Names(a) /\ Names(b) => a.run = b.run
    /\ \A a \in replies : Names(a) => commit[a.run] = a.commit

\* A request that got a run is not refused as a conflict when it is repeated,
\* nor the other way round.
AnswersAreStable ==
    \A a, b \in replies :
        /\ a.key # NoKey /\ a.key = b.key /\ a.commit = b.commit
        /\ a.outcome = "conflict"
        => ~Names(b)

\* Losing the race is not an error: as long as no statement fails nobody is
\* told that the insert failed.
NoSpuriousError == (\E a \in replies : a.outcome = "error") => faults > 0

-----------------------------------------------------------------------------
(* The inductive invariant.                                                *)

\* The index: one row per key.
OneRunPerKey ==
    \A r, s \in Runs :
        /\ commit[r] # NoCommit /\ commit[s] # NoCommit
        /\ key[r] # NoKey /\ key[r] = key[s]
        => r = s

\* A request past its INSERT has the row it inserted.
CallHasRow ==
    \A q \in Calls : call[q].step \in {"manifest", "reload"} =>
        /\ call[q].run \in Runs
        /\ commit[call[q].run] = call[q].commit /\ call[q].commit \in Commits
        /\ key[call[q].run] = call[q].key

\* A request under way asks for a commit; only keyed ones look up.
CallIsRequest ==
    \A q \in Calls :
        /\ ~At(q, "idle") => call[q].commit \in Commits
        /\ call[q].step \in {"lookup", "again"} => call[q].key # NoKey

\* The row that made an INSERT fail is there to be found.
AgainHasRow == \A q \in Calls : At(q, "again") => Matching(q) # {}

\* A run that an answer names has the key and the commit of the request.
RepliesNameRows ==
    \A a \in replies :
        Names(a) => /\ a.run \in Runs /\ a.commit \in Commits
                    /\ commit[a.run] = a.commit /\ key[a.run] = a.key

\* A conflict was with a row of the key that has another commit.
ConflictsAreReal ==
    \A a \in replies :
        a.outcome = "conflict" =>
            \E r \in Runs : commit[r] \notin {NoCommit, a.commit} /\ key[r] = a.key

IntakeInv ==
    /\ TypeOK
    /\ OneRunPerKey
    /\ CallIsRequest /\ CallHasRow /\ AgainHasRow
    /\ RepliesNameRows /\ ConflictsAreReal
    /\ NoSpuriousError
=============================================================================
