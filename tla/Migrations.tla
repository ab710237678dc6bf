----------------------------- MODULE Migrations -----------------------------
(***************************************************************************)
(* "teo migrate up": several processes (a job and its retry, replicas of a *)
(* job, an operator) bring one database to the newest version they know.   *)
(* Postgres applies a migration and its record in one transaction,         *)
(* ClickHouse statement by statement; any process may die between steps.   *)
(* How a file is cut into its statements is in MigrationFiles.             *)
(***************************************************************************)
EXTENDS Integers

CONSTANTS
    Procs,
    MaxVersion,   \* versions 1..MaxVersion
    Statements,   \* statements of a migration, 1..Statements
    StartLimit,   \* bound: runs of the command
    FailureLimit  \* bound: failed statements and commits, crashes

ASSUME MigrationsAssumption ==
    /\ MaxVersion \in Nat /\ Statements \in Nat
    /\ StartLimit \in Nat /\ FailureLimit \in Nat

VARIABLES
    part,      \* the database: "postgres" or "clickhouse"
    recorded,  \* versions in teo.schema_migrations
    executed,  \* executed[v][i]: how often statement i of version v took effect
    proc,      \* proc[p]: where the command is
    gaps,      \* versions that an image was without, though it had a newer one (history)
    starts,
    failures

migrateVars == <<part, recorded, executed, proc, gaps, starts, failures>>

Versions == 1..MaxVersion
Idle == [pc |-> "idle", files |-> {}, current |-> 0, stmt |-> 0]
Failure == failures < FailureLimit /\ failures' = failures + 1

ProcStates ==
    [pc : {"idle", "read", "apply", "up"}, files : SUBSET Versions,
     current : 0..MaxVersion, stmt : 0..Statements]

MigrateTypeOK ==
    /\ part \in {"postgres", "clickhouse"}
    /\ recorded \subseteq Versions
    /\ executed \in [Versions -> [1..Statements -> Nat]]
    /\ proc \in [Procs -> ProcStates] /\ gaps \subseteq Versions
    /\ starts \in 0..StartLimit /\ failures \in 0..FailureLimit

MigrateInit ==
    /\ part \in {"postgres", "clickhouse"}
    /\ recorded = {}
    /\ executed = [v \in Versions |-> [i \in 1..Statements |-> 0]]
    /\ proc = [p \in Procs |-> Idle]
    /\ gaps = {} /\ starts = 0 /\ failures = 0

(***************************************************************************)
(* Up. The image of a process has any files, one of a version.             *)
(***************************************************************************)
Holes(files) == {v \in Versions \ files : \E w \in files : v < w}

Start(p, files) ==
    /\ proc[p].pc \in {"idle", "up"} /\ starts < StartLimit
    /\ starts' = starts + 1
    /\ proc' = [proc EXCEPT ![p] = [Idle EXCEPT !.pc = "read", !.files = files]]
    /\ gaps' = gaps \cup Holes(files)
    /\ UNCHANGED <<part, recorded, executed, failures>>

currentVersion == CHOOSE v \in recorded \cup {0} : \A w \in recorded : w <= v

\* After ensureSchemaTable; the version is read once, for all the files.
ReadVersion(p) ==
    /\ proc[p].pc = "read"
    /\ proc' = [proc EXCEPT ![p].pc = "apply", ![p].current = currentVersion]
    /\ UNCHANGED <<part, recorded, executed, gaps, starts, failures>>

\* The files a process has still to apply, in order. A file that is not newer
\* than the version read is passed over, whether or not it is recorded.
Ahead(p) == {v \in proc[p].files : v > proc[p].current}
Version(p) == CHOOSE v \in Ahead(p) : \A w \in Ahead(p) : v <= w
Applying(p) == proc[p].pc = "apply" /\ Ahead(p) # {}

\* A statement of the file. In ClickHouse it takes effect now, in Postgres
\* when the transaction commits.
Execute(p) ==
    LET v == Version(p)  i == proc[p].stmt + 1 IN
    /\ Applying(p) /\ i <= Statements
    /\ proc' = [proc EXCEPT ![p].stmt = i]
    /\ executed' = IF part = "clickhouse" THEN [executed EXCEPT ![v][i] = @ + 1] ELSE executed
    /\ UNCHANGED <<part, recorded, gaps, starts, failures>>

\* Two transactions cannot both insert the version: it is the primary key.
ConflictNever(v) == FALSE
Conflict(v) == part = "postgres" /\ v \in recorded

Commit(v) ==
    /\ recorded' = recorded \cup {v}
    /\ executed' = IF part = "postgres"
                   THEN [executed EXCEPT ![v] = [i \in 1..Statements |-> @[i] + 1]] ELSE executed

\* The row of schema_migrations, and in Postgres the commit, which may succeed
\* without the process learning of it.
Record(p) ==
    LET v == Version(p) IN
    /\ Applying(p) /\ proc[p].stmt = Statements
    /\ \/ /\ ~Conflict(v)
          /\ Commit(v)
          /\ proc' = [proc EXCEPT ![p].current = v, ![p].stmt = 0]
          /\ UNCHANGED failures
       \/ /\ Conflict(v)
          /\ proc' = [proc EXCEPT ![p] = Idle]
          /\ UNCHANGED <<recorded, executed, failures>>
       \/ /\ ~Conflict(v)
          /\ Failure
          /\ Commit(v)
          /\ proc' = [proc EXCEPT ![p] = Idle]
    /\ UNCHANGED <<part, gaps, starts>>

\* The loop ends and "up to date" is printed.
Finish(p) ==
    /\ proc[p].pc = "apply" /\ ~Applying(p)
    /\ proc' = [proc EXCEPT ![p].pc = "up"]
    /\ UNCHANGED <<part, recorded, executed, gaps, starts, failures>>

\* An error is returned, or the process is killed: a transaction rolls back.
FailIgnored(p) ==
    /\ proc[p].pc \in {"read", "apply"}
    /\ Failure
    /\ proc' = [proc EXCEPT ![p].stmt = Statements]
    /\ UNCHANGED <<part, recorded, executed, gaps, starts>>
Fail(p) ==
    /\ proc[p].pc \in {"read", "apply"}
    /\ Failure
    /\ proc' = [proc EXCEPT ![p] = Idle]
    /\ UNCHANGED <<part, recorded, executed, gaps, starts>>

MigrateNext ==
    \E p \in Procs :
        \/ \E files \in SUBSET Versions : Start(p, files)
        \/ ReadVersion(p) \/ Execute(p) \/ Record(p) \/ Finish(p) \/ Fail(p)

MigrateSpec == MigrateInit /\ [][MigrateNext]_migrateVars

(***************************************************************************)
(* Properties.                                                             *)
(***************************************************************************)

\* In Postgres a migration takes effect once or not at all, and exactly when
\* its version is recorded, whichever processes read the same version and die
\* where they do ("partial application is impossible", applyAndRecord).
AppliedOnce ==
    part = "postgres" => \A v \in Versions, i \in 1..Statements :
        executed[v][i] = IF v \in recorded THEN 1 ELSE 0

\* The command reports success only when every file it has is recorded, by it or
\* by others, except a version that some image skipped: a lower number added
\* later is passed over (Up). No version is recorded before all its statements
\* were executed.
UpMeansUp ==
    /\ \A p \in Procs : proc[p].pc = "up" => proc[p].files \subseteq recorded \cup gaps
    /\ \A v \in recorded, i \in 1..Statements : executed[v][i] > 0

(***************************************************************************)
(* What makes them inductive.                                              *)
(***************************************************************************)

\* Whoever records a version has recorded, or read, all the earlier ones but those
\* in the gaps, and has executed the statements it counts.
NoGap == \A v \in recorded : 1..v \subseteq recorded \cup gaps
ProcInv ==
    \A p \in Procs :
        /\ proc[p].pc = "read" => proc[p].stmt = 0
        /\ Holes(proc[p].files) \subseteq gaps
        /\ proc[p].pc = "apply" => 1..proc[p].current \subseteq recorded \cup gaps
        /\ Applying(p) /\ part = "clickhouse" =>
             \A i \in 1..proc[p].stmt : executed[Version(p)][i] > 0
        /\ ~Applying(p) => proc[p].stmt = 0

MigrationsInv == MigrateTypeOK /\ NoGap /\ ProcInv /\ AppliedOnce /\ UpMeansUp
=============================================================================
