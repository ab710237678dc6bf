----------------------------- MODULE Quarantine -----------------------------
(***************************************************************************)
(* Flaky tests: scored by the flake job, taken out of the blocking lane by *)
(* the quarantine sweep or an operator, followed up by the SLA sweep and   *)
(* the un-quarantine proposals, and restored by an operator or a link.     *)
(*                                                                         *)
(* Each job is a process of its own (a CronJob, or an operator at a shell) *)
(* that works through what one SELECT returned while the others write.     *)
(* status and flake hold committed rows; what a transaction of a sweep has *)
(* written is in its proc until SweepCommit. The operator's transactions   *)
(* make no call outside the database and take both row locks in the order  *)
(* tests, flake_records, so each is one step, taken when the locks are     *)
(* free.                                                                   *)
(***************************************************************************)
EXTENDS Integers, Sequences, FiniteSets

CONSTANTS
    Tests, NoTest,
    AutoEnabled,   \* tests of repositories with auto_quarantine_enabled
    Sweeps,        \* runs of quarantine-sweep that may overlap
    Tokens,        \* restore links
    MaxClicks,     \* bound: clients that follow one link at a time
    Nobody,
    Outcomes,      \* of executions, "passed" and "failed" among them
    MinSamples,    \* attempts the flake job asks for
    Window,        \* K of the proposals: executions that must have passed
    SLA,           \* weeks until a nudge
    ProposalGap,   \* weeks between two proposals
    TokenTTL,      \* weeks a link is valid
    MaxNow,        \* bound: weeks that pass
    FaultLimit     \* bound: crashes, failing statements and lost answers

ASSUME QuarantineAssumption ==
    /\ NoTest \notin Tests
    /\ AutoEnabled \subseteq Tests
    /\ {"passed", "failed"} \subseteq Outcomes
    /\ Nobody \notin Sweeps
    /\ Sweeps \cap {"flake", "sla", "proposals"} = {}
    /\ {MinSamples, Window, SLA, ProposalGap, TokenTTL} \subseteq Nat \ {0}
    /\ MaxClicks \in Nat \ {0} /\ {MaxNow, FaultLimit} \subseteq Nat

VARIABLES
    execs,      \* execs[t]: outcomes of the last executions, oldest first
    status,     \* status[t]: teo.tests.status
    flake,      \* flake[t]: NoRecord, or the row of teo.flake_records
    testLock,   \* testLock[t]: sweep whose transaction updated the row of t
    recLock,    \* recLock[t]: same for the row of flake_records
    tokens,     \* tokens[k]: Unminted, or the row of teo.unquarantine_tokens
    opened,     \* opened[t]: numbers of the issues GitHub has for t
    mishaps,    \* mishaps[t]: faults that could leave an issue for t unnamed
    restored,   \* restored[k]: how often link k has restored its test
    proc,       \* proc[p]: where a job is
    held,       \* held[k]: requests that have read link k as usable
    now, faults

vars == <<execs, status, flake, testLock, recLock, tokens, opened, mishaps,
          restored, proc, held, now, faults>>

Null == -1
Statuses == {"active", "quarantined", "broken", "deleted"}
Lowers == {"low", "flaky", "broken"}
NoRecord == [lower |-> "low", quarantinedAt |-> Null, issue |-> Null,
             lastNudged |-> Null, proposedAt |-> Null]
Unminted == [test |-> NoTest, expires |-> Null, consumed |-> FALSE, posted |-> FALSE]
Procs == Sweeps \cup {"flake", "sla", "proposals"}
Idle == [pc |-> "idle", todo |-> {}, test |-> NoTest, hit |-> FALSE, issue |-> 0,
         seen |-> [t \in Tests |-> "low"]]

HasRecord(t) == flake[t].issue # Null
Holds(p, pc) == proc[p].pc = pc
Fault == faults < FaultLimit /\ faults' = faults + 1
\* The job goes on with the next row of its SELECT, or ends.
Rest(p, t) ==
    IF proc[p].todo = {t} THEN Idle
    ELSE [Idle EXCEPT !.pc = "loop", !.todo = proc[p].todo \ {t},
                      !.seen = proc[p].seen]

Records == [lower : Lowers, quarantinedAt : Null..MaxNow, issue : Int,
            lastNudged : Null..MaxNow, proposedAt : Null..MaxNow]
TokenRows == [test : Tests \cup {NoTest}, expires : Int, consumed : BOOLEAN,
              posted : BOOLEAN]
ProcStates == [pc : {"idle", "loop", "test", "commit", "upserted"},
               todo : SUBSET Tests, test : Tests \cup {NoTest}, hit : BOOLEAN,
               issue : Nat, seen : [Tests -> Lowers]]

TypeOK ==
    /\ execs \in [Tests -> Seq(Outcomes)]
    /\ status \in [Tests -> Statuses]
    /\ flake \in [Tests -> Records]
    /\ testLock \in [Tests -> Sweeps \cup {Nobody}]
    /\ recLock \in [Tests -> Sweeps \cup {Nobody}]
    /\ tokens \in [Tokens -> TokenRows]
    /\ opened \in [Tests -> SUBSET Nat] /\ mishaps \in [Tests -> Nat]
    /\ restored \in [Tokens -> Nat]
    /\ proc \in [Procs -> ProcStates]
    /\ held \in [Tokens -> 0..MaxClicks]
    /\ now \in 0..MaxNow /\ faults \in 0..FaultLimit

Init ==
    /\ execs = [t \in Tests |-> <<>>]
    /\ status \in [Tests -> {"active", "deleted"}]
    /\ flake = [t \in Tests |-> NoRecord]
    /\ testLock = [t \in Tests |-> Nobody] /\ recLock = [t \in Tests |-> Nobody]
    /\ tokens = [k \in Tokens |-> Unminted]
    /\ opened = [t \in Tests |-> {}] /\ mishaps = [t \in Tests |-> 0]
    /\ restored = [k \in Tokens |-> 0]
    /\ proc = [p \in Procs |-> Idle]
    /\ held = [k \in Tokens |-> 0]
    /\ now = 0 /\ faults = 0

(***************************************************************************)
(* Workers and time. The executions kept are the ones the two windows see; *)
(* MinSamples of the flake job is never more than that.                    *)
(***************************************************************************)
Kept == IF Window > MinSamples THEN Window ELSE MinSamples

RecordExecution(t) ==
    /\ \E o \in Outcomes :
         LET all == Append(execs[t], o) IN
         execs' = [execs EXCEPT ![t] = IF Len(all) > Kept THEN Tail(all) ELSE all]
    /\ UNCHANGED <<status, flake, testLock, recLock, tokens, opened, mishaps,
                   restored, proc, held, now, faults>>

TimePasses ==
    /\ now < MaxNow
    /\ now' = now + 1
    /\ UNCHANGED <<execs, status, flake, testLock, recLock, tokens, opened,
                   mishaps, restored, proc, held, faults>>

(***************************************************************************)
(* The flake job. The Wilson bound is abstracted to the side of the two    *)
(* cutoffs it falls on: all attempts failed, some did, none did.           *)
(***************************************************************************)
Failures(s) == Cardinality({i \in DOMAIN s : s[i] = "failed"})

Classify(s) ==
    IF Failures(s) = 0 THEN "low"
    ELSE IF Failures(s) = Len(s) THEN "broken" ELSE "flaky"

FlakeScan ==
    LET batch == {t \in Tests : Len(execs[t]) >= MinSamples} IN
    /\ Holds("flake", "idle")
    /\ batch # {}
    /\ proc' = [proc EXCEPT !["flake"] =
                  [Idle EXCEPT !.pc = "loop", !.todo = batch,
                     !.seen = [t \in Tests |-> Classify(execs[t])]]]
    /\ UNCHANGED <<execs, status, flake, testLock, recLock, tokens, opened,
                   mishaps, restored, held, now, faults>>

\* The upsert keeps what the other jobs store in the row; its failure is logged.
FlakeUpsert(t) ==
    LET d == proc["flake"].seen[t] IN
    /\ Holds("flake", "loop") /\ t \in proc["flake"].todo
    /\ \/ /\ recLock[t] = Nobody
          /\ flake' = [flake EXCEPT ![t].lower = d,
                                    ![t].issue = IF @ = Null THEN 0 ELSE @]
          /\ UNCHANGED faults
       \/ Fault /\ UNCHANGED flake
    /\ proc' = [proc EXCEPT !["flake"] =
                  IF d = "broken" THEN [@ EXCEPT !.pc = "upserted", !.test = t]
                  ELSE Rest("flake", t)]
    /\ UNCHANGED <<execs, status, testLock, recLock, tokens, opened, mishaps,
                   restored, held, now>>

FlakeBreak ==
    LET t == proc["flake"].test IN
    /\ Holds("flake", "upserted")
    /\ \/ /\ status[t] = "active" /\ testLock[t] = Nobody
          /\ status' = [status EXCEPT ![t] = "broken"]
       \/ status[t] # "active" /\ UNCHANGED status
    /\ proc' = [proc EXCEPT !["flake"] = Rest("flake", t)]
    /\ UNCHANGED <<execs, flake, testLock, recLock, tokens, opened, mishaps,
                   restored, held, now, faults>>

(***************************************************************************)
(* The quarantine sweep.                                                   *)
(***************************************************************************)
\* Seeded fault: a test that once had an issue is not looked at again.
CandidateWithoutIssue(t) ==
    /\ flake[t].issue = 0 /\ flake[t].lower \in {"flaky", "broken"}
    /\ status[t] = "active" /\ flake[t].quarantinedAt = Null

Candidate(t) ==
    /\ HasRecord(t)
    /\ flake[t].lower \in {"flaky", "broken"}
    /\ status[t] = "active"
    /\ flake[t].quarantinedAt = Null

SweepScan(s) ==
    LET cands == {t \in AutoEnabled : Candidate(t)} IN
    /\ Holds(s, "idle")
    /\ cands # {}
    /\ proc' = [proc EXCEPT ![s] = [Idle EXCEPT !.pc = "loop", !.todo = cands]]
    /\ UNCHANGED <<execs, status, flake, testLock, recLock, tokens, opened,
                   mishaps, restored, held, now, faults>>

\* A row that is not active is passed over without waiting for its lock.
SweepUpdateTest(s, t) ==
    LET hit == status[t] = "active" IN
    /\ Holds(s, "loop") /\ t \in proc[s].todo
    /\ hit => testLock[t] = Nobody
    /\ testLock' = [testLock EXCEPT ![t] = IF hit THEN s ELSE @]
    /\ proc' = [proc EXCEPT ![s].pc = "test", ![s].test = t, ![s].hit = hit]
    /\ UNCHANGED <<execs, status, flake, recLock, tokens, opened, mishaps,
                   restored, held, now, faults>>

(***************************************************************************)
(* GitHub. A request is answered, refused, or carried out and its answer   *)
(* lost; the clients report the last two as the same error.                *)
(***************************************************************************)
do == {"answered", "refused", "lost"}
Open(r, n) == IF r = "answered" THEN n ELSE 0
Comment(r) == [posted |-> r # "refused", ok |-> r = "answered"]

\* Seeded fault: the record is updated after the commit, so nobody waits.
updateRecordLate(s) == Holds(s, "test") /\ UNCHANGED recLock

\* The UPDATE of flake_records waits for the row, and then keeps it locked.
updateRecord(s) ==
    /\ Holds(s, "test")
    /\ recLock[proc[s].test] = Nobody
    /\ recLock' = [recLock EXCEPT ![proc[s].test] = s]

\* The number of the issue is read outside the transaction, but under the lock.
\* What becomes of the comment is only logged.
SweepComment(s) ==
    /\ updateRecord(s)
    /\ flake[proc[s].test].issue > 0
    /\ proc' = [proc EXCEPT ![s].pc = "commit"]
    /\ UNCHANGED <<execs, status, flake, testLock, tokens, opened, mishaps, restored,
                   held, now, faults>>

\* The error of that read is dropped: when it fails, the number is 0 as if the
\* test had no issue, and the one opened now will take its place in the row.
SweepOpen(s) ==
    LET t == proc[s].test
        n == Cardinality(UNION {opened[u] : u \in Tests}) + 1
        unread == IF flake[t].issue > 0 THEN 1 ELSE 0 IN
    /\ updateRecord(s)
    /\ \E r \in do :
         LET failed == unread + (IF r = "lost" THEN 1 ELSE 0) IN
         /\ faults + failed <= FaultLimit
         /\ faults' = faults + failed
         /\ mishaps' = [mishaps EXCEPT ![t] = @ + failed]
         /\ opened' = [opened EXCEPT ![t] = IF r = "refused" THEN @ ELSE @ \cup {n}]
         /\ proc' = [proc EXCEPT ![s].pc = "commit", ![s].issue = Open(r, n)]
    /\ UNCHANGED <<execs, status, flake, testLock, tokens, restored, held, now>>

Unlock(s) ==
    /\ testLock' = [t \in Tests |-> IF testLock[t] = s THEN Nobody ELSE testLock[t]]
    /\ recLock' = [t \in Tests |-> IF recLock[t] = s THEN Nobody ELSE recLock[t]]

SweepCommit(s) ==
    LET t == proc[s].test
        n == proc[s].issue IN
    /\ Holds(s, "commit")
    /\ status' = [status EXCEPT ![t] = IF proc[s].hit THEN "quarantined" ELSE @]
    /\ flake' = [flake EXCEPT ![t].quarantinedAt = now,
                              ![t].issue = IF n > 0 THEN n ELSE @]
    /\ Unlock(s)
    /\ proc' = [proc EXCEPT ![s] = Rest(s, t)]
    /\ UNCHANGED <<execs, tokens, opened, mishaps, restored, held, now, faults>>

\* A statement or the commit fails and the sweep goes on, or its process dies.
SweepAbort(s) ==
    LET t == proc[s].test
        n == proc[s].issue IN
    /\ proc[s].pc \in {"test", "commit"}
    /\ Fault
    /\ mishaps' = [mishaps EXCEPT ![t] = IF n > 0 THEN @ + 1 ELSE @]
    /\ Unlock(s)
    /\ \E q \in {Idle, Rest(s, t)} : proc' = [proc EXCEPT ![s] = q]
    /\ UNCHANGED <<execs, status, flake, tokens, opened, restored, held, now>>

(***************************************************************************)
(* The SLA sweep: a comment on the issue, then last_nudged_at.             *)
(***************************************************************************)
LastAction(t) ==
    IF flake[t].lastNudged # Null THEN flake[t].lastNudged ELSE flake[t].quarantinedAt

Overdue(t) ==
    /\ status[t] = "quarantined"
    /\ flake[t].issue > 0
    /\ flake[t].quarantinedAt # Null
    /\ now - LastAction(t) >= SLA

SlaScan ==
    LET work == {t \in Tests : Overdue(t)} IN
    /\ Holds("sla", "idle")
    /\ work # {}
    /\ proc' = [proc EXCEPT !["sla"] = [Idle EXCEPT !.pc = "loop", !.todo = work]]
    /\ UNCHANGED <<execs, status, flake, testLock, recLock, tokens, opened,
                   mishaps, restored, held, now, faults>>

\* The comment and the UPDATE are one step: nobody else reads last_nudged_at.
\* If either fails the sweep goes on, and the test stays overdue.
SlaNudge(t) ==
    /\ Holds("sla", "loop") /\ t \in proc["sla"].todo
    /\ \/ /\ recLock[t] = Nobody
          /\ flake' = [flake EXCEPT ![t].lastNudged = now]
          /\ UNCHANGED faults
       \/ Fault /\ UNCHANGED flake
    /\ proc' = [proc EXCEPT !["sla"] = Rest("sla", t)]
    /\ UNCHANGED <<execs, status, testLock, recLock, tokens, opened, mishaps,
                   restored, held, now>>

(***************************************************************************)
(* Un-quarantine proposals: a link in a comment on the issue.              *)
(***************************************************************************)
LooksFixed(t) ==
    /\ Len(execs[t]) >= Window
    /\ \A i \in (Len(execs[t]) - Window + 1)..Len(execs[t]) : execs[t][i] = "passed"

Proposable(t) ==
    /\ status[t] = "quarantined"
    /\ flake[t].issue > 0
    /\ LooksFixed(t)
    /\ flake[t].proposedAt = Null \/ now - flake[t].proposedAt >= ProposalGap

ProposalScan ==
    LET work == {t \in Tests : Proposable(t)} IN
    /\ Holds("proposals", "idle")
    /\ work # {}
    /\ proc' = [proc EXCEPT !["proposals"] = [Idle EXCEPT !.pc = "loop", !.todo = work]]
    /\ UNCHANGED <<execs, status, flake, testLock, recLock, tokens, opened,
                   mishaps, restored, held, now, faults>>

\* A row of unquarantine_tokens; posted says that an operator can see the link.
mintToken(t, k, posted) ==
    /\ tokens[k] = Unminted
    /\ tokens' = [tokens EXCEPT ![k] = [test |-> t, expires |-> now + TokenTTL,
                                         consumed |-> FALSE, posted |-> posted]]

\* Token, comment and proposed_at are one step: until the comment is posted
\* nobody knows the token, and only this job reads unquarantine_proposed_at.
\* After a failure the comment may be there, and the link is valid.
Propose(t) ==
    /\ Holds("proposals", "loop") /\ t \in proc["proposals"].todo
    /\ \E k \in Tokens, r \in do :
         /\ mintToken(t, k, Comment(r).posted)
         /\ \/ /\ Comment(r).ok /\ recLock[t] = Nobody
               /\ flake' = [flake EXCEPT ![t].proposedAt = now]
               /\ UNCHANGED faults
            \/ Fault /\ UNCHANGED flake
    /\ proc' = [proc EXCEPT !["proposals"] = Rest("proposals", t)]
    /\ UNCHANGED <<execs, status, testLock, recLock, opened, mishaps, restored,
                   held, now>>

\* A job process other than a sweep dies; it holds no transaction.
JobDies(p) ==
    /\ p \notin Sweeps /\ ~Holds(p, "idle")
    /\ Fault
    /\ proc' = [proc EXCEPT ![p] = Idle]
    /\ UNCHANGED <<execs, status, flake, testLock, recLock, tokens, opened,
                   mishaps, restored, held, now>>

(***************************************************************************)
(* Operators: the restore link and the two GraphQL mutations.              *)
(***************************************************************************)
Usable(k) == tokens[k].posted /\ ~tokens[k].consumed /\ now < tokens[k].expires

\* Seeded fault: the token is read without FOR UPDATE.
RestoreReadUnlocked(k) ==
    /\ held[k] < MaxClicks /\ Usable(k)
    /\ held' = [held EXCEPT ![k] = @ + 1]
    /\ UNCHANGED <<execs, status, flake, testLock, recLock, tokens, opened,
                   mishaps, restored, proc, now, faults>>

\* SELECT ... FOR UPDATE; a consumed or expired token is answered with 410.
RestoreRead(k) ==
    /\ held[k] = 0
    /\ Usable(k)
    /\ held' = [held EXCEPT ![k] = @ + 1]
    /\ UNCHANGED <<execs, status, flake, testLock, recLock, tokens, opened,
                   mishaps, restored, proc, now, faults>>

\* The UPDATE of the test does not look at its status.
RestoreCommit(k) ==
    LET t == tokens[k].test IN
    /\ held[k] > 0
    /\ testLock[t] = Nobody /\ recLock[t] = Nobody
    /\ tokens' = [tokens EXCEPT ![k].consumed = TRUE]
    /\ status' = [status EXCEPT ![t] = "active"]
    /\ flake' = [flake EXCEPT ![t].quarantinedAt = Null]
    /\ restored' = [restored EXCEPT ![k] = @ + 1]
    /\ held' = [held EXCEPT ![k] = @ - 1]
    /\ UNCHANGED <<execs, testLock, recLock, opened, mishaps, proc, now, faults>>

\* The client goes away or a statement fails: the transaction is rolled back.
RestoreRollback(k) ==
    /\ held[k] > 0
    /\ Fault
    /\ held' = [held EXCEPT ![k] = @ - 1]
    /\ UNCHANGED <<execs, status, flake, testLock, recLock, tokens, opened,
                   mishaps, restored, proc, now>>

\* Seeded fault: the bookkeeping of flake_records is forgotten.
quarantineTestUnmarked(t) ==
    /\ status[t] # "deleted"
    /\ testLock[t] = Nobody /\ recLock[t] = Nobody
    /\ status' = [status EXCEPT ![t] = "quarantined"]
    /\ UNCHANGED <<execs, flake, testLock, recLock, tokens, opened, mishaps,
                   restored, proc, held, now, faults>>

quarantineTest(t) ==
    /\ status[t] # "deleted"
    /\ testLock[t] = Nobody /\ recLock[t] = Nobody
    /\ status' = [status EXCEPT ![t] = "quarantined"]
    /\ flake' = [flake EXCEPT ![t].quarantinedAt = IF HasRecord(t) THEN now ELSE @]
    /\ UNCHANGED <<execs, testLock, recLock, tokens, opened, mishaps, restored,
                   proc, held, now, faults>>

unquarantineTest(t) ==
    /\ testLock[t] = Nobody /\ recLock[t] = Nobody
    /\ status' = [status EXCEPT ![t] = IF @ = "quarantined" THEN "active" ELSE @]
    /\ flake' = [flake EXCEPT ![t].quarantinedAt = Null]
    /\ UNCHANGED <<execs, testLock, recLock, tokens, opened, mishaps, restored,
                   proc, held, now, faults>>

(***************************************************************************)
Sweep(s) ==
    \/ SweepScan(s) \/ SweepComment(s) \/ SweepOpen(s) \/ SweepCommit(s)
    \/ \E t \in Tests : SweepUpdateTest(s, t)

Flake == FlakeScan \/ FlakeBreak \/ \E t \in Tests : FlakeUpsert(t)
FollowUp == SlaScan \/ ProposalScan \/ \E t \in Tests : SlaNudge(t) \/ Propose(t)
Operator ==
    \/ \E t \in Tests : quarantineTest(t) \/ unquarantineTest(t)
    \/ \E k \in Tokens : RestoreRead(k) \/ RestoreCommit(k) \/ RestoreRollback(k)

Next ==
    \/ TimePasses \/ Flake \/ FollowUp \/ Operator
    \/ \E t \in Tests : RecordExecution(t)
    \/ \E s \in Sweeps : Sweep(s) \/ SweepAbort(s)
    \/ \E p \in Procs : JobDies(p)

Spec == Init /\ [][Next]_vars

\* quarantine-sweep is a CronJob: as long as there is work, some run of it goes on.
FairSpec == Spec /\ WF_vars(\E s \in Sweeps : Sweep(s))

(***************************************************************************)
(* Properties.                                                             *)
(***************************************************************************)

\* The row of t names an issue, or a sweep holds one that it is about to name.
HasIssue(t) ==
    flake[t].issue > 0 \/ \E s \in Sweeps : proc[s].test = t /\ proc[s].issue > 0

\* S-15-02 AC4, as far as it is true: however sweeps overlap, GitHub has the one
\* issue for a test that its row names, and at most one more for each read of the
\* number that failed, answer of Open that was lost and transaction rolled back
\* with an issue in it; and the number in the row is that of an issue of the test.
OneIssuePerTest ==
    \A t \in Tests :
        /\ Cardinality(opened[t]) <= mishaps[t] + (IF HasIssue(t) THEN 1 ELSE 0)
        /\ flake[t].issue > 0 => flake[t].issue \in opened[t]

\* A link restores its test at most once, and is then consumed, although the
\* click is repeated or made twice at once (Restore: "One-shot").
LinkWorksOnce ==
    \A k \in Tokens : restored[k] = IF tokens[k].consumed THEN 1 ELSE 0

\* A quarantined test that has an issue has a quarantine date, without which the
\* SLA sweep would never see it, whichever of sweep, mutation and link wrote last.
QuarantinedIsTracked ==
    \A t \in Tests : status[t] = "quarantined" /\ flake[t].issue > 0
                        => flake[t].quarantinedAt # Null

\* S-15-01 AC1: an active test recorded as flaky and not marked yet does not
\* stay so, also after an earlier quarantine, a crash or while GitHub fails.
FlakyIsQuarantined ==
    \A t \in AutoEnabled :
        (status[t] = "active" /\ flake[t].lower = "flaky" /\ flake[t].quarantinedAt = Null)
            ~> (status[t] # "active" \/ flake[t].quarantinedAt # Null
                  \/ flake[t].lower # "flaky")

\* S-15-01 AC3 says that a test that fails always is escalated to 'broken' and
\* not quarantined by the sweep. Not true between the job's two statements.
BrokenIsNotSwept ==
    \A s \in Sweeps : proc[s].hit => flake[proc[s].test].lower # "broken"

\* setQuarantine says that the manual and automatic paths converge: a date in
\* flake_records means a quarantined test. A late sweep leaves one behind.
MarkedIsQuarantined ==
    \A t \in Tests : flake[t].quarantinedAt # Null => status[t] = "quarantined"

\* S-15-02 AC4: a test that has an issue gets a comment and not a second issue.
\* Not true when the read of the number fails, or an issue is rolled back.
NeverASecondIssue == \A t \in Tests : Cardinality(opened[t]) <= 1

(***************************************************************************)
(* The inductive invariants behind them.                                   *)
(***************************************************************************)

\* A sweep holds the row of flake_records from its UPDATE to the end of its
\* transaction, and has an issue only between the two.
LockInv ==
    /\ \A s \in Sweeps :
         /\ proc[s].pc \in {"test", "commit"} => proc[s].test \in Tests
         /\ proc[s].pc = "commit" => recLock[proc[s].test] = s
         /\ proc[s].issue > 0 => proc[s].pc = "commit"
    /\ \A t \in Tests, s \in Sweeps :
         recLock[t] = s => proc[s].pc = "commit" /\ proc[s].test = t

\* The issue a sweep is about to write is one of its test, like the one the row
\* names, and the others are accounted for.
IssueInv ==
    /\ IsFiniteSet(UNION {opened[t] : t \in Tests})
    /\ OneIssuePerTest
    /\ \A s \in Sweeps : proc[s].issue > 0 => proc[s].issue \in opened[proc[s].test]

\* FOR UPDATE: one request at a time has read a link, and found it usable.
LinkInv ==
    /\ LinkWorksOnce
    /\ \A k \in Tokens :
         /\ tokens[k].posted => tokens[k].test \in Tests
         /\ held[k] <= 1
         /\ held[k] = 1 => tokens[k].posted /\ ~tokens[k].consumed

=============================================================================
