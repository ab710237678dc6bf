-------------------------- MODULE QuarantineProofs --------------------------
(***************************************************************************)
(* A flaky test has one issue, a restore link works once, and a            *)
(* quarantined test with an issue has a date: proved for any number of     *)
(* tests, overlapping sweeps, links and faults.                            *)
(***************************************************************************)
EXTENDS Quarantine, FiniteSetTheorems, SequenceTheorems, TLAPS

\* The empty rows are rows, and so is what is left of a job after a row.
LEMMA EmptyRows == NoRecord \in Records /\ Unminted \in TokenRows /\ Idle \in ProcStates
BY QuarantineAssumption
   DEF NoRecord, Records, Null, Lowers, Unminted, TokenRows, Idle, ProcStates

\* A job that is done with a row holds nothing and has no issue.
LEMMA RestFacts ==
    ASSUME TypeOK, NEW p \in Procs, NEW t
    PROVE  /\ Rest(p, t) \in ProcStates
           /\ Rest(p, t).pc \in {"idle", "loop"} /\ Rest(p, t).issue = 0
<1>1. proc[p] \in ProcStates
  BY DEF TypeOK
<1>2. CASE proc[p].todo = {t}
  BY <1>2, EmptyRows DEF Rest, Idle
<1>3. CASE proc[p].todo # {t}
  <2>1. Rest(p, t) = [Idle EXCEPT !.pc = "loop", !.todo = proc[p].todo \ {t},
                                  !.seen = proc[p].seen]
    BY <1>3 DEF Rest
  <2>. QED
    BY <1>1, <2>1, EmptyRows, ZenonT(60) DEF Idle, ProcStates
<1>. QED
  BY <1>2, <1>3

\* Nothing is known of any test at first.
LEMMA TypeInit == Init => TypeOK
<1>. SUFFICES ASSUME Init PROVE TypeOK
  OBVIOUS
<1>1. \A S : <<>> \in Seq(S)
  OBVIOUS
<1>. QED
  BY <1>1, EmptyRows, QuarantineAssumption DEF Init, TypeOK, Statuses

\* The jobs and the sweeps have names of their own.
LEMMA JobNames ==
    /\ Sweeps \subseteq Procs /\ {"flake", "sla", "proposals"} \subseteq Procs
    /\ \A s \in Sweeps : s # "flake" /\ s # "sla" /\ s # "proposals" /\ s # Nobody
BY QuarantineAssumption DEF Procs

-----------------------------------------------------------------------------
(* Types.                                                                  *)

\* Every step of a job, a sweep or an operator keeps the types.
LEMMA TypeStep ==
    ASSUME TypeOK, LinkInv, IssueInv, [Next]_vars PROVE TypeOK'
<1>. USE EmptyRows, JobNames, RestFacts
<1>n. /\ now \in 0..MaxNow /\ now \in Null..MaxNow /\ Null \in Null..MaxNow
      /\ MaxNow \in Nat /\ FaultLimit \in Nat
  BY QuarantineAssumption DEF TypeOK, Null
<1>h. \A k \in Tokens : /\ held[k] = 0 => held[k] + 1 \in 0..MaxClicks
                        /\ held[k] > 0 => held[k] - 1 \in 0..MaxClicks
  <2>1. MaxClicks \in Nat \ {0}
    BY QuarantineAssumption
  <2>2. \A k \in Tokens : held[k] \in 0..MaxClicks
    BY DEF TypeOK
  <2>. QED
    BY <2>1, <2>2
<1>f. Fault => faults' \in 0..FaultLimit
  BY <1>n DEF Fault, TypeOK
<1>1. ASSUME NEW t \in Tests, RecordExecution(t) PROVE TypeOK'
  <2>1. PICK o \in Outcomes :
           execs' = [execs EXCEPT ![t] = IF Len(Append(execs[t], o)) > Kept
                                         THEN Tail(Append(execs[t], o))
                                         ELSE Append(execs[t], o)]
    BY <1>1 DEF RecordExecution
  <2>2. /\ Append(execs[t], o) \in Seq(Outcomes)
        /\ Tail(Append(execs[t], o)) \in Seq(Outcomes)
    <3>1. execs[t] \in Seq(Outcomes)
      BY DEF TypeOK
    <3>2. Append(execs[t], o) \in Seq(Outcomes) /\ Append(execs[t], o) # <<>>
      BY <3>1, AppendProperties
    <3>. QED
      BY <3>2, HeadTailProperties
  <2>3. execs' \in [Tests -> Seq(Outcomes)]
    BY <2>1, <2>2 DEF TypeOK
  <2>. QED
    BY <1>1, <2>3 DEF TypeOK, RecordExecution
<1>2. CASE TimePasses
  BY <1>n, <1>2 DEF TypeOK, TimePasses
<1>3. CASE FlakeScan
  <2>1. [t \in Tests |-> Classify(execs[t])] \in [Tests -> Lowers]
    BY DEF Classify, Lowers
  <2>2. proc'["flake"] \in ProcStates /\ proc' = [proc EXCEPT !["flake"] = proc'["flake"]]
    BY <1>3, <2>1 DEF FlakeScan, TypeOK, ProcStates
  <2>. QED
    BY <1>3, <2>2 DEF FlakeScan, TypeOK
<1>4. ASSUME NEW t \in Tests, FlakeUpsert(t) PROVE TypeOK'
  <2>1. proc["flake"].seen[t] \in Lowers /\ flake[t] \in Records
    BY DEF TypeOK, ProcStates
  <2>2. [flake[t] EXCEPT !.lower = proc["flake"].seen[t],
                         !.issue = IF @ = Null THEN 0 ELSE @] \in Records
    <3>1. (IF flake[t].issue = Null THEN 0 ELSE flake[t].issue) \in Int
      BY <2>1 DEF Records
    <3>. QED
      BY <2>1, <3>1 DEF Records
  <2>3. flake' \in [Tests -> Records]
    BY <1>4, <2>2 DEF FlakeUpsert, TypeOK
  <2>4. [proc["flake"] EXCEPT !.pc = "upserted", !.test = t] \in ProcStates
    BY DEF TypeOK, ProcStates
  <2>5. proc' \in [Procs -> ProcStates]
    BY <1>4, <2>4 DEF FlakeUpsert, TypeOK
  <2>. QED
    BY <1>4, <1>f, <2>3, <2>5 DEF FlakeUpsert, TypeOK
<1>5. CASE FlakeBreak
  <2>1. status' \in [Tests -> Statuses]
    BY <1>5 DEF FlakeBreak, TypeOK, Statuses
  <2>2. proc' \in [Procs -> ProcStates]
    BY <1>5 DEF FlakeBreak, TypeOK
  <2>. QED
    BY <1>5, <2>1, <2>2 DEF FlakeBreak, TypeOK
<1>6. ASSUME NEW W \in SUBSET Tests, NEW p \in Procs,
             proc' = [proc EXCEPT ![p] = [Idle EXCEPT !.pc = "loop", !.todo = W]],
             UNCHANGED <<execs, status, flake, testLock, recLock, tokens, opened,
                         mishaps, restored, held, now, faults>>
      PROVE  TypeOK'
  <2>1. [Idle EXCEPT !.pc = "loop", !.todo = W] \in ProcStates
    BY DEF ProcStates
  <2>. QED
    BY <1>6, <2>1 DEF TypeOK
<1>7. ASSUME NEW s \in Sweeps, SweepScan(s) PROVE TypeOK'
  <2>1. {t \in AutoEnabled : Candidate(t)} \in SUBSET Tests
    BY QuarantineAssumption
  <2>. QED
    BY <1>6, <1>7, <2>1 DEF SweepScan
<1>8. CASE SlaScan
  BY <1>6, <1>8 DEF SlaScan
<1>9. CASE ProposalScan
  BY <1>6, <1>9 DEF ProposalScan
<1>10. ASSUME NEW s \in Sweeps, NEW t \in Tests, SweepUpdateTest(s, t) PROVE TypeOK'
  <2>1. PICK hit \in BOOLEAN :
           proc' = [proc EXCEPT ![s] = [proc[s] EXCEPT !.pc = "test", !.test = t, !.hit = hit]]
    BY <1>10 DEF SweepUpdateTest, TypeOK
  <2>2. [proc[s] EXCEPT !.pc = "test", !.test = t, !.hit = hit] \in ProcStates
    BY DEF TypeOK, ProcStates
  <2>3. proc' \in [Procs -> ProcStates] /\ testLock' \in [Tests -> Sweeps \cup {Nobody}]
    BY <1>10, <2>1, <2>2, ZenonT(60) DEF SweepUpdateTest, TypeOK
  <2>. QED
    BY <1>10, <2>3 DEF SweepUpdateTest, TypeOK
<1>11. ASSUME NEW s \in Sweeps, SweepComment(s) PROVE TypeOK'
  <2>1. [proc[s] EXCEPT !.pc = "commit"] \in ProcStates
    BY DEF TypeOK, ProcStates
  <2>2. proc' \in [Procs -> ProcStates] /\ recLock' \in [Tests -> Sweeps \cup {Nobody}]
    BY <1>11, <2>1 DEF SweepComment, updateRecord, TypeOK
  <2>. QED
    BY <1>11, <2>2 DEF SweepComment, TypeOK
<1>12. ASSUME NEW s \in Sweeps, SweepOpen(s) PROVE TypeOK'
  <2>. DEFINE n == Cardinality(UNION {opened[u] : u \in Tests}) + 1
              t == proc[s].test
  <2>1. n \in Nat
    BY FS_CardinalityType DEF IssueInv
  <2>. DEFINE unread == IF flake[t].issue > 0 THEN 1 ELSE 0
  <2>2. PICK r \in do :
         LET failed == unread + (IF r = "lost" THEN 1 ELSE 0) IN
         /\ faults + failed <= FaultLimit
         /\ faults' = faults + failed
         /\ mishaps' = [mishaps EXCEPT ![t] = @ + failed]
         /\ opened' = [opened EXCEPT ![t] = IF r = "refused" THEN @ ELSE @ \cup {n}]
         /\ proc' = [proc EXCEPT ![s].pc = "commit", ![s].issue = Open(r, n)]
    BY <1>12 DEF SweepOpen
  <2>. DEFINE d == unread + (IF r = "lost" THEN 1 ELSE 0)
  <2>d. /\ d \in Nat /\ faults + d <= FaultLimit /\ faults' = faults + d
        /\ mishaps' = [mishaps EXCEPT ![t] = @ + d]
    BY <2>2
  <2>. HIDE DEF d
  <2>3. opened' \in [Tests -> SUBSET Nat] /\ mishaps' \in [Tests -> Nat]
    <3>1. \A u \in Tests : mishaps[u] + d \in Nat
      BY <2>d DEF TypeOK
    <3>2. mishaps' \in [Tests -> Nat]
      BY <2>d, <3>1 DEF TypeOK
    <3>. HIDE DEF n
    <3>. QED
      BY <2>1, <2>2, <3>2 DEF TypeOK
  <2>4. Open(r, n) \in Nat
    BY <2>1 DEF Open
  <2>5. [proc[s] EXCEPT !.pc = "commit", !.issue = Open(r, n)] \in ProcStates
    BY <2>4 DEF TypeOK, ProcStates
  <2>6. proc' \in [Procs -> ProcStates]
    BY <2>2, <2>5 DEF TypeOK
  <2>7. recLock' \in [Tests -> Sweeps \cup {Nobody}] /\ faults' \in 0..FaultLimit
    <3>1. faults \in Nat
      BY <1>n DEF TypeOK
    <3>2. faults' \in 0..FaultLimit
      BY <1>n, <2>d, <3>1
    <3>. QED
      BY <1>12, <3>2 DEF SweepOpen, updateRecord, TypeOK
  <2>. QED
    BY <1>12, <2>3, <2>6, <2>7 DEF SweepOpen, TypeOK
<1>13. ASSUME NEW s \in Sweeps, SweepCommit(s) PROVE TypeOK'
  <2>. DEFINE t == proc[s].test
              n == proc[s].issue
  <2>1. status' \in [Tests -> Statuses]
    BY <1>13 DEF SweepCommit, TypeOK, Statuses
  <2>2. n \in Int
    BY DEF TypeOK, ProcStates
  <2>3. flake' \in [Tests -> Records]
    <3>1. \A u \in Tests :
             [flake[u] EXCEPT !.quarantinedAt = now, !.issue = IF n > 0 THEN n ELSE @] \in Records
      BY <1>n, <2>2 DEF TypeOK, Records
    <3>2. flake' = [flake EXCEPT ![t] =
             [flake[t] EXCEPT !.quarantinedAt = now, !.issue = IF n > 0 THEN n ELSE @]]
      BY <1>13 DEF SweepCommit, TypeOK
    <3>. QED
      BY <3>1, <3>2 DEF TypeOK
  <2>4. /\ testLock' \in [Tests -> Sweeps \cup {Nobody}]
        /\ recLock' \in [Tests -> Sweeps \cup {Nobody}]
    BY <1>13 DEF SweepCommit, Unlock, TypeOK
  <2>5. proc' \in [Procs -> ProcStates]
    BY <1>13 DEF SweepCommit, TypeOK
  <2>. QED
    BY <1>13, <2>1, <2>3, <2>4, <2>5 DEF SweepCommit, TypeOK
<1>14. ASSUME NEW s \in Sweeps, SweepAbort(s) PROVE TypeOK'
  <2>1. proc[s].issue \in Nat
    BY DEF TypeOK, ProcStates
  <2>2. mishaps' \in [Tests -> Nat]
    <3>1. \A u \in Tests : mishaps[u] + 1 \in Nat
      BY DEF TypeOK
    <3>. QED
      BY <1>14, <2>1, <3>1 DEF SweepAbort, TypeOK
  <2>3. /\ testLock' \in [Tests -> Sweeps \cup {Nobody}]
        /\ recLock' \in [Tests -> Sweeps \cup {Nobody}]
    BY <1>14 DEF SweepAbort, Unlock, TypeOK
  <2>4. proc' \in [Procs -> ProcStates]
    BY <1>14 DEF SweepAbort, TypeOK
  <2>. QED
    BY <1>14, <1>f, <2>2, <2>3, <2>4 DEF SweepAbort, TypeOK
<1>15. ASSUME NEW t \in Tests, SlaNudge(t) PROVE TypeOK'
  <2>1. [flake[t] EXCEPT !.lastNudged = now] \in Records
    BY <1>n DEF TypeOK, Records
  <2>2. flake' \in [Tests -> Records]
    BY <1>15, <2>1 DEF SlaNudge, TypeOK
  <2>3. proc' \in [Procs -> ProcStates]
    BY <1>15 DEF SlaNudge, TypeOK
  <2>. QED
    BY <1>15, <1>f, <2>2, <2>3 DEF SlaNudge, TypeOK
<1>16. ASSUME NEW t \in Tests, Propose(t) PROVE TypeOK'
  <2>1. PICK k \in Tokens, r \in do : mintToken(t, k, Comment(r).posted)
    BY <1>16 DEF Propose
  <2>2. [test |-> t, expires |-> now + TokenTTL, consumed |-> FALSE,
         posted |-> Comment(r).posted] \in TokenRows
    BY <1>n, QuarantineAssumption DEF TokenRows, Comment
  <2>3. tokens' \in [Tokens -> TokenRows]
    BY <2>1, <2>2 DEF mintToken, TypeOK
  <2>4. [flake[t] EXCEPT !.proposedAt = now] \in Records
    BY <1>n DEF TypeOK, Records
  <2>5. flake' \in [Tests -> Records] /\ faults' \in 0..FaultLimit
    BY <1>16, <1>f, <2>4 DEF Propose, TypeOK
  <2>6. proc' \in [Procs -> ProcStates]
    BY <1>16 DEF Propose, TypeOK
  <2>. QED
    BY <1>16, <2>3, <2>5, <2>6 DEF Propose, TypeOK
<1>17. ASSUME NEW p \in Procs, JobDies(p) PROVE TypeOK'
  BY <1>17, <1>f DEF JobDies, TypeOK
<1>18. ASSUME NEW k \in Tokens, RestoreRead(k) \/ RestoreRollback(k) PROVE TypeOK'
  <2>1. held' \in [Tokens -> 0..MaxClicks]
    BY <1>18, <1>h DEF RestoreRead, RestoreRollback, TypeOK
  <2>. QED
    BY <1>18, <1>f, <2>1 DEF RestoreRead, RestoreRollback, TypeOK
<1>19. ASSUME NEW k \in Tokens, RestoreCommit(k) PROVE TypeOK'
  <2>. DEFINE t == tokens[k].test
  <2>1. [tokens[k] EXCEPT !.consumed = TRUE] \in TokenRows
    BY DEF TypeOK, TokenRows
  <2>2. tokens' \in [Tokens -> TokenRows]
    BY <1>19, <2>1 DEF RestoreCommit, TypeOK
  <2>3. \A u \in Tests : [flake[u] EXCEPT !.quarantinedAt = Null] \in Records
    BY <1>n DEF TypeOK, Records
  <2>4. flake' \in [Tests -> Records]
    BY <1>19, <2>3 DEF RestoreCommit, TypeOK
  <2>5. held' \in [Tokens -> 0..MaxClicks] /\ restored' \in [Tokens -> Nat]
    BY <1>19, <1>h DEF RestoreCommit, TypeOK
  <2>6. status' \in [Tests -> Statuses]
    BY <1>19 DEF RestoreCommit, TypeOK, Statuses
  <2>. QED
    BY <1>19, <2>2, <2>4, <2>5, <2>6 DEF RestoreCommit, TypeOK
<1>20. ASSUME NEW t \in Tests, quarantineTest(t) \/ unquarantineTest(t) PROVE TypeOK'
  <2>1. status' \in [Tests -> Statuses]
    BY <1>20 DEF quarantineTest, unquarantineTest, TypeOK, Statuses
  <2>2. PICK d \in {now, Null, flake[t].quarantinedAt} :
           flake' = [flake EXCEPT ![t] = [flake[t] EXCEPT !.quarantinedAt = d]]
    BY <1>20 DEF quarantineTest, unquarantineTest, TypeOK
  <2>3. [flake[t] EXCEPT !.quarantinedAt = d] \in Records
    BY <1>n DEF TypeOK, Records
  <2>4. flake' \in [Tests -> Records]
    BY <2>2, <2>3 DEF TypeOK
  <2>. QED
    BY <1>20, <2>1, <2>4 DEF quarantineTest, unquarantineTest, TypeOK
<1>21. CASE UNCHANGED vars
  BY <1>21 DEF TypeOK, vars
<1>. QED
  BY <1>1, <1>2, <1>3, <1>4, <1>5, <1>7, <1>8, <1>9, <1>10, <1>11, <1>12, <1>13,
     <1>14, <1>15, <1>16, <1>17, <1>18, <1>19, <1>20, <1>21
     DEF Next, Flake, FollowUp, Operator, Sweep

-----------------------------------------------------------------------------
(* Issues.                                                                 *)

\* Whoever is no sweep leaves the sweeps, their locks and the issues alone;
\* the flake job may make a row, which names no issue.
LEMMA Bystanders ==
    ASSUME TypeOK, [Next]_vars,
           ~\E s \in Sweeps : Sweep(s) \/ SweepAbort(s)
    PROVE  /\ UNCHANGED <<recLock, opened, mishaps>>
           /\ \A s \in Sweeps : proc'[s] = proc[s]
           /\ \A t \in Tests : \/ flake'[t].issue = flake[t].issue
                               \/ flake[t].issue = Null /\ flake'[t].issue = 0
<1>. USE JobNames
<1>t. proc \in [Procs -> ProcStates] /\ flake \in [Tests -> Records]
  BY DEF TypeOK
<1>. DEFINE Others == \A s \in Sweeps : proc'[s] = proc[s]
            Issues == \A t \in Tests : \/ flake'[t].issue = flake[t].issue
                                       \/ flake[t].issue = Null /\ flake'[t].issue = 0
            Same == UNCHANGED <<recLock, opened, mishaps>> /\ Others /\ Issues
<1>1. ASSUME NEW t \in Tests, RecordExecution(t) \/ TimePasses PROVE Same
  BY <1>1 DEF RecordExecution, TimePasses
<1>2. CASE TimePasses
  BY <1>2 DEF TimePasses
<1>3. CASE FlakeScan \/ FlakeBreak \/ SlaScan \/ ProposalScan
  BY <1>t, <1>3 DEF FlakeScan, FlakeBreak, SlaScan, ProposalScan
<1>4. ASSUME NEW t \in Tests, FlakeUpsert(t) PROVE Same
  <2>1. Others
    BY <1>t, <1>4 DEF FlakeUpsert
  <2>2. Issues
    BY <1>t, <1>4 DEF FlakeUpsert, Records
  <2>. QED
    BY <1>4, <2>1, <2>2 DEF FlakeUpsert
<1>5. ASSUME NEW t \in Tests, SlaNudge(t) \/ Propose(t) PROVE Same
  <2>1. Others
    BY <1>t, <1>5 DEF SlaNudge, Propose
  <2>2. Issues
    BY <1>t, <1>5 DEF SlaNudge, Propose, Records
  <2>. QED
    BY <1>5, <2>1, <2>2 DEF SlaNudge, Propose
<1>6. ASSUME NEW p \in Procs, JobDies(p) PROVE Same
  BY <1>t, <1>6 DEF JobDies
<1>7. ASSUME NEW k \in Tokens, RestoreRead(k) \/ RestoreRollback(k) PROVE Same
  BY <1>7 DEF RestoreRead, RestoreRollback
<1>8. ASSUME NEW k \in Tokens, RestoreCommit(k) PROVE Same
  BY <1>t, <1>8 DEF RestoreCommit, Records
<1>9. ASSUME NEW t \in Tests, quarantineTest(t) \/ unquarantineTest(t) PROVE Same
  BY <1>t, <1>9 DEF quarantineTest, unquarantineTest, Records
<1>10. CASE UNCHANGED vars
  BY <1>10 DEF vars
<1>. QED
  BY <1>1, <1>2, <1>3, <1>4, <1>5, <1>6, <1>7, <1>8, <1>9, <1>10
     DEF Next, Flake, FollowUp, Operator

\* How a sweep moves: before its UPDATE of the record, with it, or at the end
\* of its transaction.
LEMMA SweepMoves ==
    ASSUME TypeOK, LockInv, NEW s \in Sweeps, Sweep(s) \/ SweepAbort(s)
    PROVE  /\ proc' = [proc EXCEPT ![s] = proc'[s]]
           /\ \/ /\ UNCHANGED <<recLock, flake, opened, mishaps>>
                 /\ proc[s].pc \in {"idle", "loop"} /\ proc'[s].issue = proc[s].issue
                 /\ proc'[s].pc \in {"loop", "test"}
                 /\ proc'[s].pc = "test" => proc'[s].test \in Tests
              \/ SweepComment(s) \/ SweepOpen(s) \/ SweepCommit(s) \/ SweepAbort(s)
<1>. USE JobNames
<1>t. proc \in [Procs -> ProcStates] /\ proc[s] \in ProcStates
  BY DEF TypeOK
<1>0. proc[s].pc = "idle" => proc[s].issue = 0
  BY <1>t DEF LockInv, ProcStates
<1>1. CASE SweepScan(s)
  BY <1>0, <1>t, <1>1 DEF SweepScan, Holds, Idle
<1>2. ASSUME NEW t \in Tests, SweepUpdateTest(s, t)
      PROVE  /\ proc' = [proc EXCEPT ![s] = proc'[s]]
             /\ UNCHANGED <<recLock, flake, opened, mishaps>>
             /\ proc[s].pc = "loop" /\ proc'[s].issue = proc[s].issue
             /\ proc'[s].pc = "test" /\ proc'[s].test \in Tests
  BY <1>t, <1>2 DEF SweepUpdateTest, Holds, ProcStates
<1>3. CASE SweepComment(s) \/ SweepOpen(s) \/ SweepCommit(s) \/ SweepAbort(s)
  BY <1>t, <1>3 DEF SweepComment, SweepOpen, SweepCommit, SweepAbort
<1>. QED
  BY <1>1, <1>2, <1>3 DEF Sweep

\* The lock discipline survives every step.
LEMMA LockStep == ASSUME TypeOK, LockInv, IssueInv, [Next]_vars PROVE LockInv'
<1>. USE JobNames
<1>t. /\ proc \in [Procs -> ProcStates] /\ flake \in [Tests -> Records]
      /\ recLock \in [Tests -> Sweeps \cup {Nobody}]
      /\ \A s \in Sweeps : proc[s].issue \in Nat
  BY DEF TypeOK, ProcStates
<1>1. CASE ~\E s \in Sweeps : Sweep(s) \/ SweepAbort(s)
  <2>1. /\ UNCHANGED recLock /\ \A s \in Sweeps : proc'[s] = proc[s]
    BY <1>1, Bystanders
  <2>. QED
    BY <2>1 DEF LockInv
<1>2. ASSUME NEW s \in Sweeps, Sweep(s) \/ SweepAbort(s) PROVE LockInv'
  <2>0. /\ proc' = [proc EXCEPT ![s] = proc'[s]]
        /\ \A u \in Sweeps : u # s => proc'[u] = proc[u]
    BY <1>2, <1>t, SweepMoves
  <2>1. ASSUME UNCHANGED recLock, proc[s].pc \in {"idle", "loop"},
               proc'[s].issue = proc[s].issue, proc'[s].pc \in {"loop", "test"},
               proc'[s].pc = "test" => proc'[s].test \in Tests
        PROVE  LockInv'
    BY <2>0, <2>1 DEF LockInv
  <2>2. ASSUME updateRecord(s), proc'[s].pc = "commit", proc'[s].test = proc[s].test
        PROVE  LockInv'
    <3>1. proc[s].pc = "test" /\ proc[s].test \in Tests /\ recLock[proc[s].test] = Nobody
      BY <2>2 DEF updateRecord, Holds, LockInv
    <3>2. recLock' = [recLock EXCEPT ![proc[s].test] = s]
      BY <2>2 DEF updateRecord
    <3>. QED
      BY <1>t, <2>0, <2>2, <3>1, <3>2 DEF LockInv
  <2>3. CASE SweepComment(s)
    <3>1. proc'[s].pc = "commit" /\ proc'[s].test = proc[s].test
      BY <1>t, <2>3 DEF SweepComment, ProcStates
    <3>. QED
      BY <2>2, <2>3, <3>1 DEF SweepComment
  <2>4. CASE SweepOpen(s)
    <3>1. proc'[s].pc = "commit" /\ proc'[s].test = proc[s].test
      BY <1>t, <2>4 DEF SweepOpen, ProcStates
    <3>. QED
      BY <2>2, <2>4, <3>1 DEF SweepOpen
  <2>5. ASSUME Unlock(s), proc[s].pc \in {"test", "commit"},
               proc'[s].pc \in {"idle", "loop"}, proc'[s].issue = 0
        PROVE  LockInv'
    <3>1. \A t \in Tests : recLock'[t] = IF recLock[t] = s THEN Nobody ELSE recLock[t]
      BY <2>5 DEF Unlock
    <3>2. \A u \in Sweeps : u # s /\ proc[u].pc = "commit" =>
             proc[u].test \in Tests /\ recLock[proc[u].test] = u
      BY DEF LockInv
    <3>. QED
      BY <1>t, <2>0, <2>5, <3>1, <3>2 DEF LockInv
  <2>6. CASE SweepCommit(s)
    <3>1. proc'[s] = Rest(s, proc[s].test)
      BY <1>t, <2>6 DEF SweepCommit
    <3>3. proc'[s].pc \in {"idle", "loop"} /\ proc'[s].issue = 0
      BY <3>1, RestFacts
    <3>4. Unlock(s) /\ proc[s].pc = "commit"
      BY <2>6 DEF SweepCommit, Holds
    <3>. QED
      BY <2>5, <3>3, <3>4
  <2>7. CASE SweepAbort(s)
    <3>1. proc'[s] \in {Idle, Rest(s, proc[s].test)}
      BY <1>t, <2>7 DEF SweepAbort
    <3>2. proc'[s].pc \in {"idle", "loop"} /\ proc'[s].issue = 0
      BY <3>1, RestFacts DEF Idle
    <3>. QED
      BY <2>5, <2>7, <3>2 DEF SweepAbort
  <2>. QED
    BY <1>2, <2>1, <2>3, <2>4, <2>6, <2>7, SweepMoves
<1>. QED
  BY <1>1, <1>2

\* One more element counts one more at most.
LEMMA OneMore ==
    ASSUME NEW S, IsFiniteSet(S), NEW x
    PROVE  /\ IsFiniteSet(S \cup {x}) /\ Cardinality(S) \in Nat
           /\ Cardinality(S \cup {x}) \in Nat
           /\ Cardinality(S \cup {x}) <= Cardinality(S) + 1
<1>1. IsFiniteSet(S \cup {x}) /\ Cardinality(S) \in Nat
  BY FS_AddElement, FS_CardinalityType
<1>2. Cardinality(S \cup {x}) \in {Cardinality(S), Cardinality(S) + 1}
  BY FS_AddElement
<1>. QED
  BY <1>1, <1>2

\* Every step leaves the issues of a test accounted for: the one that is named
\* by the record or by the sweep about to write it, and one for each mishap.
LEMMA IssueStep == ASSUME TypeOK, LockInv, IssueInv, [Next]_vars PROVE IssueInv'
<1>. USE JobNames
<1>. DEFINE All == UNION {opened[t] : t \in Tests}
            Has(t) == \/ flake'[t].issue > 0
                      \/ \E s \in Sweeps : proc'[s].test = t /\ proc'[s].issue > 0
            Ok(t) == /\ Cardinality(opened'[t]) <= mishaps'[t] + (IF Has(t) THEN 1 ELSE 0)
                     /\ flake'[t].issue > 0 => flake'[t].issue \in opened'[t]
<1>t. /\ proc \in [Procs -> ProcStates] /\ flake \in [Tests -> Records]
      /\ opened \in [Tests -> SUBSET Nat] /\ mishaps \in [Tests -> Nat]
      /\ \A s \in Sweeps : proc[s].issue \in Nat
      /\ \A t \in Tests : flake[t].issue \in Int
  BY DEF TypeOK, ProcStates, Records
<1>f. \A t \in Tests : IsFiniteSet(opened[t]) /\ Cardinality(opened[t]) \in Nat
  <2>1. IsFiniteSet(All)
    BY DEF IssueInv
  <2>2. \A t \in Tests : opened[t] \subseteq All
    OBVIOUS
  <2>. HIDE DEF All
  <2>. QED
    BY <2>1, <2>2, FS_Subset, FS_CardinalityType
<1>i. /\ \A t \in Tests :
           /\ Cardinality(opened[t]) <= mishaps[t] + (IF HasIssue(t) THEN 1 ELSE 0)
           /\ flake[t].issue > 0 => flake[t].issue \in opened[t]
      /\ \A u \in Sweeps : proc[u].issue > 0 =>
           /\ proc[u].issue \in opened[proc[u].test]
           /\ proc[u].test \in Tests /\ recLock[proc[u].test] = u
  BY DEF IssueInv, OneIssuePerTest, LockInv
<1>q. ASSUME NEW x, UNION {opened'[t] : t \in Tests} \subseteq All \cup {x},
             \A t \in Tests : Ok(t),
             \A s \in Sweeps : proc'[s].issue > 0 => proc'[s].issue \in opened'[proc'[s].test]
      PROVE  IssueInv'
  <2>1. IsFiniteSet(All)
    BY DEF IssueInv
  <2>2. IsFiniteSet(All \cup {x})
    BY <2>1, FS_AddElement
  <2>3. IsFiniteSet(UNION {opened'[t] : t \in Tests})
    BY <1>q, <2>2, FS_Subset
  <2>4. OneIssuePerTest'
    BY <1>q DEF OneIssuePerTest, HasIssue
  <2>. QED
    BY <1>q, <2>3, <2>4 DEF IssueInv
<1>1. CASE ~\E s \in Sweeps : Sweep(s) \/ SweepAbort(s)
  <2>1. /\ UNCHANGED <<opened, mishaps>> /\ \A s \in Sweeps : proc'[s] = proc[s]
        /\ \A t \in Tests : \/ flake'[t].issue = flake[t].issue
                            \/ flake[t].issue = Null /\ flake'[t].issue = 0
    BY <1>1, Bystanders
  <2>2. \A t \in Tests : flake'[t].issue > 0 <=> flake[t].issue > 0
    BY <2>1 DEF Null
  <2>3. \A t \in Tests : Has(t) <=> HasIssue(t)
    BY <2>1, <2>2 DEF HasIssue
  <2>4. \A t \in Tests : flake'[t].issue > 0 => flake'[t].issue = flake[t].issue
    BY <2>1 DEF Null
  <2>. HIDE DEF Has
  <2>5. \A t \in Tests : Ok(t)
    BY <1>i, <2>1, <2>2, <2>3, <2>4
  <2>. USE DEF Has
  <2>. HIDE DEF Ok
  <2>. QED
    BY <1>q, <1>i, <2>1, <2>5
<1>2. ASSUME NEW s \in Sweeps, Sweep(s) \/ SweepAbort(s) PROVE IssueInv'
  <2>. DEFINE v == proc[s].test
              x == Cardinality(All) + 1
  <2>0. \A u \in Sweeps : u # s => proc'[u] = proc[u]
    BY <1>2, <1>t, SweepMoves
  \* What a step does to tests other than the one of the sweep.
  <2>1. ASSUME NEW t \in Tests, opened'[t] = opened[t], mishaps'[t] = mishaps[t],
               flake'[t].issue = flake[t].issue,
               proc[s].test = t => proc[s].issue = 0
        PROVE  Ok(t)
    <3>1. HasIssue(t) => Has(t)
      <4>1. CASE flake[t].issue > 0
        BY <2>1, <4>1
      <4>2. ASSUME NEW u \in Sweeps, proc[u].test = t, proc[u].issue > 0 PROVE Has(t)
        BY <2>0, <2>1, <4>2
      <4>. QED
        BY <4>1, <4>2 DEF HasIssue
    <3>2. /\ Cardinality(opened[t]) \in Nat /\ mishaps[t] \in Nat
          /\ Cardinality(opened[t]) <= mishaps[t] + (IF HasIssue(t) THEN 1 ELSE 0)
          /\ flake[t].issue > 0 => flake[t].issue \in opened[t]
      BY <1>f, <1>i, <1>t
    <3>. HIDE DEF Has
    <3>. QED
      BY <2>1, <3>1, <3>2
  <2>2. ASSUME UNCHANGED <<flake, opened, mishaps>>, proc'[s].issue = 0, proc[s].issue = 0
        PROVE  IssueInv'
    <3>1. \A t \in Tests : Ok(t)
      BY <2>1, <2>2
    <3>2. \A u \in Sweeps : proc'[u].issue > 0 => proc'[u].issue \in opened'[proc'[u].test]
      BY <1>i, <2>0, <2>2
    <3>. HIDE DEF Ok
    <3>. QED
      BY <1>q, <2>2, <3>1, <3>2
  <2>3. ASSUME UNCHANGED <<recLock, flake, opened, mishaps>>,
               proc[s].pc \in {"idle", "loop"}, proc'[s].issue = proc[s].issue
        PROVE  IssueInv'
    <3>1. proc[s].issue = 0
      BY <1>t, <2>3 DEF LockInv
    <3>. QED
      BY <2>2, <2>3, <3>1
  <2>4. CASE SweepComment(s)
    <3>1. proc[s].issue = 0
      BY <1>t, <2>4 DEF LockInv, SweepComment, updateRecord, Holds
    <3>2. proc'[s].issue = 0
      BY <1>t, <2>4, <3>1 DEF SweepComment, ProcStates
    <3>. QED
      BY <2>2, <2>4, <3>1, <3>2 DEF SweepComment
  <2>5. CASE SweepOpen(s)
    <3>1. v \in Tests /\ recLock[v] = Nobody /\ proc[s].issue = 0 /\ UNCHANGED flake
      BY <1>t, <2>5 DEF SweepOpen, updateRecord, Holds, LockInv
    <3>2. ~\E u \in Sweeps : proc[u].test = v /\ proc[u].issue > 0
      BY <1>i, <3>1
    <3>3. x \in Nat /\ x > 0
      BY FS_CardinalityType DEF IssueInv
    <3>. HIDE DEF x
    <3>. DEFINE unread == IF flake[v].issue > 0 THEN 1 ELSE 0
    <3>4. PICK r \in do :
           /\ mishaps' = [mishaps EXCEPT ![v] = @ + (unread + (IF r = "lost" THEN 1 ELSE 0))]
           /\ opened' = [opened EXCEPT ![v] = IF r = "refused" THEN @ ELSE @ \cup {x}]
           /\ proc' = [proc EXCEPT ![s].pc = "commit", ![s].issue = Open(r, x)]
      BY <2>5 DEF SweepOpen, x
    <3>. DEFINE d == unread + (IF r = "lost" THEN 1 ELSE 0)
    <3>d. d \in Nat /\ (flake[v].issue > 0 \/ r = "lost" => d > 0)
      OBVIOUS
    <3>5. UNION {opened'[t] : t \in Tests} \subseteq All \cup {x}
      BY <1>t, <3>1, <3>4
    <3>6. /\ proc'[s].test = v /\ proc'[s].issue = IF r = "answered" THEN x ELSE 0
          /\ mishaps'[v] = mishaps[v] + d
          /\ opened'[v] = IF r = "refused" THEN opened[v] ELSE opened[v] \cup {x}
      <4>1. proc'[s] = [proc[s] EXCEPT !.pc = "commit", !.issue = Open(r, x)]
        BY <1>t, <3>4
      <4>2. proc[s] \in ProcStates
        BY <1>t
      <4>3. proc'[s].test = v /\ proc'[s].issue = Open(r, x)
        BY <4>1, <4>2 DEF ProcStates
      <4>4. /\ mishaps'[v] = mishaps[v] + d
            /\ opened'[v] = IF r = "refused" THEN opened[v] ELSE opened[v] \cup {x}
        BY <1>t, <3>1, <3>4
      <4>. QED
        BY <4>3, <4>4 DEF Open
    <3>7. Ok(v)
      <4>1. /\ flake[v].issue > 0 => flake'[v].issue \in opened'[v]
            /\ Cardinality(opened[v]) <= mishaps[v] + (IF flake[v].issue > 0 THEN 1 ELSE 0)
        BY <1>i, <3>1, <3>2, <3>6 DEF HasIssue
      <4>2. /\ Cardinality(opened'[v]) \in Nat /\ Cardinality(opened[v]) \in Nat
            /\ Cardinality(opened'[v]) <= Cardinality(opened[v])
                                           + (IF r = "refused" THEN 0 ELSE 1)
        <5>1. CASE r = "refused"
          BY <1>f, <3>1, <3>6, <5>1
        <5>2. CASE r # "refused"
          <6>1. opened'[v] = opened[v] \cup {x} /\ IsFiniteSet(opened[v])
            BY <1>f, <3>1, <3>6, <5>2
          <6>2. /\ Cardinality(opened[v]) \in Nat /\ Cardinality(opened[v] \cup {x}) \in Nat
                /\ Cardinality(opened[v] \cup {x}) <= Cardinality(opened[v]) + 1
            BY <6>1, OneMore
          <6>. QED
            BY <5>2, <6>1, <6>2
        <5>. QED
          BY <5>1, <5>2
      <4>3. /\ flake[v].issue > 0 => Has(v)
            /\ r = "answered" => Has(v)
        BY <3>1, <3>3, <3>6
      <4>4. mishaps[v] \in Nat /\ r \in {"answered", "refused", "lost"}
        BY <1>t, <3>1 DEF do
      <4>. HIDE DEF Has, d
      <4>. QED
        BY <3>1, <3>d, <3>6, <4>1, <4>2, <4>3, <4>4
    <3>8. \A t \in Tests \ {v} : Ok(t)
      <4>1. \A t \in Tests \ {v} : opened'[t] = opened[t] /\ mishaps'[t] = mishaps[t]
        BY <1>t, <3>1, <3>4
      <4>. HIDE DEF Ok
      <4>. QED
        BY <2>1, <3>1, <4>1
    <3>9. \A u \in Sweeps : proc'[u].issue > 0 => proc'[u].issue \in opened'[proc'[u].test]
      <4>1. \A t \in Tests : opened[t] \subseteq opened'[t]
        BY <1>t, <3>1, <3>4
      <4>. QED
        <5>1. proc'[s].issue > 0 => proc'[s].issue = x /\ x \in opened'[v]
          BY <3>6
        <5>2. ASSUME NEW u \in Sweeps, u # s, proc'[u].issue > 0
              PROVE  proc'[u].issue \in opened'[proc'[u].test]
          BY <1>i, <2>0, <4>1, <5>2
        <5>. QED
          BY <3>6, <5>1, <5>2
    <3>. HIDE DEF Ok
    <3>. QED
      BY <1>q, <3>5, <3>7, <3>8, <3>9
  <2>6. CASE SweepCommit(s)
    <3>1. v \in Tests /\ recLock[v] = s
      BY <2>6 DEF SweepCommit, Holds, LockInv
    <3>2. /\ UNCHANGED <<opened, mishaps>>
          /\ \A t \in Tests \ {v} : flake'[t] = flake[t]
          /\ flake'[v].issue = IF proc[s].issue > 0 THEN proc[s].issue ELSE flake[v].issue
      BY <1>t, <2>6, <3>1 DEF SweepCommit, Records
    <3>3. Ok(v)
      <4>1. ~\E u \in Sweeps : u # s /\ proc[u].test = v /\ proc[u].issue > 0
        BY <1>i, <3>1
      <4>2. HasIssue(v) => flake'[v].issue > 0
        BY <1>t, <3>2, <4>1 DEF HasIssue
      <4>3. flake'[v].issue > 0 => Has(v)
        OBVIOUS
      <4>4. /\ Cardinality(opened[v]) \in Nat /\ mishaps[v] \in Nat
            /\ Cardinality(opened[v]) <= mishaps[v] + (IF HasIssue(v) THEN 1 ELSE 0)
        BY <1>f, <1>i, <1>t, <3>1
      <4>5. flake'[v].issue > 0 => flake'[v].issue \in opened'[v]
        BY <1>i, <3>1, <3>2
      <4>. HIDE DEF Has
      <4>. QED
        BY <3>2, <4>2, <4>3, <4>4, <4>5
    <3>4. \A t \in Tests \ {v} : Ok(t)
      BY <2>1, <3>2
    <3>5. proc'[s].issue = 0
      BY <1>t, <2>6, RestFacts DEF SweepCommit
    <3>6. \A u \in Sweeps : proc'[u].issue > 0 => proc'[u].issue \in opened'[proc'[u].test]
      BY <1>i, <2>0, <3>2, <3>5
    <3>. HIDE DEF Ok
    <3>. QED
      BY <1>q, <3>2, <3>3, <3>4, <3>6
  <2>7. CASE SweepAbort(s)
    <3>1. v \in Tests
      BY <2>7 DEF SweepAbort, LockInv
    <3>2. /\ UNCHANGED <<opened, flake>>
          /\ \A t \in Tests \ {v} : mishaps'[t] = mishaps[t]
          /\ mishaps'[v] = IF proc[s].issue > 0 THEN mishaps[v] + 1 ELSE mishaps[v]
      BY <1>t, <2>7, <3>1 DEF SweepAbort
    <3>3. Ok(v)
      <4>1. CASE proc[s].issue > 0
        <5>1. /\ Cardinality(opened[v]) \in Nat /\ mishaps[v] \in Nat
              /\ Cardinality(opened[v]) <= mishaps[v] + (IF HasIssue(v) THEN 1 ELSE 0)
              /\ flake[v].issue > 0 => flake[v].issue \in opened[v]
          BY <1>f, <1>i, <1>t, <3>1
        <5>2. mishaps'[v] = mishaps[v] + 1
          BY <3>2, <4>1
        <5>. HIDE DEF Has
        <5>. QED
          BY <3>2, <5>1, <5>2
      <4>2. CASE ~(proc[s].issue > 0)
        BY <1>t, <2>1, <3>1, <3>2, <4>2
      <4>. QED
        BY <4>1, <4>2
    <3>4. \A t \in Tests \ {v} : Ok(t)
      BY <2>1, <3>2
    <3>5. proc'[s].issue = 0
      BY <1>t, <2>7, RestFacts DEF SweepAbort, Idle
    <3>6. \A u \in Sweeps : proc'[u].issue > 0 => proc'[u].issue \in opened'[proc'[u].test]
      BY <1>i, <2>0, <3>2, <3>5
    <3>. HIDE DEF Ok
    <3>. QED
      BY <1>q, <3>2, <3>3, <3>4, <3>6
  <2>. QED
    BY <1>2, <2>3, <2>4, <2>5, <2>6, <2>7, SweepMoves
<1>. QED
  BY <1>1, <1>2

-----------------------------------------------------------------------------
(* Links.                                                                  *)

\* Read under the lock of its row, a link is consumed by whoever holds it.
LEMMA LinkStep == ASSUME TypeOK, LinkInv, [Next]_vars PROVE LinkInv'
<1>. DEFINE Ok(tok, h, res) ==
        /\ res = IF tok.consumed THEN 1 ELSE 0
        /\ tok.posted => tok.test \in Tests
        /\ h <= 1
        /\ h = 1 => tok.posted /\ ~tok.consumed
<1>t. /\ tokens \in [Tokens -> TokenRows] /\ held \in [Tokens -> 0..MaxClicks]
      /\ restored \in [Tokens -> Nat]
  BY DEF TypeOK
<1>i. \A k \in Tokens : Ok(tokens[k], held[k], restored[k])
  BY DEF LinkInv, LinkWorksOnce
<1>q. ASSUME \A k \in Tokens : Ok(tokens'[k], held'[k], restored'[k]) PROVE LinkInv'
  BY <1>q DEF LinkInv, LinkWorksOnce
<1>1. ASSUME UNCHANGED <<tokens, held, restored>> PROVE LinkInv'
  BY <1>1, <1>i, <1>q
<1>2. ASSUME NEW t \in Tests, Propose(t) PROVE LinkInv'
  <2>1. PICK j \in Tokens, r \in do : mintToken(t, j, Comment(r).posted)
    BY <1>2 DEF Propose
  <2>2. /\ UNCHANGED <<held, restored>> /\ tokens[j] = Unminted
        /\ tokens' = [tokens EXCEPT ![j] = [test |-> t, expires |-> now + TokenTTL,
                                 consumed |-> FALSE, posted |-> Comment(r).posted]]
    BY <1>2, <2>1 DEF Propose, mintToken
  <2>3. held[j] # 1 /\ restored[j] = 0
    BY <1>i, <2>2 DEF Unminted
  <2>4. Ok(tokens'[j], held'[j], restored'[j])
    BY <1>i, <1>t, <2>2, <2>3
  <2>5. \A k \in Tokens : k # j => Ok(tokens'[k], held'[k], restored'[k])
    BY <1>i, <1>t, <2>2
  <2>. QED
    BY <1>q, <2>4, <2>5
<1>3. ASSUME NEW j \in Tokens, RestoreRead(j) PROVE LinkInv'
  <2>1. /\ UNCHANGED <<tokens, restored>> /\ held' = [held EXCEPT ![j] = 1]
        /\ tokens[j].posted /\ ~tokens[j].consumed
    BY <1>3, <1>t DEF RestoreRead, Usable
  <2>2. \A k \in Tokens : Ok(tokens'[k], held'[k], restored'[k])
    BY <1>i, <1>t, <2>1
  <2>. QED
    BY <1>q, <2>2
<1>4. ASSUME NEW j \in Tokens, RestoreCommit(j) PROVE LinkInv'
  <2>1. held[j] = 1 /\ restored[j] = 0
    BY <1>4, <1>t, <1>i DEF RestoreCommit
  <2>2. /\ tokens' = [tokens EXCEPT ![j].consumed = TRUE]
        /\ held' = [held EXCEPT ![j] = 0] /\ restored' = [restored EXCEPT ![j] = 1]
    BY <1>4, <1>t, <2>1 DEF RestoreCommit
  <2>3. Ok(tokens'[j], held'[j], restored'[j])
    BY <1>i, <1>t, <2>2 DEF TokenRows
  <2>4. \A k \in Tokens : k # j => Ok(tokens'[k], held'[k], restored'[k])
    BY <1>i, <1>t, <2>2
  <2>. QED
    BY <1>q, <2>3, <2>4
<1>5. ASSUME NEW j \in Tokens, RestoreRollback(j) PROVE LinkInv'
  <2>1. held[j] = 1
    BY <1>5, <1>t, <1>i DEF RestoreRollback
  <2>2. UNCHANGED <<tokens, restored>> /\ held' = [held EXCEPT ![j] = 0]
    BY <1>5, <1>t, <2>1 DEF RestoreRollback
  <2>3. \A k \in Tokens : Ok(tokens'[k], held'[k], restored'[k])
    BY <1>i, <1>t, <2>2
  <2>. QED
    BY <1>q, <2>3
<1>. QED
  BY <1>1, <1>2, <1>3, <1>4, <1>5
     DEF Next, Flake, FollowUp, Operator, Sweep, vars, TimePasses, RecordExecution,
         FlakeScan, FlakeBreak, FlakeUpsert, SlaScan, ProposalScan, SlaNudge,
         quarantineTest, unquarantineTest, SweepScan, SweepComment, SweepOpen,
         SweepCommit, SweepUpdateTest, SweepAbort, JobDies

-----------------------------------------------------------------------------
(* Dates.                                                                  *)

\* Whoever writes 'quarantined', or the number of an issue, writes the date.
LEMMA TrackedStep ==
    ASSUME TypeOK, LockInv, LinkInv, QuarantinedIsTracked, [Next]_vars
    PROVE  QuarantinedIsTracked'
<1>. DEFINE Ok(st, rec) == st = "quarantined" /\ rec.issue > 0 => rec.quarantinedAt # Null
<1>t. /\ status \in [Tests -> Statuses] /\ flake \in [Tests -> Records]
      /\ now # Null
  BY QuarantineAssumption DEF TypeOK, Null
<1>i. \A t \in Tests : Ok(status[t], flake[t])
  BY DEF QuarantinedIsTracked
<1>q. ASSUME \A t \in Tests : Ok(status'[t], flake'[t]) PROVE QuarantinedIsTracked'
  BY <1>q DEF QuarantinedIsTracked
<1>1. ASSUME UNCHANGED <<status, flake>> PROVE QuarantinedIsTracked'
  BY <1>1, <1>i, <1>q
<1>2. ASSUME NEW u \in Tests,
             \A t \in Tests : t # u => status'[t] = status[t] /\ flake'[t] = flake[t],
             Ok(status'[u], flake'[u])
      PROVE  QuarantinedIsTracked'
  BY <1>2, <1>i, <1>q
<1>3. ASSUME NEW u \in Tests, FlakeUpsert(u) PROVE QuarantinedIsTracked'
  <2>1. \A t \in Tests : t # u => status'[t] = status[t] /\ flake'[t] = flake[t]
    BY <1>3, <1>t DEF FlakeUpsert
  <2>2. /\ status'[u] = status[u] /\ flake'[u].quarantinedAt = flake[u].quarantinedAt
        /\ flake'[u].issue > 0 => flake[u].issue > 0
    BY <1>3, <1>t DEF FlakeUpsert, Records
  <2>. QED
    BY <1>i, <1>2, <2>1, <2>2
<1>4. ASSUME NEW u \in Tests, SlaNudge(u) \/ Propose(u) PROVE QuarantinedIsTracked'
  <2>1. \A t \in Tests : t # u => status'[t] = status[t] /\ flake'[t] = flake[t]
    BY <1>4, <1>t DEF SlaNudge, Propose
  <2>2. /\ status'[u] = status[u] /\ flake'[u].quarantinedAt = flake[u].quarantinedAt
        /\ flake'[u].issue = flake[u].issue
    BY <1>4, <1>t DEF SlaNudge, Propose, Records
  <2>. QED
    BY <1>i, <1>2, <2>1, <2>2
<1>5. CASE FlakeBreak
  <2>1. UNCHANGED flake /\ \A t \in Tests : status'[t] \in {status[t], "broken"}
    BY <1>5, <1>t DEF FlakeBreak
  <2>2. \A t \in Tests : Ok(status'[t], flake'[t])
    BY <1>i, <2>1
  <2>. QED
    BY <1>q, <2>2
<1>6. ASSUME NEW s \in Sweeps, SweepCommit(s) PROVE QuarantinedIsTracked'
  <2>. DEFINE u == proc[s].test
  <2>1. u \in Tests
    BY <1>6 DEF SweepCommit, Holds, LockInv
  <2>2. \A t \in Tests : t # u => status'[t] = status[t] /\ flake'[t] = flake[t]
    BY <1>6, <1>t, <2>1 DEF SweepCommit
  <2>3. flake'[u].quarantinedAt = now
    BY <1>6, <1>t, <2>1 DEF SweepCommit, Records
  <2>. QED
    BY <1>2, <1>t, <2>1, <2>2, <2>3
<1>7. ASSUME NEW k \in Tokens, RestoreCommit(k) PROVE QuarantinedIsTracked'
  <2>. DEFINE u == tokens[k].test
  <2>1. held[k] = 1
    BY <1>7 DEF RestoreCommit, LinkInv, TypeOK
  <2>2. u \in Tests
    BY <2>1 DEF LinkInv
  <2>3. \A t \in Tests : t # u => status'[t] = status[t] /\ flake'[t] = flake[t]
    BY <1>7, <1>t DEF RestoreCommit
  <2>4. status'[u] = "active"
    BY <1>7, <1>t, <2>2 DEF RestoreCommit
  <2>. QED
    BY <1>2, <2>2, <2>3, <2>4
<1>8. ASSUME NEW u \in Tests, quarantineTest(u) PROVE QuarantinedIsTracked'
  <2>1. \A t \in Tests : t # u => status'[t] = status[t] /\ flake'[t] = flake[t]
    BY <1>8, <1>t DEF quarantineTest
  <2>2. /\ flake'[u].issue = flake[u].issue
        /\ HasRecord(u) => flake'[u].quarantinedAt = now
    BY <1>8, <1>t DEF quarantineTest, Records
  <2>3. flake[u].issue > 0 => HasRecord(u)
    BY DEF HasRecord, Null
  <2>. QED
    BY <1>2, <1>t, <2>1, <2>2, <2>3
<1>9. ASSUME NEW u \in Tests, unquarantineTest(u) PROVE QuarantinedIsTracked'
  <2>1. \A t \in Tests : t # u => status'[t] = status[t] /\ flake'[t] = flake[t]
    BY <1>9, <1>t DEF unquarantineTest
  <2>2. status'[u] # "quarantined"
    BY <1>9, <1>t DEF unquarantineTest
  <2>. QED
    BY <1>2, <2>1, <2>2
<1>. QED
  BY <1>1, <1>3, <1>4, <1>5, <1>6, <1>7, <1>8, <1>9
     DEF Next, Flake, FollowUp, Operator, Sweep, vars, TimePasses, RecordExecution,
         FlakeScan, SlaScan, ProposalScan, RestoreRead, RestoreRollback, SweepScan,
         SweepComment, SweepOpen, SweepUpdateTest, SweepAbort, JobDies

-----------------------------------------------------------------------------
(* The theorems.                                                           *)

\* All parts together are inductive.
QuarantineInv ==
    TypeOK /\ LockInv /\ IssueInv /\ LinkInv /\ QuarantinedIsTracked

\* The invariant holds at the start and is kept by every step.
THEOREM QuarantineInvariant == Spec => []QuarantineInv
<1>1. Init => QuarantineInv
  <2>. SUFFICES ASSUME Init PROVE QuarantineInv
    OBVIOUS
  <2>1. LockInv
    BY JobNames DEF Init, LockInv, Idle
  <2>2. UNION {opened[t] : t \in Tests} = {}
    BY DEF Init
  <2>3. IssueInv
    <3>1. \A t \in Tests : opened[t] = {} /\ mishaps[t] = 0 /\ flake[t].issue = -1
      BY DEF Init, NoRecord, Null
    <3>2. \A s \in Sweeps : ~(proc[s].issue > 0)
      BY JobNames DEF Init, Idle
    <3>3. Cardinality({}) = 0 /\ IsFiniteSet({})
      BY FS_EmptySet
    <3>4. OneIssuePerTest
      <4>1. ASSUME NEW t \in Tests
            PROVE  /\ Cardinality(opened[t]) <= mishaps[t] + (IF HasIssue(t) THEN 1 ELSE 0)
                   /\ ~(flake[t].issue > 0)
        <5>1. Cardinality(opened[t]) = 0 /\ mishaps[t] = 0
          BY <3>1, <3>3
        <5>. QED
          BY <3>1, <5>1
      <4>. QED
        BY <4>1 DEF OneIssuePerTest
    <3>. QED
      BY <2>2, <3>2, <3>3, <3>4, Zenon DEF IssueInv
  <2>4. LinkInv /\ QuarantinedIsTracked
    BY DEF Init, LinkInv, LinkWorksOnce, Unminted, QuarantinedIsTracked
  <2>. QED
    BY <2>1, <2>3, <2>4, TypeInit DEF QuarantineInv
<1>2. QuarantineInv /\ [Next]_vars => QuarantineInv'
  BY TypeStep, LockStep, IssueStep, LinkStep, TrackedStep DEF QuarantineInv
<1>. QED
  BY <1>1, <1>2, PTL DEF Spec

\* Every variable keeps its type.
THEOREM QuarantineTypeCorrect == Spec => []TypeOK
<1>1. QuarantineInv => TypeOK
  BY DEF QuarantineInv
<1>. QED
  BY <1>1, QuarantineInvariant, PTL

\* However many sweeps overlap, a test has the one issue its row names, and at
\* most one more for each failed read of the number, lost answer and rollback.
THEOREM OneIssue == Spec => []OneIssuePerTest
<1>1. QuarantineInv => OneIssuePerTest
  BY DEF QuarantineInv, IssueInv
<1>. QED
  BY <1>1, QuarantineInvariant, PTL

\* A restore link restores its test once at most, and is then consumed.
THEOREM LinksWorkOnce == Spec => []LinkWorksOnce
<1>1. QuarantineInv => LinkWorksOnce
  BY DEF QuarantineInv, LinkInv
<1>. QED
  BY <1>1, QuarantineInvariant, PTL

\* A quarantined test with an issue has a date, so that the SLA sweep sees it.
THEOREM QuarantinedTestsAreTracked == Spec => []QuarantinedIsTracked
<1>1. QuarantineInv => QuarantinedIsTracked
  BY DEF QuarantineInv
<1>. QED
  BY <1>1, QuarantineInvariant, PTL
=============================================================================
