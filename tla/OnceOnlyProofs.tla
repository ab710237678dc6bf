--------------------------- MODULE OnceOnlyProofs ---------------------------
(***************************************************************************)
(* What several processes may attempt at once and must happen once: the    *)
(* run of an Idempotency-Key, proved for any number of concurrent          *)
(* requests, keys, commits and failing statements; the application of a    *)
(* migration, for any number of processes, versions, statements and        *)
(* crashes; and the hint of a failure cluster, for any clusters, batch     *)
(* sizes and overlapping passes.                                           *)
(***************************************************************************)
EXTENDS RunIntake, Migrations, RootCauseHints, WellFoundedInduction, TLAPS

-----------------------------------------------------------------------------
(* The Idempotency-Key contract.                                           *)

\* A step inserts at most one row, under an id and a key that are free, and
\* changes no row.
LEMMA RowMoves ==
    ASSUME IntakeInv, [Next]_vars
    PROVE  \/ key' = key /\ commit' = commit
           \/ \E q \in Calls, r \in Runs : InsertRow(q, r) /\ ~At(q, "idle")
BY DEF Next, vars, rows, Serve, Break, Begin, LookupHit, LookupMiss, LookupFails,
       InsertRun, InsertViolates, InsertFails, InsertUnanswered, AgainFails,
       StoreManifest, LoseManifest, Reload, ReloadFails, Crash, At

\* Rows stay as they are.
LEMMA RowsStay ==
    ASSUME IntakeInv, [Next]_vars, NEW r \in Runs, commit[r] # NoCommit
    PROVE  commit'[r] = commit[r] /\ key'[r] = key[r]
BY RowMoves DEF IntakeInv, TypeOK, InsertRow

\* The index keeps keys unique.
LEMMA UniqueStep == ASSUME IntakeInv, [Next]_vars PROVE OneRunPerKey'
<1>1. CASE key' = key /\ commit' = commit
  BY <1>1 DEF IntakeInv, OneRunPerKey
<1>2. ASSUME NEW q \in Calls, NEW n \in Runs, InsertRow(q, n) PROVE OneRunPerKey'
  BY <1>2 DEF IntakeInv, TypeOK, OneRunPerKey, InsertRow, UniqueViolation, Matching
<1>. QED
  BY <1>1, <1>2, RowMoves

\* How a step changes a request: it ends, begins, moves on, or has inserted.
LEMMA CallMoves ==
    ASSUME IntakeInv, [Next]_vars, NEW q \in Calls
    PROVE  \/ call'[q] = call[q]
           \/ call'[q] = IdleCall
           \/ /\ call'[q].step \in {"insert", "lookup"}
              /\ call'[q].step = "lookup" => call'[q].key # NoKey
              /\ call'[q].commit \in Commits
           \/ /\ call[q].step = "insert" /\ call'[q].step = "again"
              /\ UniqueViolation(q) /\ call'[q].key = call[q].key
              /\ call'[q].commit = call[q].commit
           \/ /\ call'[q].step = "manifest" /\ call[q].step = "insert"
              /\ call'[q].run \in Runs /\ InsertRow(q, call'[q].run)
              /\ call'[q].key = call[q].key /\ call'[q].commit = call[q].commit
           \/ /\ call[q].step = "manifest" /\ call'[q].step = "reload"
              /\ call'[q].run = call[q].run
              /\ call'[q].key = call[q].key /\ call'[q].commit = call[q].commit
<1>. DEFINE Move ==
        \/ call'[q] = call[q]
        \/ call'[q] = IdleCall
        \/ /\ call'[q].step \in {"insert", "lookup"}
           /\ call'[q].step = "lookup" => call'[q].key # NoKey
           /\ call'[q].commit \in Commits
        \/ /\ call[q].step = "insert" /\ call'[q].step = "again"
           /\ UniqueViolation(q) /\ call'[q].key = call[q].key
           /\ call'[q].commit = call[q].commit
        \/ /\ call'[q].step = "manifest" /\ call[q].step = "insert"
           /\ call'[q].run \in Runs /\ InsertRow(q, call'[q].run)
           /\ call'[q].key = call[q].key /\ call'[q].commit = call[q].commit
        \/ /\ call[q].step = "manifest" /\ call'[q].step = "reload"
           /\ call'[q].run = call[q].run
           /\ call'[q].key = call[q].key /\ call'[q].commit = call[q].commit
<1>t. IntakeInv => call \in [Calls -> [step : Steps, key : Keys \cup {NoKey},
                                       commit : Commits \cup {NoCommit},
                                       run : Runs \cup {NoRun}]]
  BY DEF IntakeInv, TypeOK
<1>. USE DEF At, Goto, Reply
<1>1. ASSUME NEW p \in Calls, NEW k \in Keys \cup {NoKey}, NEW co \in Commits,
             Begin(p, k, co)
      PROVE  Move
  BY <1>1, <1>t DEF Begin
<1>2. ASSUME NEW p \in Calls, NEW o, NEW n, Reply(p, o, n) PROVE Move
  BY <1>2, <1>t
<1>3. ASSUME NEW p \in Calls, LookupMiss(p) \/ LookupFails(p) PROVE Move
  BY <1>3, <1>t DEF LookupMiss, LookupFails, IntakeInv, CallIsRequest
<1>4. ASSUME NEW p \in Calls, NEW n \in Runs, InsertRun(p, n) PROVE Move
  BY <1>4, <1>t DEF InsertRun
<1>5. ASSUME NEW p \in Calls, InsertViolates(p) PROVE Move
  BY <1>5, <1>t DEF InsertViolates
<1>6. ASSUME NEW p \in Calls, StoreManifest(p) \/ LoseManifest(p) PROVE Move
  BY <1>6, <1>t DEF StoreManifest, LoseManifest
<1>7. ASSUME NEW p \in Calls, Crash(p) PROVE Move
  BY <1>7, <1>t DEF Crash
<1>8. ASSUME NEW p \in Calls, NEW n \in Runs,
             LookupHit(p, "lookup", n) \/ LookupHit(p, "again", n)
      PROVE  Move
  BY <1>2, <1>8 DEF LookupHit
<1>9. ASSUME NEW p \in Calls,
             InsertFails(p) \/ AgainFails(p) \/ Reload(p) \/ ReloadFails(p)
                 \/ \E n \in Runs : InsertUnanswered(p, n)
      PROVE  Move
  BY <1>2, <1>9 DEF InsertFails, AgainFails, Reload, ReloadFails, InsertUnanswered
<1>10. CASE UNCHANGED vars
  BY <1>10 DEF vars
<1>. QED
  BY <1>1, <1>3, <1>4, <1>5, <1>6, <1>7, <1>8, <1>9, <1>10 DEF Next, Serve, Break

\* Requests keep what they ask for and the row they inserted.
LEMMA CallStep ==
    ASSUME IntakeInv, [Next]_vars PROVE CallIsRequest' /\ CallHasRow' /\ AgainHasRow'
<1>. SUFFICES ASSUME NEW q \in Calls
              PROVE  /\ call'[q].step # "idle" => call'[q].commit \in Commits
                     /\ call'[q].step \in {"lookup", "again"} => call'[q].key # NoKey
                     /\ call'[q].step \in {"manifest", "reload"} =>
                           /\ call'[q].run \in Runs
                           /\ commit'[call'[q].run] = call'[q].commit
                           /\ call'[q].commit \in Commits
                           /\ key'[call'[q].run] = call'[q].key
                     /\ call'[q].step = "again" =>
                           \E r \in Runs : /\ commit'[r] # NoCommit
                                           /\ key'[r] = call'[q].key
  BY DEF CallIsRequest, CallHasRow, AgainHasRow, Matching, At
<1>1. CASE call'[q] = call[q]
  <2>1. call[q].step = "again" => \E r \in Runs : /\ commit'[r] # NoCommit
                                                  /\ key'[r] = call[q].key
    BY RowsStay DEF IntakeInv, AgainHasRow, Matching, At
  <2>2. call[q].step \in {"manifest", "reload"} =>
           /\ commit'[call[q].run] = call[q].commit
           /\ key'[call[q].run] = call[q].key
    BY RowsStay, NothingAssumption DEF IntakeInv, CallHasRow
  <2>. QED
    BY <1>1, <2>1, <2>2 DEF IntakeInv, CallIsRequest, CallHasRow, At
<1>2. CASE call'[q] = IdleCall
  BY <1>2 DEF IdleCall
<1>3. CASE /\ call'[q].step \in {"insert", "lookup"}
           /\ call'[q].step = "lookup" => call'[q].key # NoKey
           /\ call'[q].commit \in Commits
  BY <1>3
<1>4. CASE /\ call[q].step = "insert" /\ call'[q].step = "again"
           /\ UniqueViolation(q) /\ call'[q].key = call[q].key
           /\ call'[q].commit = call[q].commit
  BY <1>4, RowsStay DEF IntakeInv, CallIsRequest, UniqueViolation, Matching, At
<1>5. CASE /\ call'[q].step = "manifest" /\ call[q].step = "insert"
           /\ call'[q].run \in Runs /\ InsertRow(q, call'[q].run)
           /\ call'[q].key = call[q].key /\ call'[q].commit = call[q].commit
  BY <1>5 DEF IntakeInv, TypeOK, CallIsRequest, InsertRow, At
<1>6. CASE /\ call[q].step = "manifest" /\ call'[q].step = "reload"
           /\ call'[q].run = call[q].run
           /\ call'[q].key = call[q].key /\ call'[q].commit = call[q].commit
  BY <1>6, RowsStay, NothingAssumption DEF IntakeInv, CallHasRow
<1>. QED
  BY <1>1, <1>2, <1>3, <1>4, <1>5, <1>6, CallMoves

\* What clients are told, and when.
Answer(q, outcome, r) ==
    [key |-> call[q].key, commit |-> call[q].commit, outcome |-> outcome, run |-> r]

\* An answer is about the row of the key, about the row just inserted, or an
\* error after a fault.
LEMMA ReplyMoves ==
    ASSUME IntakeInv, [Next]_vars
    PROVE  \/ replies' = replies
           \/ \E q \in Calls, r \in Runs :
                 /\ replies' = replies \cup {Answer(q, "existing", r)}
                 /\ r \in Matching(q) /\ commit[r] = call[q].commit
                 /\ call[q].commit \in Commits
           \/ \E q \in Calls :
                 /\ replies' = replies \cup {Answer(q, "conflict", NoRun)}
                 /\ \E r \in Matching(q) : commit[r] # call[q].commit
           \/ \E q \in Calls :
                 /\ replies' = replies \cup {Answer(q, "created", call[q].run)}
                 /\ At(q, "reload")
           \/ \E q \in Calls :
                 replies' = replies \cup {Answer(q, "error", NoRun)} /\ faults' > 0
<1>1. ASSUME NEW q \in Calls, NEW r \in Runs,
             LookupHit(q, "lookup", r) \/ LookupHit(q, "again", r)
      PROVE  \/ /\ replies' = replies \cup {Answer(q, "existing", r)}
                /\ r \in Matching(q) /\ commit[r] = call[q].commit
                /\ call[q].commit \in Commits
             \/ /\ replies' = replies \cup {Answer(q, "conflict", NoRun)}
                /\ \E s \in Matching(q) : commit[s] # call[q].commit
  BY <1>1 DEF LookupHit, Reply, Answer, IntakeInv, CallIsRequest, At
<1>2. ASSUME NEW q \in Calls, Reload(q)
      PROVE  /\ replies' = replies \cup {Answer(q, "created", call[q].run)}
             /\ At(q, "reload")
  BY <1>2 DEF Reload, Reply, Answer
<1>3. ASSUME NEW q \in Calls,
             \/ InsertFails(q) \/ AgainFails(q) \/ ReloadFails(q)
             \/ \E r \in Runs : InsertUnanswered(q, r)
      PROVE  replies' = replies \cup {Answer(q, "error", NoRun)} /\ faults' > 0
  <2>1. Fault => faults' > 0
    BY DEF Fault, IntakeInv, TypeOK
  <2>2. AgainFails(q) => Fault
    BY DEF AgainFails, IntakeInv, AgainHasRow
  <2>. QED
    BY <1>3, <2>1, <2>2
       DEF InsertFails, AgainFails, ReloadFails, InsertUnanswered, Reply, Answer
<1>4. ASSUME NEW q \in Calls,
             \/ \E k \in Keys \cup {NoKey}, co \in Commits : Begin(q, k, co)
             \/ LookupMiss(q) \/ LookupFails(q) \/ InsertViolates(q)
             \/ \E r \in Runs : InsertRun(q, r)
             \/ StoreManifest(q) \/ LoseManifest(q) \/ Crash(q)
      PROVE  replies' = replies
  BY <1>4 DEF Begin, LookupMiss, LookupFails, InsertViolates, InsertRun,
              StoreManifest, LoseManifest, Crash
<1>5. CASE UNCHANGED vars
  BY <1>5 DEF vars
<1>. QED
  BY <1>1, <1>2, <1>3, <1>4, <1>5 DEF Next, Serve, Break

\* Faults are counted up.
LEMMA FaultsGrow ==
    ASSUME IntakeInv, [Next]_vars PROVE faults' \in Nat /\ faults' >= faults
<1>1. UNCHANGED faults \/ Fault
  BY DEF Next, vars, Serve, Break, Begin, LookupHit, LookupMiss, LookupFails,
         InsertRun, InsertViolates, InsertFails, InsertUnanswered, AgainFails,
         StoreManifest, LoseManifest, Reload, ReloadFails, Crash
<1>. QED
  BY <1>1 DEF IntakeInv, TypeOK, Fault

\* Answers stay true of the rows.
LEMMA RepliesStep ==
    ASSUME IntakeInv, [Next]_vars
    PROVE  RepliesNameRows' /\ ConflictsAreReal' /\ NoSpuriousError'
<1>1. ASSUME NEW a \in replies, Names(a)
      PROVE  /\ a.run \in Runs /\ a.commit \in Commits
             /\ commit'[a.run] = a.commit /\ key'[a.run] = a.key
  BY <1>1, RowsStay, NothingAssumption DEF IntakeInv, RepliesNameRows
<1>2. ASSUME NEW a \in replies, a.outcome = "conflict"
      PROVE  \E r \in Runs : commit'[r] \notin {NoCommit, a.commit} /\ key'[r] = a.key
  <2>1. PICK r \in Runs : commit[r] \notin {NoCommit, a.commit} /\ key[r] = a.key
    BY <1>2 DEF IntakeInv, ConflictsAreReal
  <2>. QED
    BY <2>1, RowsStay
<1>3. (\E a \in replies : a.outcome = "error") => faults' > 0
  BY FaultsGrow DEF IntakeInv, TypeOK, NoSpuriousError
<1>4. ASSUME NEW a \in replies' \ replies
      PROVE  /\ Names(a) => /\ a.run \in Runs /\ a.commit \in Commits
                            /\ commit'[a.run] = a.commit /\ key'[a.run] = a.key
             /\ a.outcome = "conflict" =>
                   \E r \in Runs : /\ commit'[r] \notin {NoCommit, a.commit}
                                   /\ key'[r] = a.key
             /\ a.outcome = "error" => faults' > 0
  <2>1. ASSUME NEW q \in Calls, NEW r \in Runs, a = Answer(q, "existing", r),
               r \in Matching(q), commit[r] = call[q].commit,
               call[q].commit \in Commits
        PROVE  /\ a.run \in Runs /\ a.commit \in Commits /\ a.outcome = "existing"
               /\ commit'[a.run] = a.commit /\ key'[a.run] = a.key
    BY <2>1, RowsStay DEF Answer, Matching
  <2>2. ASSUME NEW q \in Calls, a = Answer(q, "conflict", NoRun),
               \E r \in Matching(q) : commit[r] # call[q].commit
        PROVE  /\ a.outcome = "conflict"
               /\ \E r \in Runs : /\ commit'[r] \notin {NoCommit, a.commit}
                                  /\ key'[r] = a.key
    <3>1. PICK r \in Runs : /\ commit[r] # NoCommit /\ key[r] = call[q].key
                            /\ commit[r] # call[q].commit
      BY <2>2 DEF Matching
    <3>2. commit'[r] = commit[r] /\ key'[r] = key[r]
      BY <3>1, RowsStay
    <3>. QED
      BY <2>2, <3>1, <3>2 DEF Answer
  <2>3. ASSUME NEW q \in Calls, a = Answer(q, "created", call[q].run), At(q, "reload")
        PROVE  /\ a.run \in Runs /\ a.commit \in Commits /\ a.outcome = "created"
               /\ commit'[a.run] = a.commit /\ key'[a.run] = a.key
    BY <2>3, RowsStay, NothingAssumption DEF Answer, At, IntakeInv, CallHasRow
  <2>4. ASSUME NEW q \in Calls, a = Answer(q, "error", NoRun)
        PROVE  a.outcome = "error"
    BY <2>4 DEF Answer
  <2>. QED
    BY <1>4, <2>1, <2>2, <2>3, <2>4, ReplyMoves DEF Names
<1>5. RepliesNameRows'
  BY <1>1, <1>4 DEF RepliesNameRows, Names
<1>6. ConflictsAreReal'
  BY <1>2, <1>4 DEF ConflictsAreReal
<1>7. NoSpuriousError'
  BY <1>3, <1>4 DEF NoSpuriousError
<1>. QED
  BY <1>5, <1>6, <1>7

\* Types.
LEMMA TypeStep == ASSUME IntakeInv, [Next]_vars PROVE TypeOK'
<1>. DEFINE CallType == [step : Steps, key : Keys \cup {NoKey},
                         commit : Commits \cup {NoCommit}, run : Runs \cup {NoRun}]
<1>1. key' \in [Runs -> Keys \cup {NoKey}] /\ commit' \in [Runs -> Commits \cup {NoCommit}]
  <2>1. ASSUME NEW q \in Calls, NEW r \in Runs, InsertRow(q, r)
        PROVE  /\ key' \in [Runs -> Keys \cup {NoKey}]
               /\ commit' \in [Runs -> Commits \cup {NoCommit}]
    BY <2>1 DEF IntakeInv, TypeOK, InsertRow
  <2>. QED
    BY <2>1, RowMoves DEF IntakeInv, TypeOK
<1>2. replies' \in SUBSET [key : Keys \cup {NoKey}, commit : Commits \cup {NoCommit},
                           outcome : Outcomes, run : Runs \cup {NoRun}]
  <2>1. ASSUME NEW q \in Calls, NEW o \in Outcomes, NEW r \in Runs \cup {NoRun}
        PROVE  Answer(q, o, r) \in
                  [key : Keys \cup {NoKey}, commit : Commits \cup {NoCommit},
                   outcome : Outcomes, run : Runs \cup {NoRun}]
    BY DEF Answer, IntakeInv, TypeOK
  <2>2. \A q \in Calls : call[q].run \in Runs \cup {NoRun}
    BY DEF IntakeInv, TypeOK
  <2>. QED
    BY <2>1, <2>2, ReplyMoves DEF Outcomes, IntakeInv, TypeOK
<1>3. manifest' \in SUBSET {r \in Runs : commit'[r] # NoCommit}
  <2>1. ASSUME NEW q \in Calls, StoreManifest(q)
        PROVE  call[q].run \in Runs /\ commit[call[q].run] # NoCommit
    BY <2>1, NothingAssumption DEF StoreManifest, At, IntakeInv, CallHasRow
  <2>2. \/ manifest' = manifest
        \/ \E q \in Calls : /\ StoreManifest(q)
                            /\ manifest' = manifest \cup {call[q].run}
    BY DEF Next, vars, rows, Serve, Break, Begin, LookupHit, LookupMiss,
           LookupFails, InsertRun, InsertViolates, InsertFails, InsertUnanswered,
           AgainFails, StoreManifest, LoseManifest, Reload, ReloadFails, Crash
  <2>3. \A r \in manifest' : r \in Runs /\ commit[r] # NoCommit
    BY <2>1, <2>2 DEF IntakeInv, TypeOK
  <2>. QED
    BY <2>3, RowsStay
<1>4. call' \in [Calls -> CallType]
  <2>1. ASSUME NEW q \in Calls, NEW o, NEW r, Reply(q, o, r)
        PROVE  call' \in [Calls -> CallType]
    BY <2>1 DEF IntakeInv, TypeOK, Reply, IdleCall, Steps
  <2>2. ASSUME NEW q \in Calls, NEW s \in Steps, Goto(q, s)
        PROVE  call' \in [Calls -> CallType]
    BY <2>2 DEF IntakeInv, TypeOK, Goto
  <2>3. ASSUME NEW q \in Calls, NEW k \in Keys \cup {NoKey}, NEW co \in Commits,
               Begin(q, k, co)
        PROVE  call' \in [Calls -> CallType]
    BY <2>3 DEF IntakeInv, TypeOK, Begin, Steps
  <2>4. ASSUME NEW q \in Calls, NEW r \in Runs, InsertRun(q, r)
        PROVE  call' \in [Calls -> CallType]
    <3>1. \A p \in Calls : call'[p] =
             IF p = q THEN [call[p] EXCEPT !.step = "manifest", !.run = r]
                      ELSE call[p]
      BY <2>4 DEF IntakeInv, TypeOK, InsertRun
    <3>2. [call[q] EXCEPT !.step = "manifest", !.run = r] \in CallType
      BY DEF IntakeInv, TypeOK, Steps
    <3>. QED
      BY <2>4, <3>1, <3>2 DEF IntakeInv, TypeOK, InsertRun
  <2>5. ASSUME NEW q \in Calls, Crash(q) PROVE call' \in [Calls -> CallType]
    BY <2>5 DEF IntakeInv, TypeOK, Crash, IdleCall, Steps
  <2>6. CASE UNCHANGED vars
    BY <2>6 DEF IntakeInv, TypeOK, vars
  <2>7. ASSUME NEW q \in Calls,
               \/ \E r \in Runs : \/ LookupHit(q, "lookup", r)
                                  \/ LookupHit(q, "again", r)
                                  \/ InsertUnanswered(q, r)
               \/ InsertFails(q) \/ AgainFails(q) \/ Reload(q) \/ ReloadFails(q)
        PROVE  call' \in [Calls -> CallType]
    <3>1. \E o, r : Reply(q, o, r)
      BY <2>7 DEF LookupHit, InsertUnanswered, InsertFails, AgainFails, Reload,
                  ReloadFails
    <3>. QED
      BY <2>1, <3>1
  <2>8. ASSUME NEW q \in Calls,
               \/ LookupMiss(q) \/ LookupFails(q) \/ InsertViolates(q)
               \/ StoreManifest(q) \/ LoseManifest(q)
        PROVE  call' \in [Calls -> CallType]
    <3>1. \E s \in Steps : Goto(q, s)
      BY <2>8 DEF LookupMiss, LookupFails, InsertViolates, StoreManifest,
                  LoseManifest, Steps
    <3>. QED
      BY <2>2, <3>1
  <2>. QED
    BY <2>3, <2>4, <2>5, <2>6, <2>7, <2>8 DEF Next, Serve, Break
<1>. QED
  BY <1>1, <1>2, <1>3, <1>4, FaultsGrow DEF TypeOK

-----------------------------------------------------------------------------
(* The theorems.                                                           *)

\* Rows, requests and answers agree at all times.
THEOREM IntakeInvariant == Spec => []IntakeInv
<1>1. Init => IntakeInv
  BY DEF Init, IntakeInv, TypeOK, IdleCall, Steps, OneRunPerKey, CallIsRequest,
         CallHasRow, AgainHasRow, RepliesNameRows, ConflictsAreReal,
         NoSpuriousError, At
<1>2. IntakeInv /\ [Next]_vars => IntakeInv'
  BY UniqueStep, CallStep, RepliesStep, TypeStep DEF IntakeInv
<1>. QED
  BY <1>1, <1>2, PTL DEF Spec

\* Every answer to a key names one run, of the commit that was asked for.
THEOREM IdempotentCreate == Spec => []SameKeySameRun
<1>1. IntakeInv => SameKeySameRun
  BY NothingAssumption DEF IntakeInv, SameKeySameRun, RepliesNameRows, OneRunPerKey
<1>. QED
  BY <1>1, IntakeInvariant, PTL

\* The answer to a repeated request never flips between a run and a conflict.
THEOREM StableAnswers == Spec => []AnswersAreStable
<1>1. IntakeInv => AnswersAreStable
  <2>. SUFFICES ASSUME IntakeInv, NEW a \in replies, NEW b \in replies,
                       a.key # NoKey, a.key = b.key, a.commit = b.commit,
                       a.outcome = "conflict", Names(b)
                PROVE  FALSE
    BY DEF AnswersAreStable
  <2>1. PICK r \in Runs : commit[r] \notin {NoCommit, a.commit} /\ key[r] = a.key
    BY DEF IntakeInv, ConflictsAreReal
  <2>2. /\ b.run \in Runs /\ commit[b.run] = b.commit /\ key[b.run] = b.key
        /\ commit[b.run] # NoCommit
    BY NothingAssumption DEF IntakeInv, RepliesNameRows
  <2>. QED
    BY <2>1, <2>2 DEF IntakeInv, OneRunPerKey
<1>. QED
  BY <1>1, IntakeInvariant, PTL

\* Without a failing statement nobody is told that the insert failed.
THEOREM RaceIsNoError == Spec => []NoSpuriousError
<1>1. IntakeInv => NoSpuriousError
  BY DEF IntakeInv
<1>. QED
  BY <1>1, IntakeInvariant, PTL

-----------------------------------------------------------------------------
(* The migrations.                                                         *)

\* A set of numbers that is not empty has a least one.
LEMMA LeastNumber ==
    ASSUME NEW S \in SUBSET Nat, S # {}
    PROVE  \E m \in S : \A n \in S : m <= n
<1>1. PICK m \in S : \A n \in S : ~ (<<n, m>> \in OpToRel(<, Nat))
  BY NatLessThanWellFounded, WFMin, Zenon
<1>2. \A n \in S : ~ (n < m)
  BY <1>1 DEF OpToRel
<1>. QED
  BY <1>2

\* currentVersion reads the greatest recorded version, 0 if there is none.
LEMMA CurrentVersion ==
    ASSUME recorded \subseteq Versions
    PROVE  /\ currentVersion \in recorded \cup {0}
           /\ \A w \in recorded : w <= currentVersion
<1>. DEFINE below == {n \in Nat : \E v \in recorded \cup {0} : n = MaxVersion - v}
<1>1. MaxVersion \in below
  BY MigrationsAssumption
<1>2. PICK n \in below : \A m \in below : n <= m
  <2>1. below \in SUBSET Nat
    OBVIOUS
  <2>. QED
    BY <1>1, <2>1, LeastNumber
<1>3. PICK v \in recorded \cup {0} : n = MaxVersion - v
  BY <1>2
<1>4. ASSUME NEW w \in recorded PROVE w <= v
  <2>1. MaxVersion - w \in below
    BY MigrationsAssumption DEF Versions
  <2>. QED
    BY <1>2, <1>3, <2>1, MigrationsAssumption DEF Versions
<1>. QED
  BY <1>3, <1>4 DEF currentVersion

\* A process at a file is at the first of its image after its current version.
LEMMA AtFile ==
    ASSUME MigrateTypeOK, NEW p \in Procs, Applying(p)
    PROVE  /\ Version(p) \in Versions /\ Version(p) \in proc[p].files
           /\ proc[p].current < Version(p)
           /\ \A w \in proc[p].files : w > proc[p].current => Version(p) <= w
<1>1. proc[p].files \subseteq Versions /\ Versions \subseteq Nat
  BY MigrationsAssumption DEF MigrateTypeOK, ProcStates, Versions
<1>2. Ahead(p) \in SUBSET Nat /\ Ahead(p) # {}
  BY <1>1 DEF Ahead, Applying
<1>3. \E v \in Ahead(p) : \A w \in Ahead(p) : v <= w
  BY <1>2, LeastNumber
<1>4. Version(p) \in Ahead(p) /\ \A w \in Ahead(p) : Version(p) <= w
  BY <1>3 DEF Version
<1>. QED
  BY <1>1, <1>4 DEF Ahead

\* Up to the file a process is at, what is not recorded is in the gaps.
LEMMA BeforeFile ==
    ASSUME MigrateTypeOK, ProcInv, NEW p \in Procs, Applying(p)
    PROVE  \A v \in 1..Version(p) : v = Version(p) \/ v \in recorded \cup gaps
<1>. SUFFICES ASSUME NEW v \in 1..Version(p), v # Version(p) PROVE v \in recorded \cup gaps
  OBVIOUS
<1>1. /\ Version(p) \in 1..MaxVersion /\ Version(p) \in proc[p].files
      /\ \A w \in proc[p].files : w > proc[p].current => Version(p) <= w
  BY AtFile DEF Versions
<1>2. proc[p].current \in Nat /\ v \in Versions /\ v < Version(p)
  BY <1>1, MigrationsAssumption DEF MigrateTypeOK, ProcStates, Versions
<1>3. CASE v <= proc[p].current
  BY <1>2, <1>3 DEF ProcInv, Applying
<1>4. CASE v > proc[p].current
  <2>1. v \notin proc[p].files
    BY <1>1, <1>2, <1>4
  <2>2. v \in Holes(proc[p].files)
    BY <1>1, <1>2, <2>1 DEF Holes
  <2>. QED
    BY <2>2 DEF ProcInv
<1>. QED
  BY <1>2, <1>3, <1>4

\* What a commit does to the rows and the statements.
LEMMA CommitMoves ==
    ASSUME MigrateTypeOK, NEW v \in Versions, Commit(v)
    PROVE  /\ recorded' = recorded \cup {v}
           /\ executed' \in [Versions -> [1..Statements -> Nat]]
           /\ \A w \in Versions, i \in 1..Statements :
                executed'[w][i] = IF w = v /\ part = "postgres"
                                  THEN executed[w][i] + 1 ELSE executed[w][i]
BY MigrationsAssumption DEF MigrateTypeOK, Commit

\* What a statement does.
LEMMA ExecuteMoves ==
    ASSUME MigrateTypeOK, NEW p \in Procs, Execute(p)
    PROVE  /\ recorded' = recorded /\ part' = part
           /\ executed' \in [Versions -> [1..Statements -> Nat]]
           /\ proc[p].stmt + 1 \in 1..Statements
           /\ \A w \in Versions, i \in 1..Statements :
                executed'[w][i] =
                  IF w = Version(p) /\ i = proc[p].stmt + 1 /\ part = "clickhouse"
                  THEN executed[w][i] + 1 ELSE executed[w][i]
<1>1. Version(p) \in Versions /\ proc[p].stmt + 1 \in 1..Statements
  BY AtFile, MigrationsAssumption, SMTT(30) DEF MigrateTypeOK, ProcStates, Execute
<1>2. CASE part = "clickhouse"
  BY <1>1, <1>2, MigrationsAssumption, SMTT(30) DEF MigrateTypeOK, Execute
<1>3. CASE part # "clickhouse"
  BY <1>1, <1>3 DEF MigrateTypeOK, Execute
<1>. QED
  BY <1>2, <1>3

\* Every step keeps the types: no process counts beyond its files and their
\* statements.
LEMMA MigrationsTypeStep ==
    ASSUME MigrateTypeOK, [MigrateNext]_migrateVars
    PROVE  MigrateTypeOK'
<1>. USE DEF MigrateTypeOK
<1>i. Idle \in ProcStates
  BY MigrationsAssumption DEF Idle, ProcStates
<1>1. ASSUME NEW p \in Procs, NEW files \in SUBSET Versions, Start(p, files)
      PROVE  MigrateTypeOK'
  <2>1. [Idle EXCEPT !.pc = "read", !.files = files] \in ProcStates
    BY <1>i DEF ProcStates
  <2>. QED
    BY <1>1, <2>1, MigrationsAssumption DEF Start, Holes
<1>2. ASSUME NEW p \in Procs, ReadVersion(p) PROVE MigrateTypeOK'
  <2>1. currentVersion \in 0..MaxVersion
    <3>1. currentVersion \in recorded \cup {0}
      BY CurrentVersion
    <3>. QED
      BY <3>1, MigrationsAssumption DEF Versions
  <2>. QED
    BY <1>2, <2>1 DEF ReadVersion, ProcStates
<1>3. ASSUME NEW p \in Procs, Execute(p) PROVE MigrateTypeOK'
  <2>1. executed' \in [Versions -> [1..Statements -> Nat]]
    BY <1>3, ExecuteMoves
  <2>2. proc' \in [Procs -> ProcStates]
    <3>1. proc[p].stmt + 1 \in 0..Statements
      BY <1>3, ExecuteMoves, MigrationsAssumption
    <3>2. [proc[p] EXCEPT !.stmt = proc[p].stmt + 1] \in ProcStates
      BY <3>1 DEF ProcStates
    <3>. QED
      BY <1>3, <3>2 DEF Execute
  <2>. QED
    BY <1>3, <2>1, <2>2 DEF Execute
<1>4. ASSUME NEW p \in Procs, Record(p) PROVE MigrateTypeOK'
  <2>1. Version(p) \in Versions /\ Version(p) \in 0..MaxVersion
    BY <1>4, AtFile, MigrationsAssumption DEF Record, Versions
  <2>2. executed' \in [Versions -> [1..Statements -> Nat]] /\ recorded' \subseteq Versions
    BY <1>4, <2>1, CommitMoves DEF Record
  <2>3. proc' \in [Procs -> ProcStates]
    <3>1. [proc[p] EXCEPT !.current = Version(p), !.stmt = 0] \in ProcStates
      <4>1. [proc[p] EXCEPT !.current = Version(p)] \in ProcStates
        BY <2>1 DEF ProcStates
      <4>2. [proc[p] EXCEPT !.current = Version(p), !.stmt = 0]
              = [[proc[p] EXCEPT !.current = Version(p)] EXCEPT !.stmt = 0]
        BY DEF ProcStates
      <4>3. 0 \in 0..Statements
        BY MigrationsAssumption
      <4>. QED
        BY <4>1, <4>2, <4>3 DEF ProcStates
    <3>. QED
      BY <1>4, <1>i, <3>1 DEF Record
  <2>4. failures' \in 0..FailureLimit
    BY <1>4, MigrationsAssumption DEF Record, Failure
  <2>. QED
    BY <1>4, <2>2, <2>3, <2>4 DEF Record
<1>5. ASSUME NEW p \in Procs, Finish(p) PROVE MigrateTypeOK'
  BY <1>5 DEF Finish, ProcStates
<1>6. ASSUME NEW p \in Procs, Fail(p) PROVE MigrateTypeOK'
  BY <1>6, <1>i, MigrationsAssumption DEF Fail, Failure
<1>7. CASE UNCHANGED migrateVars
  BY <1>7 DEF migrateVars
<1>. QED
  BY <1>1, <1>2, <1>3, <1>4, <1>5, <1>6, <1>7 DEF MigrateNext

\* No step takes a row or the effect of a statement away.
LEMMA OnlyMore ==
    ASSUME MigrateTypeOK, [MigrateNext]_migrateVars
    PROVE  /\ recorded \subseteq recorded' /\ part' = part
           /\ gaps \subseteq gaps'
           /\ \A v \in Versions, i \in 1..Statements : executed[v][i] <= executed'[v][i]
<1>g. gaps \subseteq gaps'
  BY DEF MigrateNext, migrateVars, Start, ReadVersion, Execute, Record, Finish, Fail
<1>. DEFINE More == /\ recorded \subseteq recorded' /\ part' = part
                    /\ \A v \in Versions, i \in 1..Statements : executed[v][i] <= executed'[v][i]
<1>t. \A v \in Versions, i \in 1..Statements : executed[v][i] \in Nat
  BY DEF MigrateTypeOK
<1>1. ASSUME NEW p \in Procs, Execute(p) PROVE More
  BY <1>1, <1>t, ExecuteMoves
<1>2. ASSUME NEW p \in Procs, Record(p) PROVE More
  <2>1. Version(p) \in Versions
    BY <1>2, AtFile DEF Record
  <2>2. part' = part
    BY <1>2 DEF Record
  <2>3. CASE recorded' = recorded /\ executed' = executed
    BY <2>2, <2>3, <1>t
  <2>4. CASE Commit(Version(p))
    BY <2>1, <2>2, <2>4, <1>t, CommitMoves
  <2>. QED
    BY <1>2, <2>3, <2>4 DEF Record
<1>3. CASE UNCHANGED <<part, recorded, executed>>
  BY <1>3, <1>g, <1>t
<1>. QED
  BY <1>g, <1>1, <1>2, <1>3 DEF MigrateNext, migrateVars, Start, ReadVersion, Finish, Fail

\* A process records the version after the ones it has read or recorded.
LEMMA NoGapStep ==
    ASSUME MigrationsInv, [MigrateNext]_migrateVars
    PROVE  NoGap'
<1>g. gaps \subseteq gaps'
  BY OnlyMore DEF MigrationsInv
<1>1. CASE recorded' = recorded
  BY <1>1, <1>g DEF MigrationsInv, NoGap
<1>2. ASSUME NEW p \in Procs, Applying(p), recorded' = recorded \cup {Version(p)}
      PROVE  NoGap'
  <2>1. 1..Version(p) \subseteq recorded' \cup gaps'
    BY <1>2, <1>g, BeforeFile DEF MigrationsInv
  <2>. QED
    BY <1>2, <1>g, <2>1 DEF MigrationsInv, NoGap
<1>. QED
  BY <1>1, <1>2 DEF MigrateNext, migrateVars, Start, ReadVersion, Execute, Record,
                    Commit, Finish, Fail

\* A process that is not running has no image to skip a version.
LEMMA NoHoles == Holes({}) = {}
BY DEF Holes

\* How a step changes a process: not, to idle, or forward.
LEMMA ProcStep ==
    ASSUME MigrationsInv, [MigrateNext]_migrateVars
    PROVE  ProcInv'
<1>. SUFFICES ASSUME NEW q \in Procs
              PROVE  /\ proc'[q].pc = "read" => proc'[q].stmt = 0
                     /\ Holes(proc'[q].files) \subseteq gaps'
                     /\ proc'[q].pc = "apply" => 1..proc'[q].current \subseteq recorded' \cup gaps'
                     /\ Applying(q)' /\ part' = "clickhouse" =>
                          \A i \in 1..proc'[q].stmt : executed'[Version(q)'][i] > 0
                     /\ ~Applying(q)' => proc'[q].stmt = 0
  BY DEF ProcInv, Holes, Versions
<1>. DEFINE Kept == /\ proc'[q].pc = "read" => proc'[q].stmt = 0
                    /\ Holes(proc'[q].files) \subseteq gaps'
                    /\ proc'[q].pc = "apply" => 1..proc'[q].current \subseteq recorded' \cup gaps'
                    /\ Applying(q)' /\ part' = "clickhouse" =>
                         \A i \in 1..proc'[q].stmt : executed'[Version(q)'][i] > 0
                    /\ ~Applying(q)' => proc'[q].stmt = 0
<1>t. /\ MigrateTypeOK /\ proc \in [Procs -> ProcStates] /\ proc[q] \in ProcStates
      /\ \A v \in Versions, i \in 1..Statements : executed[v][i] \in Nat
  BY DEF MigrationsInv, MigrateTypeOK
<1>m. /\ recorded \subseteq recorded' /\ gaps \subseteq gaps' /\ part' = part
      /\ \A v \in Versions, i \in 1..Statements : executed[v][i] <= executed'[v][i]
  BY <1>t, OnlyMore
<1>y. \A v \in Versions, i \in 1..Statements : executed'[v][i] \in Nat
  BY <1>t, MigrationsTypeStep DEF MigrateTypeOK
<1>p. /\ proc[q].pc = "read" => proc[q].stmt = 0
      /\ Holes(proc[q].files) \subseteq gaps
      /\ proc[q].pc = "apply" => 1..proc[q].current \subseteq recorded \cup gaps
      /\ Applying(q) /\ part = "clickhouse" =>
           \A i \in 1..proc[q].stmt : executed[Version(q)][i] > 0
      /\ ~Applying(q) => proc[q].stmt = 0
  BY DEF MigrationsInv, ProcInv
<1>s. proc[q].stmt \in 0..Statements
  BY <1>t DEF ProcStates
<1>1. CASE proc'[q] = proc[q]
  <2>1. (Applying(q)' <=> Applying(q)) /\ Version(q)' = Version(q)
    BY <1>1 DEF Applying, Version, Ahead
  <2>2. ASSUME Applying(q), part = "clickhouse", NEW i \in 1..proc[q].stmt
        PROVE  executed'[Version(q)][i] > 0
    <3>1. Version(q) \in Versions /\ i \in 1..Statements
      BY <2>2, <1>t, <1>s, AtFile, MigrationsAssumption
    <3>. QED
      BY <2>2, <3>1, <1>t, <1>m, <1>p, <1>y
  <2>. QED
    BY <1>1, <1>m, <1>p, <2>1, <2>2
<1>2. CASE /\ proc'[q].stmt = 0 /\ Holes(proc'[q].files) \subseteq gaps'
           /\ proc'[q].pc = "apply" => 1..proc'[q].current \subseteq recorded' \cup gaps'
  BY <1>2
<1>3. CASE Execute(q)
  <2>1. /\ proc'[q] = [proc[q] EXCEPT !.stmt = proc[q].stmt + 1]
        /\ Applying(q)
    BY <1>3, <1>t DEF Execute
  <2>2. proc'[q].stmt = proc[q].stmt + 1 /\ proc'[q].pc = proc[q].pc
        /\ proc'[q].current = proc[q].current /\ proc'[q].files = proc[q].files
    BY <2>1, <1>t DEF ProcStates
  <2>3. Applying(q)' /\ Version(q)' = Version(q) /\ proc[q].pc = "apply"
    BY <2>1, <2>2 DEF Applying, Version, Ahead
  <2>4. ASSUME part = "clickhouse", NEW i \in 1..(proc[q].stmt + 1)
        PROVE  executed'[Version(q)][i] > 0
    <3>1. /\ Version(q) \in Versions /\ i \in 1..Statements
          /\ executed'[Version(q)][i] =
               IF i = proc[q].stmt + 1 THEN executed[Version(q)][i] + 1
               ELSE executed[Version(q)][i]
      BY <1>3, <2>1, <2>4, <1>t, <1>s, AtFile, ExecuteMoves, MigrationsAssumption, SMTT(30)
    <3>. QED
      BY <2>1, <2>4, <3>1, <1>t, <1>p, <1>s
  <2>. QED
    BY <1>m, <1>p, <2>2, <2>3, <2>4
<1>4. ASSUME NEW p \in Procs, NEW files \in SUBSET Versions, Start(p, files) PROVE Kept
  <2>1. CASE p = q
    <3>1. /\ proc'[q].stmt = 0 /\ proc'[q].pc = "read" /\ proc'[q].files = files
          /\ Holes(files) \subseteq gaps'
      BY <1>4, <2>1, <1>t DEF Start, Idle
    <3>. QED
      BY <3>1, <1>2
  <2>. QED
    BY <1>4, <2>1, <1>1, <1>t DEF Start
<1>5. ASSUME NEW p \in Procs, ReadVersion(p) PROVE Kept
  <2>1. CASE p = q
    <3>1. /\ proc'[q].stmt = 0 /\ proc'[q].current = currentVersion
          /\ proc'[q].files = proc[q].files
      BY <1>5, <2>1, <1>t, <1>p DEF ReadVersion, ProcStates
    <3>2. 1..currentVersion \subseteq recorded \cup gaps
      BY <1>t, CurrentVersion DEF MigrationsInv, NoGap, MigrateTypeOK
    <3>. QED
      BY <1>2, <1>m, <1>p, <3>1, <3>2
  <2>. QED
    BY <1>5, <2>1, <1>1, <1>t DEF ReadVersion
<1>6. ASSUME NEW p \in Procs, Record(p) PROVE Kept
  <2>1. CASE p = q
    <3>1. CASE proc' = [proc EXCEPT ![p] = Idle]
      BY <2>1, <3>1, <1>2, <1>t, NoHoles DEF Idle
    <3>2. CASE /\ proc' = [proc EXCEPT ![p].current = Version(p), ![p].stmt = 0]
               /\ Commit(Version(p))
      <4>1. /\ proc'[q].stmt = 0 /\ proc'[q].current = Version(q)
            /\ proc'[q].files = proc[q].files
        BY <2>1, <3>2, <1>t DEF ProcStates
      <4>2. \A v \in 1..Version(q) : v = Version(q) \/ v \in recorded \cup gaps
        BY <1>6, <2>1, BeforeFile DEF MigrationsInv, Record
      <4>3. recorded' = recorded \cup {Version(q)}
        BY <3>2, <2>1 DEF Commit
      <4>4. 1..Version(q) \subseteq recorded' \cup gaps'
        BY <4>2, <4>3, <1>m
      <4>. QED
        BY <4>1, <4>4, <1>2, <1>m, <1>p
    <3>. QED
      BY <1>6, <3>1, <3>2 DEF Record
  <2>2. CASE p # q
    BY <1>6, <2>2, <1>1, <1>t DEF Record
  <2>. QED
    BY <2>1, <2>2
<1>7. ASSUME NEW p \in Procs, Finish(p) PROVE Kept
  <2>1. CASE p = q
    <3>1. /\ proc'[q].stmt = 0 /\ proc'[q].pc = "up" /\ proc'[q].files = proc[q].files
      BY <1>7, <2>1, <1>t, <1>p DEF Finish, ProcStates
    <3>. QED
      BY <3>1, <1>2, <1>m, <1>p
  <2>. QED
    BY <1>7, <2>1, <1>1, <1>t DEF Finish
<1>8. ASSUME NEW p \in Procs, Fail(p) PROVE Kept
  <2>1. CASE p = q
    BY <1>8, <2>1, <1>2, <1>t, NoHoles DEF Fail, Idle
  <2>. QED
    BY <1>8, <2>1, <1>1, <1>t DEF Fail
<1>9. ASSUME NEW p \in Procs, Execute(p) PROVE Kept
  BY <1>9, <1>3, <1>1, <1>t DEF Execute
<1>10. CASE UNCHANGED migrateVars
  BY <1>10, <1>1 DEF migrateVars
<1>. QED
  BY <1>4, <1>5, <1>6, <1>7, <1>8, <1>9, <1>10 DEF MigrateNext

\* The primary key lets one transaction of two commit.
LEMMA OnceStep ==
    ASSUME MigrationsInv, [MigrateNext]_migrateVars
    PROVE  AppliedOnce'
<1>. SUFFICES ASSUME part' = "postgres", NEW v \in Versions, NEW i \in 1..Statements
              PROVE  executed'[v][i] = IF v \in recorded' THEN 1 ELSE 0
  BY DEF AppliedOnce
<1>t. MigrateTypeOK /\ part = "postgres"
  BY OnlyMore DEF MigrationsInv
<1>o. executed[v][i] = IF v \in recorded THEN 1 ELSE 0
  BY <1>t DEF MigrationsInv, AppliedOnce
<1>1. CASE UNCHANGED <<recorded, executed>>
  BY <1>1, <1>o
<1>2. ASSUME NEW p \in Procs, Execute(p) PROVE UNCHANGED <<recorded, executed>>
  BY <1>2, <1>t DEF Execute
<1>3. ASSUME NEW p \in Procs, Applying(p), Commit(Version(p)), ~Conflict(Version(p))
      PROVE  executed'[v][i] = IF v \in recorded' THEN 1 ELSE 0
  <2>1. Version(p) \in Versions /\ Version(p) \notin recorded
    BY <1>3, <1>t, AtFile DEF Conflict
  <2>. QED
    BY <1>3, <2>1, <1>t, <1>o, CommitMoves
<1>. QED
  BY <1>1, <1>2, <1>3 DEF MigrateNext, migrateVars, Start, ReadVersion, Record, Finish, Fail

\* Success is reported after the last file; a version is recorded after its
\* statements.
LEMMA UpStep ==
    ASSUME MigrationsInv, [MigrateNext]_migrateVars
    PROVE  UpMeansUp'
<1>t. MigrateTypeOK /\ MigrateTypeOK'
  BY MigrationsTypeStep DEF MigrationsInv
<1>m. /\ recorded \subseteq recorded' /\ gaps \subseteq gaps' /\ part' = part
      /\ \A v \in Versions, i \in 1..Statements : executed[v][i] <= executed'[v][i]
  BY <1>t, OnlyMore
<1>1. ASSUME NEW q \in Procs, proc'[q].pc = "up"
      PROVE  proc'[q].files \subseteq recorded' \cup gaps'
  <2>1. CASE proc'[q] = proc[q]
    BY <1>1, <2>1, <1>m DEF MigrationsInv, UpMeansUp
  <2>2. CASE Finish(q)
    <3>1. /\ proc[q].pc = "apply" /\ Ahead(q) = {} /\ proc'[q].files = proc[q].files
          /\ proc[q].files \subseteq 1..MaxVersion /\ proc[q].current \in 0..MaxVersion
      BY <2>2, <1>t DEF Finish, Applying, MigrateTypeOK, ProcStates, Versions
    <3>2. proc[q].files \subseteq 1..proc[q].current
      BY <3>1, MigrationsAssumption DEF Ahead
    <3>. QED
      BY <3>1, <3>2, <1>m DEF MigrationsInv, ProcInv
  <2>3. ASSUME NEW p \in Procs, p # q \/ Finish(p),
               \/ \E files \in SUBSET Versions : Start(p, files)
               \/ ReadVersion(p) \/ Execute(p) \/ Record(p) \/ Finish(p) \/ Fail(p)
        PROVE  proc'[q] = proc[q] \/ Finish(q)
    BY <2>3, <1>t DEF MigrateTypeOK, Start, ReadVersion, Execute, Record, Finish, Fail
  <2>4. ASSUME NEW p \in Procs, p = q,
               \/ \E files \in SUBSET Versions : Start(p, files)
               \/ ReadVersion(p) \/ Execute(p) \/ Record(p) \/ Fail(p)
        PROVE  proc'[q].pc # "up"
    <3>1. proc \in [Procs -> ProcStates] /\ proc[q] \in ProcStates
      BY <1>t DEF MigrateTypeOK
    <3>2. CASE ReadVersion(p) \/ Execute(p)
      BY <2>4, <3>1, <3>2 DEF ProcStates, ReadVersion, Execute, Applying
    <3>3. CASE Record(p) \/ Fail(p) \/ \E files \in SUBSET Versions : Start(p, files)
      <4>1. CASE proc' = [proc EXCEPT ![p] = Idle]
        BY <2>4, <3>1, <4>1 DEF Idle
      <4>2. CASE proc' = [proc EXCEPT ![p].current = Version(p), ![p].stmt = 0] /\ Applying(p)
        BY <2>4, <3>1, <4>2 DEF ProcStates, Applying
      <4>3. ASSUME NEW files \in SUBSET Versions, Start(p, files) PROVE proc'[q].pc # "up"
        BY <2>4, <3>1, <4>3 DEF Start, Idle
      <4>. QED
        BY <3>3, <4>1, <4>2, <4>3 DEF Record, Fail
    <3>. QED
      BY <2>4, <3>2, <3>3
  <2>. QED
    BY <1>1, <2>1, <2>2, <2>3, <2>4 DEF MigrateNext, migrateVars
<1>2. ASSUME NEW v \in recorded', NEW i \in 1..Statements PROVE executed'[v][i] > 0
  <2>t. /\ v \in Versions /\ executed[v][i] \in Nat /\ executed'[v][i] \in Nat
        /\ executed[v][i] <= executed'[v][i]
    BY <1>t, <1>m DEF MigrateTypeOK
  <2>1. CASE v \in recorded
    <3>1. executed[v][i] > 0
      BY <2>1 DEF MigrationsInv, UpMeansUp
    <3>. QED
      BY <2>t, <3>1
  <2>2. ASSUME NEW p \in Procs, Applying(p), proc[p].stmt = Statements, Commit(Version(p)),
               v = Version(p)
        PROVE  executed'[v][i] > 0
    <3>1. CASE part = "postgres"
      BY <2>2, <2>t, <3>1, <1>t, CommitMoves
    <3>2. CASE part = "clickhouse"
      <4>1. executed[v][i] > 0
        BY <2>2, <3>2 DEF MigrationsInv, ProcInv
      <4>. QED
        BY <2>t, <4>1
    <3>. QED
      BY <3>1, <3>2, <1>t DEF MigrateTypeOK
  <2>3. ASSUME v \notin recorded
        PROVE  \E p \in Procs : /\ Applying(p) /\ proc[p].stmt = Statements
                                /\ Commit(Version(p)) /\ v = Version(p)
    BY <1>2, <2>3 DEF MigrateNext, migrateVars, Start, ReadVersion, Execute, Record,
                    Commit, Finish, Fail
  <2>. QED
    BY <2>1, <2>2, <2>3
<1>. QED
  BY <1>1, <1>2 DEF UpMeansUp

\* The inductive invariant: recorded versions have no gap but what an image
\* skipped, a process stands
\* behind versions that are recorded, and in ClickHouse the statements it
\* counts have been executed (Up, applyMigration).
THEOREM MigrationsInvariant == MigrateSpec => []MigrationsInv
<1>1. ASSUME MigrateInit PROVE MigrationsInv
  <2>1. MigrateTypeOK
    BY <1>1, MigrationsAssumption DEF MigrateInit, MigrateTypeOK, Idle, ProcStates
  <2>2. NoGap /\ ProcInv /\ UpMeansUp
    BY <1>1, NoHoles DEF MigrateInit, NoGap, ProcInv, UpMeansUp, Idle, Applying
  <2>3. AppliedOnce
    BY <1>1 DEF MigrateInit, AppliedOnce
  <2>. QED
    BY <2>1, <2>2, <2>3 DEF MigrationsInv
<1>2. ASSUME MigrationsInv, [MigrateNext]_migrateVars PROVE MigrationsInv'
  BY <1>2, MigrationsTypeStep, NoGapStep, ProcStep, OnceStep, UpStep DEF MigrationsInv
<1>. QED
  BY <1>1, <1>2, PTL DEF MigrateSpec

\* No process counts beyond its files and their statements.
THEOREM MigrationsTypeCorrect == MigrateSpec => []MigrateTypeOK
BY MigrationsInvariant, PTL DEF MigrationsInv

\* In Postgres every statement of a migration takes effect once, and exactly
\* when its version is recorded, with any number of processes that read the
\* same version and die anywhere (applyAndRecord).
THEOREM MigrationsApplyOnce == MigrateSpec => []AppliedOnce
BY MigrationsInvariant, PTL DEF MigrationsInv

\* "up to date" is printed only when every version of the image is recorded that
\* no image skipped, and a recorded version has had each statement executed (Up).
THEOREM UpIsUpToDate == MigrateSpec => []UpMeansUp
BY MigrationsInvariant, PTL DEF MigrationsInv

-----------------------------------------------------------------------------
(* The hint of a cluster.                                                  *)

\* Where a pass is, and what it may hold there.
HintPasses ==
    [pc : {"idle", "loop", "save"}, restale : BOOLEAN, dry : BOOLEAN,
     todo : SUBSET Clusters, batch : SUBSET Clusters,
     answer : [Clusters -> Hints \cup {NoHint}]]

\* A pass that is well formed, and has an answer for each cluster it saves for.
Answered(r) == r \in HintPasses /\ \A c \in r.batch : r.answer[c] # NoHint

\* A process without a pass holds nothing.
LEMMA RestingPass == Answered(NoPass)
<1>1. NoPass \in HintPasses
  BY DEF NoPass, HintPasses
<1>. QED
  BY <1>1 DEF NoPass, Answered

\* The invariant, pass by pass.
LEMMA HintsInvIs ==
    HintsInv <=>
        /\ occurrences \in [Clusters -> 0..MaxOccurrences]
        /\ hint \in [Clusters -> Hints \cup {NoHint}]
        /\ losses \in 0..LossLimit
        /\ pass \in [Processes -> HintPasses]
        /\ \A h \in Processes : Answered(pass[h])
BY DEF HintsInv, HintsTypeOK, HintPasses, Answered

\* A batch is answered: what is to be saved has an answer, the rest waits.
LEMMA SummarizeStep ==
    ASSUME HintsInv, NEW h \in Processes, Summarize(h)
    PROVE  \E n : Answered(n) /\ pass' = [pass EXCEPT ![h] = n]
<1>. DEFINE r == pass[h]
<1>1. PICK batch \in SUBSET r.todo, lost \in SUBSET Clusters :
        LET ok == (batch \ Refused) \ lost
            rest == r.todo \ batch IN
        \E v \in [ok -> Hints] : pass' = [pass EXCEPT ![h] =
               IF ok # {} /\ ~r.dry
               THEN [r EXCEPT !.pc = "save", !.todo = rest, !.batch = ok,
                              !.answer = [c \in Clusters |-> IF c \in ok THEN v[c] ELSE NoHint]]
               ELSE IF rest = {} THEN NoPass ELSE [r EXCEPT !.todo = rest]]
  BY DEF Summarize
<1>. DEFINE ok == (batch \ Refused) \ lost
            rest == r.todo \ batch
<1>2. PICK v \in [ok -> Hints] : pass' = [pass EXCEPT ![h] =
               IF ok # {} /\ ~r.dry
               THEN [r EXCEPT !.pc = "save", !.todo = rest, !.batch = ok,
                              !.answer = [c \in Clusters |-> IF c \in ok THEN v[c] ELSE NoHint]]
               ELSE IF rest = {} THEN NoPass ELSE [r EXCEPT !.todo = rest]]
  BY <1>1
<1>3. r \in HintPasses /\ Answered(r)
  BY HintsInvIs
<1>4. ok \in SUBSET Clusters /\ rest \in SUBSET Clusters
  BY <1>3 DEF HintPasses
<1>. DEFINE a == [c \in Clusters |-> IF c \in ok THEN v[c] ELSE NoHint]
<1>5. a \in [Clusters -> Hints \cup {NoHint}] /\ \A c \in ok : a[c] # NoHint
  BY <1>4, HintsAssumption
<1>. HIDE DEF r, ok, rest, a
<1>6. CASE ok # {} /\ ~r.dry
  <2>. DEFINE n == [r EXCEPT !.pc = "save", !.todo = rest, !.batch = ok, !.answer = a]
  <2>1. n \in HintPasses /\ n.batch = ok /\ n.answer = a
    BY <1>3, <1>4, <1>5 DEF HintPasses
  <2>2. pass' = [pass EXCEPT ![h] = n]
    BY <1>2, <1>6 DEF a
  <2>. HIDE DEF n
  <2>. QED
    BY <1>5, <2>1, <2>2 DEF Answered
<1>7. CASE ~(ok # {} /\ ~r.dry) /\ rest = {}
  BY <1>2, <1>7, RestingPass
<1>8. CASE ~(ok # {} /\ ~r.dry) /\ rest # {}
  <2>. DEFINE n == [r EXCEPT !.todo = rest]
  <2>1. n \in HintPasses /\ n.batch = r.batch /\ n.answer = r.answer
    BY <1>3, <1>4 DEF HintPasses
  <2>2. pass' = [pass EXCEPT ![h] = n]
    BY <1>2, <1>8
  <2>. HIDE DEF n
  <2>. QED
    BY <1>3, <2>1, <2>2 DEF Answered
<1>. QED
  BY <1>6, <1>7, <1>8

\* A pass goes on to the next cluster of its batch, its next batch, or ends.
LEMMA NextClusterKeeps ==
    ASSUME NEW r, Answered(r), NEW c \in r.batch
    PROVE  Answered(NextCluster(r, c))
<1>0. r \in HintPasses /\ \A d \in r.batch : r.answer[d] # NoHint
  BY DEF Answered
<1>1. CASE r.batch # {c}
  <2>. DEFINE n == [r EXCEPT !.batch = @ \ {c}, !.answer[c] = NoHint]
  <2>1. /\ n \in HintPasses /\ n.batch = r.batch \ {c}
        /\ n.answer = [r.answer EXCEPT ![c] = NoHint]
    BY <1>0 DEF HintPasses
  <2>2. NextCluster(r, c) = n
    BY <1>1 DEF NextCluster
  <2>3. r.answer \in [Clusters -> Hints \cup {NoHint}] /\ r.batch \in SUBSET Clusters
    BY <1>0 DEF HintPasses
  <2>. HIDE DEF n
  <2>4. \A d \in n.batch : n.answer[d] # NoHint
    BY <1>0, <2>1, <2>3
  <2>. QED
    BY <2>1, <2>2, <2>4 DEF Answered
<1>2. CASE r.batch = {c} /\ r.todo = {}
  BY <1>2, RestingPass DEF NextCluster
<1>3. CASE r.batch = {c} /\ r.todo # {}
  <2>. DEFINE n == [NoPass EXCEPT !.pc = "loop", !.restale = r.restale, !.todo = r.todo]
  <2>1. n \in HintPasses /\ n.batch = {}
    BY <1>0, RestingPass DEF Answered, HintPasses, NoPass
  <2>2. NextCluster(r, c) = n
    BY <1>3 DEF NextCluster
  <2>. HIDE DEF n
  <2>. QED
    BY <2>1, <2>2 DEF Answered
<1>. QED
  BY <1>1, <1>2, <1>3

\* What a step of the job does to the stored hints: nothing, or it saves an answer
\* where there was none, or for a pass with --restale.
LEMMA HintMoves ==
    ASSUME HintsInv, [HintsNext]_hintsVars, NEW c \in Clusters, hint'[c] # hint[c]
    PROVE  \E h \in Processes :
               /\ pass[h].pc = "save" /\ c \in pass[h].batch
               /\ hint'[c] = pass[h].answer[c] /\ hint'[c] # NoHint
               /\ pass[h].restale \/ hint[c] = NoHint
<1>1. hint' # hint
  OBVIOUS
<1>2. PICK h \in Processes : SaveHint(h)
  BY <1>1 DEF HintsNext, hintsVars, UpsertCluster, RunCron, RunOperator, Load, Step,
              Summarize, Dies
<1>3. PICK d \in pass[h].batch : hint' = Saved(d, pass[h].answer[d], pass[h].restale)
  BY <1>1, <1>2 DEF SaveHint
<1>4. c = d /\ hint'[c] = pass[h].answer[d] /\ (pass[h].restale \/ hint[c] = NoHint)
  BY <1>3, HintsInvIs DEF Saved
<1>5. pass[h].pc = "save" /\ pass[h].answer[d] # NoHint
  BY <1>2 DEF SaveHint, HintsInv
<1>. QED
  BY <1>3, <1>4, <1>5

\* Every step of every process keeps the invariant.
LEMMA HintsStep == HintsInv /\ [HintsNext]_hintsVars => HintsInv'
<1>. SUFFICES ASSUME HintsInv, [HintsNext]_hintsVars PROVE HintsInv'
  OBVIOUS
<1>0. /\ occurrences \in [Clusters -> 0..MaxOccurrences]
      /\ hint \in [Clusters -> Hints \cup {NoHint}]
      /\ losses \in 0..LossLimit
      /\ pass \in [Processes -> HintPasses]
      /\ \A h \in Processes : Answered(pass[h])
  BY HintsInvIs
<1>1. Loss => losses' \in 0..LossLimit
  BY <1>0, HintsAssumption DEF Loss
<1>2. ASSUME occurrences' \in [Clusters -> 0..MaxOccurrences],
             hint' \in [Clusters -> Hints \cup {NoHint}], losses' \in 0..LossLimit,
             \/ pass' = pass
             \/ \E h \in Processes : \E n : Answered(n) /\ pass' = [pass EXCEPT ![h] = n]
      PROVE  HintsInv'
  <2>1. pass' \in [Processes -> HintPasses] /\ \A h \in Processes : Answered(pass'[h])
    <3>1. CASE pass' = pass
      BY <1>0, <3>1
    <3>2. ASSUME NEW h \in Processes, NEW n, Answered(n), pass' = [pass EXCEPT ![h] = n]
          PROVE  pass' \in [Processes -> HintPasses] /\ \A g \in Processes : Answered(pass'[g])
      <4>1. n \in HintPasses
        BY <3>2 DEF Answered
      <4>. QED
        BY <1>0, <3>2, <4>1
    <3>. QED
      BY <1>2, <3>1, <3>2
  <2>. QED
    BY <1>2, <2>1 DEF HintsInv, HintsTypeOK, HintPasses, Answered
<1>3. CASE UNCHANGED hintsVars
  BY <1>0, <1>2, <1>3 DEF hintsVars
<1>4. ASSUME NEW c \in Clusters, UpsertCluster(c) PROVE HintsInv'
  <2>1. occurrences' \in [Clusters -> 0..MaxOccurrences]
    <3>1. MaxOccurrences \in Nat
      BY HintsAssumption
    <3>2. occurrences[c] + 1 \in 0..MaxOccurrences
      BY <1>0, <1>4, <3>1 DEF UpsertCluster
    <3>. QED
      BY <1>0, <1>4, <3>2 DEF UpsertCluster
  <2>. QED
    BY <1>0, <1>2, <1>4, <2>1 DEF UpsertCluster
<1>5. ASSUME NEW h \in Processes, NEW restale \in BOOLEAN, NEW dry \in BOOLEAN,
             Load(h, restale, dry)
      PROVE  HintsInv'
  <2>1. PICK s \in SUBSET Clusters : pass' = [pass EXCEPT ![h] =
               [NoPass EXCEPT !.pc = "loop", !.restale = restale, !.dry = dry, !.todo = s]]
    BY <1>5 DEF Load, PendingClusters
  <2>. DEFINE n == [NoPass EXCEPT !.pc = "loop", !.restale = restale, !.dry = dry, !.todo = s]
  <2>2. n \in HintPasses /\ n.batch = {}
    BY RestingPass DEF Answered, HintPasses, NoPass
  <2>. HIDE DEF n
  <2>3. Answered(n) /\ pass' = [pass EXCEPT ![h] = n]
    BY <2>1, <2>2 DEF Answered, n
  <2>. QED
    BY <1>0, <1>2, <1>5, <2>3 DEF Load
<1>6. ASSUME NEW h \in Processes, Summarize(h) PROVE HintsInv'
  <2>1. occurrences' = occurrences /\ hint' = hint /\ losses' \in 0..LossLimit
    BY <1>0, <1>1, <1>6 DEF Summarize
  <2>. QED
    BY <1>0, <1>2, <1>6, <2>1, SummarizeStep
<1>7. ASSUME NEW h \in Processes, SaveHint(h) PROVE HintsInv'
  <2>1. PICK c \in pass[h].batch :
          /\ \/ hint' = Saved(c, pass[h].answer[c], pass[h].restale) /\ UNCHANGED losses
             \/ Loss /\ UNCHANGED hint
          /\ pass' = [pass EXCEPT ![h] = NextCluster(pass[h], c)]
    BY <1>7 DEF SaveHint
  <2>2. Answered(NextCluster(pass[h], c))
    BY <1>0, NextClusterKeeps
  <2>3. pass[h].answer[c] \in Hints \cup {NoHint}
    BY <1>0 DEF HintPasses
  <2>4. hint' \in [Clusters -> Hints \cup {NoHint}]
    BY <1>0, <2>1, <2>3 DEF Saved
  <2>5. occurrences' = occurrences /\ losses' \in 0..LossLimit
    BY <1>0, <1>1, <1>7, <2>1 DEF SaveHint
  <2>. QED
    BY <1>0, <1>2, <2>1, <2>2, <2>4, <2>5
<1>8. ASSUME NEW h \in Processes, Dies(h) PROVE HintsInv'
  BY <1>0, <1>1, <1>2, <1>8, RestingPass DEF Dies
<1>. QED
  BY <1>3, <1>4, <1>5, <1>6, <1>7, <1>8 DEF HintsNext, RunCron, RunOperator, Processes, Step

\* Every process holds what its variables may hold, and a pass saves only for
\* clusters that it has an answer for (Run skips those without one).
THEOREM HintsInvariant == HintsSpec => []HintsInv
<1>1. HintsInit => HintsInv
  BY RestingPass, HintsAssumption DEF HintsInit, HintsInv, HintsTypeOK, Answered, HintPasses
<1>. QED
  BY <1>1, HintsStep, PTL DEF HintsSpec

\* However many passes overlap, fail and die, a stored hint is never removed, and
\* is replaced only by an answer that a pass with --restale was given for that very
\* cluster (SaveHint's IS NULL guard, Run's matching of answers by cluster id).
THEOREM HintsAreKept == HintsSpec => HintIsKept
<1>1. HintsInv /\ [HintsNext]_hintsVars =>
        \A c \in Clusters : (hint[c] # NoHint /\ hint'[c] # hint[c]) =>
          /\ hint'[c] # NoHint
          /\ \E h \in Processes :
               /\ pass[h].pc = "save" /\ pass[h].restale
               /\ c \in pass[h].batch /\ hint'[c] = pass[h].answer[c]
  BY HintMoves
<1>. QED
  BY <1>1, HintsInvariant, PTL DEF HintsSpec, HintIsKept
=============================================================================
