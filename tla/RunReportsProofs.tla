-------------------------- MODULE RunReportsProofs --------------------------
(***************************************************************************)
(* What the outside is told of a run is true: by the subscription hub, for *)
(* any number of operations of a client, and by the check run at GitHub,   *)
(* for any number of replicas, shards and faults.                          *)
(***************************************************************************)
EXTENDS SubscriptionHub, CheckRuns, FiniteSetTheorems, TLAPS

-----------------------------------------------------------------------------
(* The subscription hub.                                                   *)

\* The parts of the hub's goroutines, one by one.
LEMMA StepCases ==
    ASSUME Next
    PROVE  \/ RowChanges
           \/ \E s \in Subs :
                 \/ LoopExits(s) \/ LoopReads(s) \/ Fanout(s) \/ CloseRun(s)
                 \/ LoopReadFails(s)
                 \/ Register(s) \/ ReadFirst(s) \/ ReadFirstFails(s)
                 \/ SendFirst(s) \/ SendFirstFull(s) \/ SendFirstPanics(s)
                 \/ DropOldest(s) \/ Unsubscribe(s)
                 \/ StartOp(s) \/ StopOp(s) \/ Push(s) \/ OpReturns(s)
  BY DEF Next, LoopStep, SubscribeStep, OpStep

\* The initial state satisfies the invariant.
LEMMA HubInit == Init => HubInv
  <1> SUFFICES ASSUME Init PROVE HubInv
    OBVIOUS
  <1>1. TypeOK
    BY DEF Init, TypeOK, Statuses, Snapshots
  <1>2. Members = {}
    BY DEF Init, Members
  <1> QED
    BY <1>1, <1>2, NoSubAssumption DEF Init, HubInv, UnregisteredIsBlank,
       SeenEndIsReal, OpenIsMember, FanoutIsServed, EndMeansTerminal

\* Types are preserved.
LEMMA TypeStep ==
    ASSUME TypeOK, Next
    PROVE  TypeOK'
  <1> USE DEF TypeOK, Snapshots, hubVars, chanVars, wsVars, vars
  <1>1. CASE RowChanges
    BY <1>1, OutcomesAssumption DEF RowChanges, Statuses, Endings
  <1>2. ASSUME NEW s \in Subs, LoopExits(s) PROVE TypeOK'
    BY <1>2 DEF LoopExits
  <1>3. ASSUME NEW s \in Subs, LoopReads(s) PROVE TypeOK'
    BY <1>3 DEF LoopReads, Snapshot
  <1>4. ASSUME NEW s \in Subs, Fanout(s) PROVE TypeOK'
    BY <1>4 DEF Fanout
  <1>5. ASSUME NEW s \in Subs, CloseRun(s) PROVE TypeOK'
    <2>1. cancelled' \in [Subs -> BOOLEAN]
      BY <1>5, Zenon DEF CloseRun
    <2>2. channel' \in [Subs -> {"none", "open", "closed"}]
      BY <1>5 DEF CloseRun
    <2> QED
      BY <1>5, <2>1, <2>2 DEF CloseRun
  <1>6. ASSUME NEW s \in Subs, LoopReadFails(s) PROVE TypeOK'
    BY <1>6 DEF LoopReadFails
  <1>7. ASSUME NEW s \in Subs, Register(s) PROVE TypeOK'
    BY <1>7 DEF Register
  <1>8. ASSUME NEW s \in Subs, ReadFirst(s) PROVE TypeOK'
    BY <1>8 DEF ReadFirst, Snapshot
  <1>9. ASSUME NEW s \in Subs, ReadFirstFails(s) PROVE TypeOK'
    BY <1>9 DEF ReadFirstFails
  <1>10. ASSUME NEW s \in Subs, SendFirst(s) PROVE TypeOK'
    BY <1>10 DEF SendFirst
  <1>11. ASSUME NEW s \in Subs, SendFirstFull(s) PROVE TypeOK'
    <2>1. hub' \in [Subs -> {"idle", "called", "registered", "send", "drop",
                             "resend", "watch", "left", "panicked"}]
      BY <1>11 DEF SendFirstFull
    <2>2. NoSnap \in Snapshots
      OBVIOUS
    <2>3. firstSnap' \in [Subs -> Snapshots]
      BY <1>11, <2>2 DEF SendFirstFull
    <2> QED
      BY <1>11, <2>1, <2>3 DEF SendFirstFull
  <1>12. ASSUME NEW s \in Subs, SendFirstPanics(s) PROVE TypeOK'
    BY <1>12 DEF SendFirstPanics
  <1>13. ASSUME NEW s \in Subs, DropOldest(s) PROVE TypeOK'
    BY <1>13 DEF DropOldest
  <1>14. ASSUME NEW s \in Subs, Unsubscribe(s) PROVE TypeOK'
    <2>1. CASE s \in Members
      <3>1. cancelled' \in [Subs -> BOOLEAN]
        <4>1. cancelled' = [g \in Subs |->
                  (g = current /\ Members = {s}) \/ cancelled[g]]
          BY <1>14, <2>1 DEF Unsubscribe
        <4>2. \A g \in Subs :
                  ((g = current /\ Members = {s}) \/ cancelled[g]) \in BOOLEAN
          OBVIOUS
        <4> QED
          BY <4>1, <4>2, Zenon
      <3>2. current \in Subs
        BY <2>1 DEF Members
      <3>3. subs' \in [Subs -> SUBSET Subs]
        BY <1>14, <2>1, <3>2 DEF Unsubscribe
      <3>4. channel' \in [Subs -> {"none", "open", "closed"}]
        BY <1>14, <2>1 DEF Unsubscribe
      <3>5. current' \in Subs \cup {NoSub}
        BY <1>14, <2>1 DEF Unsubscribe
      <3>6. hub' \in [Subs -> {"idle", "called", "registered", "send", "drop",
                               "resend", "watch", "left", "panicked"}]
        BY <1>14 DEF Unsubscribe
      <3>7. UNCHANGED <<row, loop, loopSnap, buffer, firstSnap, wsVars>>
        BY <1>14 DEF Unsubscribe
      <3> QED
        BY <3>1, <3>3, <3>4, <3>5, <3>6, <3>7
    <2>2. CASE s \notin Members
      BY <1>14, <2>2 DEF Unsubscribe
    <2> QED
      BY <2>1, <2>2
  <1>15. ASSUME NEW s \in Subs, StartOp(s) PROVE TypeOK'
    BY <1>15 DEF StartOp
  <1>16. ASSUME NEW s \in Subs, StopOp(s) PROVE TypeOK'
    BY <1>16 DEF StopOp
  <1>17. ASSUME NEW s \in Subs, Push(s) PROVE TypeOK'
    BY <1>17 DEF Push
  <1>18. ASSUME NEW s \in Subs, OpReturns(s) PROVE TypeOK'
    BY <1>18 DEF OpReturns
  <1> QED
    BY StepCases, <1>1, <1>2, <1>3, <1>4, <1>5, <1>6, <1>7, <1>8, <1>9, <1>10,
       <1>11, <1>12, <1>13, <1>14, <1>15, <1>16, <1>17, <1>18

\* A step that leaves the run, the fan-outs and the channels alone, takes back
\* no cancellation and unregisters nobody.
Quiet ==
    /\ UNCHANGED <<row, current, subs, cancelled, loop, loopSnap, channel>>
    /\ \A s \in Subs :
          /\ ctxDone[s] => ctxDone'[s]
          /\ hub'[s] \in {"idle", "called"} => hub[s] \in {"idle", "called"}
          /\ op'[s] = "new" => hub'[s] = "idle"

\* Subscribe after its registration, and the session, are quiet.
LEMMA QuietSteps ==
    ASSUME HubInv, NEW s \in Subs,
           \/ LoopReadFails(s) \/ ReadFirst(s) \/ ReadFirstFails(s)
           \/ SendFirst(s) \/ SendFirstFull(s) \/ SendFirstPanics(s)
           \/ DropOldest(s) \/ StartOp(s) \/ StopOp(s) \/ Push(s) \/ OpReturns(s)
    PROVE  Quiet
  <1> USE DEF HubInv, TypeOK, UnregisteredIsBlank, Quiet,
              hubVars, chanVars, wsVars, vars
  <1>1. CASE LoopReadFails(s)
    BY <1>1 DEF LoopReadFails
  <1>2. CASE ReadFirst(s)
    BY <1>2 DEF ReadFirst
  <1>3. CASE ReadFirstFails(s)
    BY <1>3 DEF ReadFirstFails
  <1>4. CASE SendFirst(s)
    BY <1>4 DEF SendFirst
  <1>5. CASE SendFirstFull(s)
    BY <1>5 DEF SendFirstFull
  <1>6. CASE SendFirstPanics(s)
    BY <1>6 DEF SendFirstPanics
  <1>7. CASE DropOldest(s)
    BY <1>7 DEF DropOldest
  <1>8. CASE StartOp(s)
    BY <1>8 DEF StartOp
  <1>9. CASE StopOp(s)
    BY <1>9 DEF StopOp
  <1>10. CASE Push(s)
    BY <1>10 DEF Push
  <1>11. CASE OpReturns(s)
    BY <1>11 DEF OpReturns
  <1> QED
    BY <1>1, <1>2, <1>3, <1>4, <1>5, <1>6, <1>7, <1>8, <1>9, <1>10, <1>11

\* The parts of the invariant besides types.
HubParts ==
    /\ UnregisteredIsBlank
    /\ SeenEndIsReal
    /\ OpenIsMember
    /\ FanoutIsServed
    /\ EndMeansTerminal

\* Quiet steps preserve them.
LEMMA QuietPreserves ==
    ASSUME HubInv, Quiet
    PROVE  HubParts'
  <1> USE DEF HubInv, Quiet
  <1>1. Members' = Members
    BY DEF Members
  <1>2. UnregisteredIsBlank'
    BY DEF UnregisteredIsBlank
  <1>3. SeenEndIsReal'
    BY DEF SeenEndIsReal
  <1>4. OpenIsMember'
    BY <1>1 DEF OpenIsMember
  <1>5. FanoutIsServed'
    BY DEF FanoutIsServed
  <1>6. EndMeansTerminal'
    BY DEF EndMeansTerminal, TypeOK
  <1> QED
    BY <1>2, <1>3, <1>4, <1>5, <1>6 DEF HubParts

\* The run changes: it does not leave a final status.
LEMMA RowPreserves ==
    ASSUME HubInv, RowChanges
    PROVE  HubParts'
  <1> USE DEF HubInv, RowChanges, hubVars, chanVars, wsVars
  <1>1. row.status \notin Endings
    BY DEF Endings
  <1>2. Members' = Members
    BY DEF Members
  <1>3. UnregisteredIsBlank'
    BY DEF UnregisteredIsBlank
  <1>4. SeenEndIsReal'
    BY <1>1 DEF SeenEndIsReal
  <1>5. OpenIsMember'
    BY <1>2 DEF OpenIsMember
  <1>6. FanoutIsServed'
    BY DEF FanoutIsServed
  <1>7. EndMeansTerminal'
    BY <1>1 DEF EndMeansTerminal
  <1> QED
    BY <1>3, <1>4, <1>5, <1>6, <1>7 DEF HubParts

\* The loop exits, reads or fans out: what it learns of the end is true.
LEMMA LoopPreserves ==
    ASSUME HubInv, NEW f \in Subs, LoopExits(f) \/ LoopReads(f) \/ Fanout(f)
    PROVE  HubParts'
  <1> USE DEF HubInv, TypeOK, hubVars, chanVars, wsVars
  <1>1. /\ UNCHANGED <<row, current, subs, cancelled, channel, hub, op, ctxDone>>
        /\ \A g \in Subs \ {f} : loop'[g] = loop[g] /\ loopSnap'[g] = loopSnap[g]
        /\ loop[f] # "none" /\ loop'[f] # "none"
        /\ loop'[f] = "exited" => cancelled[f]
    BY DEF LoopExits, LoopReads, Fanout
  <1>2. Members' = Members
    BY <1>1 DEF Members
  <1>3. UnregisteredIsBlank'
    BY <1>1 DEF UnregisteredIsBlank
  <1>4. SeenEndIsReal'
    <2>1. CASE LoopExits(f)
      BY <1>1, <2>1 DEF SeenEndIsReal, LoopExits
    <2>2. CASE LoopReads(f)
      BY <1>1, <2>2 DEF SeenEndIsReal, LoopReads, Snapshot, isTerminalRunStatus, Endings,
         Statuses
    <2>3. CASE Fanout(f)
      BY <1>1, <2>3 DEF SeenEndIsReal, Fanout
    <2> QED
      BY <2>1, <2>2, <2>3
  <1>5. OpenIsMember'
    BY <1>1, <1>2 DEF OpenIsMember
  <1>6. FanoutIsServed'
    BY <1>1 DEF FanoutIsServed
  <1>7. EndMeansTerminal'
    BY <1>1 DEF EndMeansTerminal
  <1> QED
    BY <1>3, <1>4, <1>5, <1>6, <1>7 DEF HubParts

\* closeRun: the fan-out it closes may not be the loop's own, but the end the
\* loop saw is the end of the run.
LEMMA ClosePreserves ==
    ASSUME HubInv, NEW f \in Subs, CloseRun(f)
    PROVE  HubParts'
  <1> USE DEF HubInv, TypeOK, CloseRun, chanVars, wsVars
  <1>1. row.status \in Endings
    BY DEF SeenEndIsReal
  <1>2. Members' = {}
    BY DEF Members
  <1>3. \A s \in Subs : channel'[s] = IF s \in Members THEN "closed" ELSE channel[s]
    OBVIOUS
  <1>4. \A g \in Subs : cancelled'[g] <=> g = current \/ cancelled[g]
    OBVIOUS
  <1>5. UnregisteredIsBlank'
    <2>1. SUFFICES ASSUME NEW s \in Subs, hub[s] \in {"idle", "called"}
                   PROVE  /\ channel'[s] = "none" /\ subs'[s] = {}
                          /\ loop'[s] = "none" /\ ~cancelled'[s]
      BY DEF UnregisteredIsBlank
    <2>2. channel[s] = "none" /\ subs[s] = {} /\ loop[s] = "none" /\ ~cancelled[s]
      BY <2>1 DEF UnregisteredIsBlank
    <2>3. s \notin Members
      BY <2>2 DEF OpenIsMember
    <2>4. s # current
      BY <2>2 DEF FanoutIsServed
    <2> QED
      BY <1>3, <1>4, <2>2, <2>3, <2>4
  <1>6. SeenEndIsReal'
    BY <1>1 DEF SeenEndIsReal
  <1>7. OpenIsMember'
    BY <1>2, <1>3 DEF OpenIsMember
  <1>8. FanoutIsServed'
    BY <1>4, NoSubAssumption DEF FanoutIsServed
  <1>9. EndMeansTerminal'
    BY <1>1 DEF EndMeansTerminal
  <1> QED
    BY <1>5, <1>6, <1>7, <1>8, <1>9 DEF HubParts

\* Registration, with a fan-out that is there or with one of its own.
LEMMA RegisterPreserves ==
    ASSUME HubInv, NEW s \in Subs, Register(s)
    PROVE  HubParts'
  <1> DEFINE f == IF current = NoSub THEN s ELSE current
  <1> USE DEF HubInv, TypeOK, Register, wsVars
  <1>1. f \in Subs /\ current' = f /\ f # NoSub
    BY NoSubAssumption
  <1>2. channel[s] = "none" /\ subs[s] = {} /\ loop[s] = "none" /\ ~cancelled[s]
    BY DEF UnregisteredIsBlank
  <1>3. s # current /\ s \notin Members
    BY <1>2 DEF FanoutIsServed, OpenIsMember
  <1>4. subs'[f] = subs[f] \cup {s} /\ \A g \in Subs \ {f} : subs'[g] = subs[g]
    BY <1>1
  <1>5. Members' = Members \cup {s}
    BY <1>1, <1>2, <1>4 DEF Members
  <1>6. channel'[s] = "open" /\ \A u \in Subs \ {s} : channel'[u] = channel[u]
    OBVIOUS
  <1>7. /\ loop'[s] = (IF current = NoSub THEN "waiting" ELSE "none")
        /\ \A g \in Subs \ {s} : loop'[g] = loop[g]
    BY <1>2
  <1>8. UnregisteredIsBlank'
    <2>1. \A u \in Subs : hub'[u] \in {"idle", "called"} => u # s /\ hub'[u] = hub[u]
      OBVIOUS
    <2>2. \A u \in Subs : op'[u] = "new" => hub'[u] = "idle"
      BY DEF UnregisteredIsBlank
    <2>3. \A u \in Subs : hub[u] \in {"idle", "called"} => u # current
      BY DEF UnregisteredIsBlank, FanoutIsServed
    <2> QED
      BY <1>4, <1>6, <1>7, <2>1, <2>2, <2>3 DEF UnregisteredIsBlank
  <1>9. SeenEndIsReal'
    BY <1>7 DEF SeenEndIsReal
  <1>10. OpenIsMember'
    BY <1>5, <1>6 DEF OpenIsMember
  <1>11. FanoutIsServed'
    <2>1. CASE current = NoSub
      <3>1. current' = s /\ loop'[s] = "waiting" /\ s \in subs'[s]
        BY <1>1, <1>4, <1>7, <2>1
      <3>2. \A g \in Subs \ {s} : ~(loop[g] # "none" /\ ~cancelled[g])
        BY <2>1, NoSubAssumption DEF FanoutIsServed
      <3>3. \A g \in Subs : (loop'[g] # "none" /\ ~cancelled'[g]) <=> g = s
        BY <1>2, <1>7, <3>1, <3>2
      <3> QED
        BY <3>1, <3>3 DEF FanoutIsServed
    <2>2. CASE current # NoSub
      BY <1>1, <1>2, <1>3, <1>4, <1>7, <2>2 DEF FanoutIsServed
    <2> QED
      BY <2>1, <2>2
  <1>12. EndMeansTerminal'
    BY <1>6 DEF EndMeansTerminal
  <1> QED
    BY <1>8, <1>9, <1>10, <1>11, <1>12 DEF HubParts

\* A subscriber leaves; the last one takes the fan-out with it.
LEMMA UnsubscribePreserves ==
    ASSUME HubInv, NEW s \in Subs, Unsubscribe(s)
    PROVE  HubParts'
  <1> USE DEF HubInv, TypeOK, wsVars
  <1>1. /\ UNCHANGED <<row, loop, loopSnap, op, ctxDone>>
        /\ ctxDone[s] /\ hub'[s] = "left"
        /\ \A u \in Subs \ {s} : hub'[u] = hub[u]
    BY DEF Unsubscribe
  <1>2. CASE s \notin Members
    <2>1. UNCHANGED <<subs, channel, current, cancelled>>
      BY <1>2 DEF Unsubscribe
    <2>2. Quiet
      BY <1>1, <2>1 DEF Quiet, UnregisteredIsBlank, Unsubscribe
    <2> QED
      BY <2>2, QuietPreserves
  <1>3. CASE s \in Members
    <2>1. current \in Subs /\ current # NoSub /\ Members = subs[current]
      BY <1>3 DEF Members
    <2>2. /\ subs'[current] = Members \ {s}
          /\ \A g \in Subs \ {current} : subs'[g] = subs[g]
      BY <1>3, <2>1 DEF Unsubscribe
    <2>3. channel'[s] = "closed" /\ \A u \in Subs \ {s} : channel'[u] = channel[u]
      BY <1>3 DEF Unsubscribe
    <2>4. \A g \in Subs :
              cancelled'[g] <=> (g = current /\ Members = {s}) \/ cancelled[g]
      BY <1>3 DEF Unsubscribe
    <2>5. current' = IF Members = {s} THEN NoSub ELSE current
      BY <1>3 DEF Unsubscribe
    <2>6. Members' = Members \ {s}
      BY <2>1, <2>2, <2>5 DEF Members
    <2>7. UnregisteredIsBlank'
      <3>1. \A u \in Subs : op'[u] = "new" => hub'[u] = "idle"
        BY <1>1 DEF UnregisteredIsBlank, Unsubscribe
      <3>2. \A u \in Subs : hub[u] \in {"idle", "called"} => u # current
        BY <2>1 DEF UnregisteredIsBlank, FanoutIsServed
      <3> QED
        BY <1>1, <2>2, <2>3, <2>4, <3>1, <3>2 DEF UnregisteredIsBlank
    <2>8. SeenEndIsReal'
      BY <1>1 DEF SeenEndIsReal
    <2>9. OpenIsMember'
      BY <2>3, <2>6 DEF OpenIsMember
    <2>10. FanoutIsServed'
      <3>1. CASE Members = {s}
        BY <1>1, <2>4, <2>5, <3>1, NoSubAssumption DEF FanoutIsServed
      <3>2. CASE Members # {s}
        BY <1>1, <1>3, <2>1, <2>2, <2>4, <2>5, <3>2 DEF FanoutIsServed
      <3> QED
        BY <3>1, <3>2
    <2>11. EndMeansTerminal'
      BY <1>1, <2>3 DEF EndMeansTerminal
    <2> QED
      BY <2>7, <2>8, <2>9, <2>10, <2>11 DEF HubParts
  <1> QED
    BY <1>2, <1>3

\* The invariant is inductive, and stuttering preserves it.
LEMMA HubStep == HubInv /\ [Next]_vars => HubInv'
  <1> SUFFICES ASSUME HubInv, [Next]_vars PROVE HubInv'
    OBVIOUS
  <1>1. CASE UNCHANGED vars
    <2>1. TypeOK'
      BY <1>1 DEF HubInv, TypeOK, vars, hubVars, chanVars, wsVars
    <2>2. Quiet
      BY <1>1 DEF HubInv, UnregisteredIsBlank, Quiet, vars, hubVars, chanVars, wsVars
    <2> QED
      BY <2>1, <2>2, QuietPreserves DEF HubInv, HubParts
  <1>2. CASE Next
    <2>1. TypeOK'
      BY <1>2, TypeStep DEF HubInv
    <2>2. HubParts'
      BY <1>2, StepCases, QuietSteps, QuietPreserves, RowPreserves, LoopPreserves,
         ClosePreserves, RegisterPreserves, UnsubscribePreserves
    <2> QED
      BY <2>1, <2>2 DEF HubInv, HubParts
  <1> QED
    BY <1>1, <1>2

\* The invariant holds in every reachable state, for any set of operations.
THEOREM HubInvariant == Spec => []HubInv
  BY HubInit, HubStep, PTL DEF Spec

\* The hub's state is well typed throughout.
THEOREM HubTypeCorrect == Spec => []TypeOK
  <1>1. HubInv => TypeOK
    BY DEF HubInv
  <1> QED
    BY <1>1, HubInvariant, PTL

\* fanout, closeRun and unsubscribe only ever send to and close open channels,
\* and every open channel is in the fan-out that will.
THEOREM HubOpenIsMember == Spec => []OpenIsMember
  <1>1. HubInv => OpenIsMember
    BY DEF HubInv
  <1> QED
    BY <1>1, HubInvariant, PTL

\* The fan-out of h.runs has subscribers and the only loop that is to go on.
THEOREM HubFanoutIsServed == Spec => []FanoutIsServed
  <1>1. HubInv => FanoutIsServed
    BY DEF HubInv
  <1> QED
    BY <1>1, HubInvariant, PTL

\* closeRun ends the stream of a client that stays only when the run has ended,
\* also when it is the loop of an earlier fan-out that calls it.
THEOREM HubEndMeansTerminal == Spec => []EndMeansTerminal
  <1>1. HubInv => EndMeansTerminal
    BY DEF HubInv
  <1> QED
    BY <1>1, HubInvariant, PTL

-----------------------------------------------------------------------------
(* The check run.                                                          *)

\* The replicas at a point of their loop are finitely many.
LEMMA AtFinite ==
    ASSUME ChecksTypeOK, NEW a
    PROVE  /\ IsFiniteSet(deployed) /\ Cardinality(deployed) \in Nat
           /\ IsFiniteSet(At(a)) /\ Cardinality(At(a)) \in Nat
           /\ Cardinality(At(a)) <= Cardinality(deployed)
<1>1. IsFiniteSet(deployed)
  BY FS_Subset, CheckRunsAssumption DEF ChecksTypeOK
<1>2. At(a) \in SUBSET deployed
  BY DEF At
<1>3. IsFiniteSet(At(a)) /\ Cardinality(At(a)) <= Cardinality(deployed)
  BY <1>1, <1>2, FS_Subset
<1>. QED
  BY <1>1, <1>3, FS_CardinalityType

\* No replica is at two points at once.
LEMMA AtTwoPoints ==
    ASSUME ChecksTypeOK, NEW a, NEW b, a # b
    PROVE  Cardinality(At(a)) + Cardinality(At(b)) <= Cardinality(deployed)
<1>1. /\ IsFiniteSet(deployed) /\ IsFiniteSet(At(a)) /\ IsFiniteSet(At(b))
      /\ Cardinality(At(a)) \in Nat /\ Cardinality(At(b)) \in Nat
  BY AtFinite
<1>2. At(a) \cup At(b) \in SUBSET deployed /\ At(a) \cap At(b) = {}
  BY DEF At
<1>3. Cardinality(At(a) \cup At(b)) =
        Cardinality(At(a)) + Cardinality(At(b))
          - Cardinality(At(a) \cap At(b))
  BY <1>1, FS_Union
<1>4. Cardinality(At(a) \cap At(b)) = 0
  BY <1>2, FS_EmptySet
<1>5. Cardinality(At(a) \cup At(b)) <= Cardinality(deployed)
  BY <1>1, <1>2, FS_Subset
<1>. QED
  BY <1>1, <1>3, <1>4, <1>5

\* How many replicas are at a point when one of them moves.
LEMMA ReplicaMoves ==
    ASSUME ChecksTypeOK, NEW m \in deployed, NEW r,
           rep' = [rep EXCEPT ![m] = r], deployed' = deployed, NEW a
    PROVE  /\ rep[m].pc = a => Cardinality(At(a))' =
                                  IF r.pc = a THEN Cardinality(At(a))
                                              ELSE Cardinality(At(a)) - 1
           /\ rep[m].pc # a => Cardinality(At(a))' =
                                  IF r.pc = a THEN Cardinality(At(a)) + 1
                                              ELSE Cardinality(At(a))
<1>0. IsFiniteSet(At(a)) /\ Cardinality(At(a)) \in Nat
  BY AtFinite
<1>1. \A n \in deployed : rep'[n].pc = IF n = m THEN r.pc ELSE rep[n].pc
  BY DEF ChecksTypeOK
<1>2. /\ At(a)' = {n \in deployed : rep'[n].pc = a}
      /\ At(a) = {n \in deployed : rep[n].pc = a}
  BY DEF At
<1>3. CASE (rep[m].pc = a) = (r.pc = a)
  BY <1>1, <1>2, <1>3
<1>4. CASE rep[m].pc = a /\ r.pc # a
  <2>1. At(a)' = At(a) \ {m} /\ m \in At(a)
    BY <1>1, <1>2, <1>4
  <2>. QED
    BY <1>0, <1>4, <2>1, FS_RemoveElement
<1>5. CASE rep[m].pc # a /\ r.pc = a
  <2>1. At(a)' = At(a) \cup {m} /\ m \notin At(a)
    BY <1>1, <1>2, <1>5
  <2>. QED
    BY <1>0, <1>5, <2>1, FS_AddElement
<1>. QED
  BY <1>3, <1>4, <1>5

\* The steps of a replica, one by one.
LEMMA CheckCases ==
    ASSUME ChecksNext
    PROVE  \/ \E m \in deployed :
                \/ Scan(m) \/ TryHandle(m) \/ ReadVerdict(m) \/ CommitVerdict(m)
                \/ HandleFails(m) \/ ReadSnapshot(m) \/ Create(m) \/ Persist(m)
                \/ Update(m) \/ Crash(m)
           \/ \E m \in deployed, s \in Shards : SweepScan(m, s) \/ RescheduleOne(m, s)
           \/ \E s \in Shards : Claim(s) \/ Preempt(s) \/ Finish(s)
           \/ StartFinalizing \/ Cancel \/ EnforceBudget
BY DEF ChecksNext, Notify, Transition, WorkerStep

\* The counts of a summary are numbers, and its failed shards are those of the
\* table.
LEMMA CountsType ==
    /\ shardCounts \in [total : Nat, passed : Int, failed : Nat]
    /\ NoReport \in [total : Nat, passed : Int, failed : Nat] /\ NoReport.failed = 0
    /\ shardCounts.failed = Cardinality({s \in Shards : shard[s] \in {"failed"}})
<1>1. \A st : Cardinality({s \in Shards : shard[s] \in st}) \in Nat
  <2>. TAKE st
  <2>1. {s \in Shards : shard[s] \in st} \in SUBSET Shards
    OBVIOUS
  <2>2. IsFiniteSet({s \in Shards : shard[s] \in st})
    BY <2>1, FS_Subset, CheckRunsAssumption
  <2>. QED
    BY <2>2, FS_CardinalityType
<1>. DEFINE count(st) == Cardinality({s \in Shards : shard[s] \in st})
<1>2. /\ count(ShardStatuses) \in Nat /\ count({"succeeded", "failed"}) \in Nat
      /\ count({"failed"}) \in Nat /\ count({"lost", "preempted"}) \in Nat
  BY <1>1
<1>3. shardCounts =
        [total |-> count(ShardStatuses),
         passed |-> count({"succeeded", "failed"}) + count({"lost", "preempted"})
                      - count({"failed"}) - count({"lost", "preempted"}),
         failed |-> count({"failed"})]
  BY DEF shardCounts
<1>5. count({"failed"}) = Cardinality({s \in Shards : shard[s] \in {"failed"}})
  OBVIOUS
<1>. HIDE DEF count
<1>4. /\ shardCounts \in [total : Nat, passed : Int, failed : Nat]
      /\ shardCounts.failed = count({"failed"})
  BY <1>2, <1>3
<1>. QED
  BY <1>4, <1>5 DEF NoReport

\* Of more written shards there are no fewer.
LEMMA AfterGrows ==
    ASSUME NEW A, NEW B, A \subseteq B, B \subseteq Shards
    PROVE  /\ Cardinality(A) \in Nat /\ Cardinality(B) \in Nat
           /\ Cardinality(A) <= Cardinality(B)
<1>1. IsFiniteSet(B)
  BY FS_Subset, CheckRunsAssumption
<1>2. IsFiniteSet(A) /\ Cardinality(A) <= Cardinality(B)
  BY <1>1, FS_Subset
<1>. QED
  BY <1>1, <1>2, FS_CardinalityType

\* The states of a replica.
LEMMA RepTypes ==
    /\ Idle \in RepStates /\ Idle.pc = "idle" /\ Idle.id = 0 /\ Idle.scanned = ""
    /\ [Idle EXCEPT !.pc = "snapshot"] \in RepStates
    /\ [Idle EXCEPT !.pc = "snapshot"].pc = "snapshot"
    /\ [Idle EXCEPT !.pc = "snapshot"].scanned = ""
BY DEF Idle, RepStates

\* Every step keeps the types.
LEMMA CheckTypeStep ==
    ASSUME ChecksTypeOK, VerdictInv, [ChecksNext]_checksVars
    PROVE  ChecksTypeOK'
<1>i. Idle \in RepStates /\ [Idle EXCEPT !.pc = "snapshot"] \in RepStates
  BY RepTypes
<1>f. Fault => faults' \in 0..FaultLimit
  BY CheckRunsAssumption DEF Fault, ChecksTypeOK
<1>1. CASE UNCHANGED checksVars
  BY <1>1 DEF checksVars, rows, ChecksTypeOK
<1>2. ASSUME NEW m \in deployed, Scan(m) PROVE ChecksTypeOK'
  <2>1. [Idle EXCEPT !.pc = "handle", !.scanned = status] \in RepStates
    BY <1>2 DEF Scan, Idle, RepStates
  <2>. QED
    BY <1>2, <2>1 DEF Scan, rows, ChecksTypeOK
<1>3. ASSUME NEW m \in deployed, TryHandle(m) PROVE ChecksTypeOK'
  <2>1. rep' \in [Replicas -> RepStates]
    BY <1>3, <1>i DEF TryHandle, ChecksTypeOK
  <2>2. status' \in RunStatuses /\ shard' \in [Shards -> ShardStatuses \cup {"none"}]
    BY <1>3
       DEF TryHandle, Plan, InsertShards, ChecksTypeOK, RunStatuses, Scannable, Ended,
           ShardStatuses
  <2>. QED
    BY <1>3, <2>1, <2>2 DEF TryHandle, ChecksTypeOK
<1>4. ASSUME NEW m \in deployed, ReadVerdict(m) PROVE ChecksTypeOK'
  <2>1. Verdict \in RunStatuses
    BY DEF Verdict, RunStatuses, Ended
  <2>2. [Idle EXCEPT !.pc = "verdict", !.status = Verdict] \in RepStates
    BY <2>1 DEF Idle, RepStates
  <2>. QED
    BY <1>4, <2>2 DEF ReadVerdict, rows, ChecksTypeOK
<1>5. ASSUME NEW m \in deployed, CommitVerdict(m) PROVE ChecksTypeOK'
  <2>1. status' \in RunStatuses /\ decided' \in BOOLEAN
    BY <1>5 DEF CommitVerdict, VerdictInv, ChecksTypeOK, RunStatuses, Ended
  <2>. QED
    BY <1>5, <1>i, <2>1 DEF CommitVerdict, rows, ChecksTypeOK
<1>6. ASSUME NEW m \in deployed, HandleFails(m) PROVE ChecksTypeOK'
  BY <1>6, <1>i, <1>f DEF HandleFails, rows, ChecksTypeOK
<1>7. ASSUME NEW m \in deployed, Crash(m) PROVE ChecksTypeOK'
  BY <1>7, <1>i, <1>f DEF Crash, ChecksTypeOK
<1>8. ASSUME NEW m \in deployed, NEW s \in Shards, SweepScan(m, s) \/ RescheduleOne(m, s)
      PROVE  ChecksTypeOK'
  BY <1>8 DEF SweepScan, RescheduleOne, ChecksTypeOK, ShardStatuses
<1>9. ASSUME NEW s \in Shards, Claim(s) \/ Preempt(s) \/ Finish(s) PROVE ChecksTypeOK'
  BY <1>9 DEF Claim, Preempt, Finish, ChecksTypeOK, ShardStatuses
<1>10. CASE StartFinalizing \/ Cancel \/ EnforceBudget
  BY <1>10
     DEF StartFinalizing, Cancel, EnforceBudget, rows, ChecksTypeOK, RunStatuses,
         Scannable, Ended
<1>11. ASSUME NEW m \in deployed, ReadSnapshot(m) PROVE ChecksTypeOK'
  <2>1. [Idle EXCEPT !.pc = IF checkId = 0 THEN "create" ELSE "update",
                     !.status = status, !.id = checkId] \in RepStates
    <3>1. checkId \in Nat /\ status \in RunStatuses
      BY DEF ChecksTypeOK
    <3>. QED
      BY <1>i, <3>1 DEF RepStates
  <2>. QED
    BY <1>11, <1>i, <1>f, <2>1 DEF ReadSnapshot, rows, ChecksTypeOK
<1>12. ASSUME NEW m \in deployed, Create(m) PROVE ChecksTypeOK'
  <2>. DEFINE new == [status |-> "in_progress", conclusion |-> "", report |-> NoReport]
  <2>1. new \in CheckStates
    BY CountsType DEF CheckStates
  <2>2. checks \in Seq(CheckStates) /\ Len(checks) \in Nat
    BY DEF ChecksTypeOK
  <2>3. /\ checks' = Append(checks, new) \/ checks' = checks
        /\ UNCHANGED <<deployed, status, rows, checkId, decided, after>>
    BY <1>12 DEF Create
  <2>. HIDE DEF new
  <2>4. checks' \in Seq(CheckStates) /\ Len(checks') \in Nat /\ Len(checks) <= Len(checks')
    BY <2>1, <2>2, <2>3
  <2>5. checkId' \in 0..Len(checks')
    BY <2>2, <2>3, <2>4 DEF ChecksTypeOK
  <2>6. [Idle EXCEPT !.pc = "persist", !.id = Len(checks) + 1] \in RepStates
    <3>1. Len(checks) + 1 \in Nat
      BY <2>2
    <3>. QED
      BY <1>i, <3>1 DEF RepStates
  <2>7. rep' \in [Replicas -> RepStates] /\ faults' \in 0..FaultLimit
    BY <1>12, <1>i, <1>f, <2>6 DEF Create, ChecksTypeOK
  <2>. QED
    BY <2>3, <2>4, <2>5, <2>7 DEF rows, ChecksTypeOK
<1>13. ASSUME NEW m \in deployed, Persist(m) PROVE ChecksTypeOK'
  <2>1. rep[m].id \in 0..Len(checks)
    BY <1>13 DEF Persist, VerdictInv, ChecksTypeOK
  <2>. QED
    BY <1>13, <1>i, <1>f, <2>1 DEF Persist, rows, ChecksTypeOK
<1>14. ASSUME NEW m \in deployed, Update(m) PROVE ChecksTypeOK'
  <2>1. /\ Updated(rep[m].status, shardCounts) \in CheckStates
        /\ Updated(rep[m].status, NoReport) \in CheckStates
    BY CountsType DEF Updated, Conclusion, CheckStates
  <2>2. rep[m].id \in 1..Len(checks) /\ checks \in Seq(CheckStates)
    BY <1>14 DEF Update, VerdictInv, ChecksTypeOK
  <2>3. \A c \in CheckStates : /\ [checks EXCEPT ![rep[m].id] = c] \in Seq(CheckStates)
                               /\ Len([checks EXCEPT ![rep[m].id] = c]) = Len(checks)
    BY <2>2
  <2>4. checks' \in Seq(CheckStates) /\ Len(checks') = Len(checks)
    BY <1>14, <2>1, <2>2, <2>3 DEF Update
  <2>. QED
    BY <1>14, <1>i, <1>f, <2>4 DEF Update, rows, ChecksTypeOK
<1>. QED
  BY <1>1, <1>2, <1>3, <1>4, <1>5, <1>6, <1>7, <1>8, <1>9, <1>10, <1>11, <1>12, <1>13, <1>14,
     CheckCases

\* The row of a run that has ended stays, and a shard that fails once finalize has
\* read the shards is in after; so what a replica has read of the run stays true.
LEMMA VerdictStep ==
    ASSUME ChecksTypeOK, VerdictInv, [ChecksNext]_checksVars
    PROVE  VerdictInv'
<1>l. Len(checks) \in Nat
  BY DEF ChecksTypeOK
<1>i. /\ Idle.pc = "idle" /\ Idle.scanned = ""
      /\ [Idle EXCEPT !.pc = "snapshot"].pc = "snapshot"
      /\ [Idle EXCEPT !.pc = "snapshot"].scanned = ""
  BY RepTypes
<1>t. rep \in [Replicas -> RepStates] /\ deployed \subseteq Replicas
  BY DEF ChecksTypeOK
\* A step of a replica that leaves the run and its shards alone.
<1>0. ASSUME NEW m \in deployed, NEW r, rep' = [rep EXCEPT ![m] = r],
             UNCHANGED <<deployed, status, shard, decided, after>>,
             Len(checks') \in Nat, Len(checks) <= Len(checks'),
             r.pc # "verdict",
             r.scanned = "finalizing" => status = "finalizing",
             r.pc \in {"persist", "update"} => r.id \in 1..Len(checks'),
             r.pc = "update" /\ isTerminal(r.status) => status = r.status
      PROVE  VerdictInv'
  <2>1. \A n \in deployed : rep'[n] = IF n = m THEN r ELSE rep[n]
    BY <1>0, <1>t
  <2>2. Failing' = Failing
    BY <1>0 DEF Failing
  <2>3. \A n \in deployed : n # m /\ rep[n].pc \in {"persist", "update"} =>
                               rep[n].id \in 1..Len(checks')
    <3>1. \A n \in deployed : n # m /\ rep[n].pc \in {"persist", "update"} =>
                                 rep[n].id \in 1..Len(checks)
      BY DEF VerdictInv
    <3>. QED
      BY <1>0, <1>l, <3>1
  <2>. QED
    BY <1>0, <2>1, <2>2, <2>3 DEF VerdictInv, isTerminal
\* A step that only writes rows of shards.
<1>a. ASSUME UNCHANGED <<deployed, status, rep, checks, decided>>,
             (decided \/ LockTaken) /\ Failing \subseteq after => Failing' \subseteq after'
      PROVE  VerdictInv'
  <2>1. \A m \in deployed : rep[m].pc = "verdict" => LockTaken
    BY DEF LockTaken
  <2>. QED
    BY <1>a, <2>1 DEF VerdictInv, isTerminal
<1>1. CASE UNCHANGED checksVars
  BY <1>1, <1>a DEF checksVars, rows, Failing
<1>2. ASSUME NEW m \in deployed, Scan(m) PROVE VerdictInv'
  <2>. DEFINE r == [Idle EXCEPT !.pc = "handle", !.scanned = status]
  <2>1. r.pc = "handle" /\ r.scanned = status
    BY DEF Idle
  <2>2. /\ rep' = [rep EXCEPT ![m] = r]
        /\ UNCHANGED <<deployed, status, shard, checks, decided, after>>
    BY <1>2 DEF Scan, rows
  <2>. HIDE DEF r
  <2>3. Len(checks') \in Nat /\ Len(checks) <= Len(checks')
    BY <1>l, <2>2
  <2>. QED
    BY <1>0, <2>1, <2>2, <2>3
<1>3. ASSUME NEW m \in deployed, TryHandle(m) PROVE VerdictInv'
  <2>1. /\ rep' = [rep EXCEPT ![m] = Idle]
           \/ rep' = [rep EXCEPT ![m] = [Idle EXCEPT !.pc = "snapshot"]]
        /\ UNCHANGED <<deployed, checks, decided, after>> /\ ~LockTaken
    BY <1>3 DEF TryHandle
  <2>2. \A n \in deployed :
          rep'[n] = rep[n] \/ (rep'[n].pc \in {"idle", "snapshot"} /\ rep'[n].scanned = "")
    BY <1>i, <1>t, <2>1
  <2>3. /\ status \in {"succeeded", "failed"} => status' = status
        /\ status' = "succeeded" => status = "succeeded"
        /\ status = "finalizing" => status' \in {"finalizing", "failed"}
    BY <1>3 DEF TryHandle, Plan, Ended
  <2>4. Failing' = Failing
    BY <1>3 DEF TryHandle, Plan, InsertShards, Failing
  <2>5. \A n \in deployed : rep'[n].pc # "verdict"
    BY <2>1, <2>2 DEF LockTaken
  <2>. QED
    BY <2>1, <2>2, <2>3, <2>4, <2>5 DEF VerdictInv, isTerminal
<1>4. ASSUME NEW m \in deployed, ReadVerdict(m) PROVE VerdictInv'
  <2>. DEFINE r == [Idle EXCEPT !.pc = "verdict", !.status = Verdict]
  <2>1. r.pc = "verdict" /\ r.status = Verdict /\ r.scanned = ""
    BY DEF Idle
  <2>2. /\ rep' = [rep EXCEPT ![m] = r] /\ rep[m].scanned = "finalizing"
        /\ UNCHANGED <<deployed, status, shard, checks, decided>> /\ ~LockTaken
        /\ after' = IF status = "finalizing" THEN {} ELSE after
    BY <1>4 DEF ReadVerdict, rows
  <2>. HIDE DEF r
  <2>3. \A n \in deployed : rep'[n] = IF n = m THEN r ELSE rep[n]
    BY <1>t, <2>2
  <2>4. Failing' = Failing /\ Verdict \in {"succeeded", "failed"}
        /\ (Verdict = "succeeded" => Failing = {})
    BY <2>2 DEF Failing, Verdict
  <2>5. \A n \in deployed : rep'[n].pc = "verdict" => n = m
    BY <2>2, <2>3 DEF LockTaken
  <2>6. status \in {"finalizing", "succeeded", "failed"}
    BY <2>2 DEF VerdictInv
  <2>7. \A n \in deployed : n # m => rep'[n] = rep[n]
    BY <2>3
  <2>8. rep'[m] = r /\ checks' = checks /\ status' = status
    BY <2>2, <2>3
  <2>9. /\ status' = "succeeded" => decided' /\ Failing' \subseteq after'
        /\ \A n \in deployed' : rep'[n].pc = "verdict" =>
             /\ rep'[n].status \in {"succeeded", "failed"}
             /\ status' = "finalizing" /\ rep'[n].status = "succeeded" => Failing' \subseteq after'
             /\ \A k \in deployed' : rep'[k].pc = "verdict" => k = n
    <3>1. status' = "succeeded" => decided' /\ Failing' \subseteq after'
      BY <2>2, <2>4 DEF VerdictInv
    <3>2. r.status = "succeeded" => Failing' = {}
      BY <2>1, <2>4
    <3>. QED
      BY <2>1, <2>2, <2>4, <2>5, <2>8, <3>1, <3>2
  <2>10. \A n \in deployed' :
         /\ rep'[n].pc = "verdict" \/ rep'[n].scanned = "finalizing" =>
              status' \in {"finalizing", "succeeded", "failed"}
         /\ rep'[n].pc \in {"persist", "update"} => rep'[n].id \in 1..Len(checks')
         /\ rep'[n].pc = "update" /\ isTerminal(rep'[n].status) => status' = rep'[n].status
    BY <2>1, <2>2, <2>6, <2>7, <2>8 DEF VerdictInv, isTerminal
  <2>. QED
    BY <2>9, <2>10 DEF VerdictInv, isTerminal
<1>5. ASSUME NEW m \in deployed, CommitVerdict(m) PROVE VerdictInv'
  <2>. DEFINE r == [Idle EXCEPT !.pc = "snapshot"]
  <2>1. /\ rep[m].pc = "verdict" /\ rep' = [rep EXCEPT ![m] = r]
        /\ UNCHANGED <<deployed, shard, checks, after>>
        /\ status' = IF status = "finalizing" THEN rep[m].status ELSE status
        /\ decided' = (decided \/ status = "finalizing")
    BY <1>5 DEF CommitVerdict, rows
  <2>2. r.pc = "snapshot" /\ r.scanned = ""
    BY <1>i
  <2>. HIDE DEF r
  <2>3. \A n \in deployed : rep'[n] = IF n = m THEN r ELSE rep[n]
    BY <1>t, <2>1
  <2>4. Failing' = Failing
    BY <2>1 DEF Failing
  <2>5. /\ \A n \in deployed : rep'[n].pc # "verdict"
        /\ rep[m].status \in {"succeeded", "failed"}
        /\ status \in {"finalizing", "succeeded", "failed"}
        /\ status = "finalizing" /\ rep[m].status = "succeeded" => Failing \subseteq after
    BY <2>1, <2>2, <2>3 DEF VerdictInv
  <2>6. status' = "succeeded" => decided' /\ Failing \subseteq after
    BY <2>1, <2>5 DEF VerdictInv
  <2>7. \A n \in deployed :
          /\ rep'[n].scanned = "finalizing" => status' \in {"finalizing", "succeeded", "failed"}
          /\ rep'[n].pc \in {"persist", "update"} => rep'[n].id \in 1..Len(checks)
          /\ rep'[n].pc = "update" /\ isTerminal(rep'[n].status) => status' = rep'[n].status
    BY <2>1, <2>2, <2>3, <2>5 DEF VerdictInv, isTerminal
  <2>. QED
    BY <2>1, <2>4, <2>5, <2>6, <2>7 DEF VerdictInv, isTerminal
<1>6. ASSUME NEW m \in deployed, HandleFails(m) \/ Crash(m) PROVE VerdictInv'
  <2>1. /\ rep' = [rep EXCEPT ![m] = Idle]
        /\ UNCHANGED <<deployed, status, shard, checks, decided, after>>
    BY <1>6 DEF HandleFails, Crash, rows
  <2>2. Len(checks') \in Nat /\ Len(checks) <= Len(checks')
    BY <1>l, <2>1
  <2>. QED
    BY <1>0, <1>i, <2>1, <2>2
<1>7. ASSUME NEW m \in deployed, NEW s \in Shards, SweepScan(m, s) \/ RescheduleOne(m, s)
      PROVE  VerdictInv'
  <2>1. /\ UNCHANGED <<deployed, status, rep, checks, decided, after>>
        /\ Failing' \subseteq Failing
    BY <1>7 DEF SweepScan, RescheduleOne, Failing, ChecksTypeOK
  <2>. QED
    BY <1>a, <2>1
<1>8. ASSUME NEW s \in Shards, Claim(s) \/ Preempt(s) \/ Finish(s) PROVE VerdictInv'
  <2>1. UNCHANGED <<deployed, status, rep, checks, decided>>
    BY <1>8 DEF Claim, Preempt, Finish
  <2>2. Failing' \subseteq Failing \cup {s}
    BY <1>8 DEF Claim, Preempt, Finish, Failing, ChecksTypeOK
  <2>3. \/ Failing' \subseteq Failing /\ after' = after
        \/ (decided \/ LockTaken) => after' = after \cup {s}
    BY <1>8 DEF Claim, Preempt, Finish, Failing, ChecksTypeOK
  <2>. QED
    BY <1>a, <2>1, <2>2, <2>3
<1>9. CASE StartFinalizing \/ Cancel \/ EnforceBudget
  <2>1. /\ UNCHANGED <<deployed, shard, rep, checks, decided, after>>
        /\ status \notin {"finalizing", "succeeded", "failed"}
        /\ status' # "succeeded"
    BY <1>9 DEF StartFinalizing, Cancel, EnforceBudget, rows
  <2>2. \A m \in deployed : /\ rep[m].pc # "verdict" /\ rep[m].scanned # "finalizing"
                            /\ ~ (rep[m].pc = "update" /\ isTerminal(rep[m].status))
    BY <2>1 DEF VerdictInv, isTerminal
  <2>. QED
    BY <2>1, <2>2 DEF VerdictInv, isTerminal
<1>10. ASSUME NEW m \in deployed, ReadSnapshot(m) PROVE VerdictInv'
  <2>. DEFINE r == [Idle EXCEPT !.pc = IF checkId = 0 THEN "create" ELSE "update",
                                !.status = status, !.id = checkId]
  <2>1. /\ r.pc = IF checkId = 0 THEN "create" ELSE "update"
        /\ r.status = status /\ r.id = checkId /\ r.scanned = ""
    BY DEF Idle
  <2>2. /\ rep' = [rep EXCEPT ![m] = r] \/ rep' = [rep EXCEPT ![m] = Idle]
        /\ UNCHANGED <<deployed, status, shard, checks, decided, after>>
    BY <1>10 DEF ReadSnapshot, rows
  <2>3. checkId \in 0..Len(checks)
    BY DEF ChecksTypeOK
  <2>. HIDE DEF r
  <2>4. Len(checks') \in Nat /\ Len(checks) <= Len(checks')
    BY <1>l, <2>2
  <2>5. r.pc # "verdict" /\ (r.pc = "update" => r.id \in 1..Len(checks')) /\ r.pc # "persist"
    <3>1. checks' = checks /\ r.id = checkId /\ (r.pc = "update" => checkId # 0)
          /\ r.pc \in {"create", "update"}
      BY <2>1, <2>2
    <3>. QED
      BY <1>l, <2>3, <3>1
  <2>. QED
    BY <1>0, <1>i, <2>1, <2>2, <2>4, <2>5
<1>11. ASSUME NEW m \in deployed, Create(m) PROVE VerdictInv'
  <2>. DEFINE r == [Idle EXCEPT !.pc = "persist", !.id = Len(checks) + 1]
              new == [status |-> "in_progress", conclusion |-> "", report |-> NoReport]
  <2>1. r.pc = "persist" /\ r.id = Len(checks) + 1 /\ r.scanned = ""
    BY DEF Idle
  <2>2. /\ \/ rep' = [rep EXCEPT ![m] = r] /\ checks' = Append(checks, new)
           \/ /\ rep' = [rep EXCEPT ![m] = Idle]
              /\ checks' = checks \/ checks' = Append(checks, new)
        /\ UNCHANGED <<deployed, status, shard, decided, after>>
    BY <1>11 DEF Create, rows
  <2>. HIDE DEF r, new
  <2>3. Len(Append(checks, new)) = Len(checks) + 1
    BY DEF ChecksTypeOK
  <2>4. Len(checks') \in Nat /\ Len(checks) <= Len(checks')
    BY <1>l, <2>2, <2>3
  <2>5. CASE rep' = [rep EXCEPT ![m] = r] /\ checks' = Append(checks, new)
    <3>1. r.id \in 1..Len(checks')
      <4>1. r.id = Len(checks) + 1 /\ Len(checks') = Len(checks) + 1
        BY <2>1, <2>3, <2>5
      <4>. QED
        BY <1>l, <4>1
    <3>. QED
      BY <1>0, <2>1, <2>2, <2>4, <2>5, <3>1
  <2>6. CASE rep' = [rep EXCEPT ![m] = Idle]
    BY <1>0, <1>i, <2>2, <2>4, <2>6
  <2>. QED
    BY <2>2, <2>5, <2>6
<1>12. ASSUME NEW m \in deployed, Persist(m) \/ Update(m) PROVE VerdictInv'
  <2>1. /\ rep' = [rep EXCEPT ![m] = Idle]
        /\ UNCHANGED <<deployed, status, shard, decided, after>>
        /\ \/ checks' = checks
           \/ \E c : checks' = [checks EXCEPT ![rep[m].id] = c]
    BY <1>12 DEF Persist, Update, rows
  <2>2. Len(checks') = Len(checks)
    BY <2>1 DEF ChecksTypeOK
  <2>3. Len(checks') \in Nat /\ Len(checks) <= Len(checks')
    BY <1>l, <2>2
  <2>. QED
    BY <1>0, <1>i, <2>1, <2>3
<1>. QED
  BY <1>1, <1>2, <1>3, <1>4, <1>5, <1>6, <1>7, <1>8, <1>9, <1>10, <1>11, <1>12, CheckCases

\* A check run is completed with what the row says, and the row says it for good;
\* the failures it reports of a success were written after finalize read the shards.
LEMMA CompletedStep ==
    ASSUME ChecksTypeOK, VerdictInv, CompletedIsTrue, [ChecksNext]_checksVars, ChecksTypeOK'
    PROVE  CompletedIsTrue'
<1>. DEFINE True(c, st, n) == c.status = "completed" =>
                /\ st = IF c.conclusion = "success" THEN "succeeded" ELSE "failed"
                /\ c.conclusion = "success" => c.report.failed <= n
            N == Cardinality(after)
<1>0. /\ \A i \in DOMAIN checks : True(checks[i], status, N)
      /\ (\A i \in DOMAIN checks' : True(checks'[i], status', N')) => CompletedIsTrue'
  BY DEF CompletedIsTrue
<1>n. /\ N \in Nat /\ N' \in Nat /\ checks \in Seq(CheckStates)
      /\ after \subseteq after' => N <= N'
  BY AfterGrows DEF ChecksTypeOK
<1>c. \A i \in DOMAIN checks : checks[i].report.failed \in Nat
  <2>1. \A i \in DOMAIN checks : checks[i] \in CheckStates
    BY <1>n
  <2>. QED
    BY <2>1 DEF CheckStates
<1>. HIDE DEF N
<1>1. ASSUME status = "succeeded" => after \subseteq after',
             status' # status => status \notin {"succeeded", "failed"}
      PROVE  \A i \in DOMAIN checks : True(checks[i], status', N')
  BY <1>0, <1>1, <1>n, <1>c
<1>. HIDE DEF True
<1>2. ASSUME checks' = checks, status = "succeeded" => after \subseteq after',
             status' # status => status \notin {"succeeded", "failed"}
      PROVE  CompletedIsTrue'
  BY <1>0, <1>1, <1>2
<1>3. CASE UNCHANGED checksVars
  BY <1>2, <1>3 DEF checksVars
<1>4. ASSUME NEW m \in deployed,
             \/ Scan(m) \/ HandleFails(m) \/ Crash(m) \/ ReadSnapshot(m) \/ Persist(m)
             \/ ReadVerdict(m)
      PROVE  CompletedIsTrue'
  BY <1>2, <1>4 DEF Scan, HandleFails, Crash, ReadSnapshot, Persist, ReadVerdict
<1>5. ASSUME NEW s \in Shards,
             \/ Claim(s) \/ Preempt(s) \/ Finish(s)
             \/ \E m \in deployed : SweepScan(m, s) \/ RescheduleOne(m, s)
      PROVE  CompletedIsTrue'
  BY <1>2, <1>5 DEF Claim, Preempt, Finish, SweepScan, RescheduleOne
<1>6. CASE StartFinalizing \/ Cancel \/ EnforceBudget
  BY <1>2, <1>6 DEF StartFinalizing, Cancel, EnforceBudget
<1>7. ASSUME NEW m \in deployed, TryHandle(m) \/ CommitVerdict(m) PROVE CompletedIsTrue'
  <2>1. /\ checks' = checks /\ after' = after
        /\ status' # status => status \notin {"succeeded", "failed"}
    BY <1>7 DEF TryHandle, Plan, CommitVerdict, Ended
  <2>. QED
    BY <1>2, <2>1
<1>8. ASSUME NEW m \in deployed, Create(m) PROVE CompletedIsTrue'
  <2>. DEFINE new == [status |-> "in_progress", conclusion |-> "", report |-> NoReport]
  <2>1. new.status = "in_progress"
    OBVIOUS
  <2>2. /\ status' = status /\ after' = after
        /\ checks' = checks \/ checks' = Append(checks, new)
    BY <1>8 DEF Create
  <2>. HIDE DEF new
  <2>3. True(new, status', N')
    BY <2>1 DEF True
  <2>4. CASE checks' = Append(checks, new)
    <3>1. \A i \in DOMAIN checks' :
            checks'[i] = new \/ (i \in DOMAIN checks /\ checks'[i] = checks[i])
      BY <2>4 DEF ChecksTypeOK
    <3>. QED
      BY <1>0, <1>1, <2>2, <2>3, <3>1
  <2>. QED
    BY <1>2, <2>2, <2>4
<1>9. ASSUME NEW m \in deployed, Update(m) PROVE CompletedIsTrue'
  <2>1. PICK counts \in {shardCounts, NoReport} :
          \/ checks' = checks
          \/ checks' = [checks EXCEPT ![rep[m].id] = Updated(rep[m].status, counts)]
    BY <1>9 DEF Update
  <2>. DEFINE new == Updated(rep[m].status, counts)
  <2>2. status' = status /\ after' = after /\ rep[m].pc = "update"
    BY <1>9 DEF Update
  <2>3. True(new, status', N')
    <3>1. CASE ~ isTerminal(rep[m].status)
      BY <3>1 DEF Updated, True
    <3>2. CASE isTerminal(rep[m].status)
      <4>1. status = rep[m].status /\ status \in {"succeeded", "failed"}
        BY <2>2, <3>2 DEF VerdictInv, isTerminal
      <4>2. status = "succeeded" => counts.failed <= N
        <5>1. {s \in Shards : shard[s] \in {"failed"}} \subseteq Failing
          BY DEF Failing
        <5>2. ASSUME status = "succeeded"
              PROVE  Cardinality({s \in Shards : shard[s] \in {"failed"}}) <= N
          <6>1. {s \in Shards : shard[s] \in {"failed"}} \subseteq after
            BY <5>1, <5>2 DEF VerdictInv
          <6>. QED
            BY <6>1, AfterGrows DEF N, ChecksTypeOK
        <5>. QED
          BY <1>n, <2>1, <5>2, CountsType
      <4>3. /\ new.conclusion = IF status = "failed" THEN "failure" ELSE "success"
            /\ new.report = counts
        BY <3>2, <4>1 DEF Updated, Conclusion
      <4>4. N' = N
        BY <2>2 DEF N
      <4>. QED
        BY <2>2, <4>1, <4>2, <4>3, <4>4 DEF True
    <3>. QED
      BY <3>1, <3>2
  <2>. HIDE DEF new
  <2>4. CASE checks' = [checks EXCEPT ![rep[m].id] = new]
    <3>1. \A i \in DOMAIN checks' :
            i \in DOMAIN checks /\ (checks'[i] = new \/ checks'[i] = checks[i])
      BY <2>4
    <3>. QED
      BY <1>0, <1>1, <2>2, <2>3, <3>1
  <2>. QED
    BY <1>2, <2>1, <2>2, <2>4 DEF new
<1>. QED
  BY <1>3, <1>4, <1>5, <1>6, <1>7, <1>8, <1>9, CheckCases

\* Each step adds a check run only with a fault, with a replica that is about to
\* store its id, or at the expense of one that was about to create.
LEMMA CreateStep ==
    ASSUME ChecksTypeOK, VerdictInv, CreateInv, [ChecksNext]_checksVars
    PROVE  CreateInv'
<1>. DEFINE P == Cardinality(At("persist"))
            C == Cardinality(At("create"))
            D == Cardinality(deployed)
            Few(n, f, id, inPersist, inCreate) ==
                IF id = 0 THEN n <= f + inPersist ELSE n + inCreate <= f + D
<1>0. /\ P \in Nat /\ C \in Nat /\ D \in Nat /\ P + C <= D
      /\ Len(checks) \in Nat /\ faults \in Nat /\ checkId \in Nat
  <2>1. P \in Nat /\ C \in Nat /\ D \in Nat
    BY AtFinite
  <2>2. P + C <= D
    BY AtTwoPoints
  <2>. QED
    BY <2>1, <2>2 DEF ChecksTypeOK
<1>1. /\ Few(Len(checks), faults, checkId, P, C)
      /\ deployed' = deployed /\ Few(Len(checks'), faults', checkId', P', C') => CreateInv'
  BY DEF CreateInv
<1>i. Idle.pc = "idle"
  BY DEF Idle
<1>d. deployed' = deployed
  BY CheckCases
     DEF checksVars, Scan, TryHandle, ReadVerdict, CommitVerdict, HandleFails, SweepScan,
         RescheduleOne, ReadSnapshot, Create, Persist, Update, Crash, Claim, Preempt,
         Finish, StartFinalizing, Cancel, EnforceBudget
<1>2. ASSUME NEW m \in deployed, NEW r, rep' = [rep EXCEPT ![m] = r]
      PROVE  /\ P' = IF rep[m].pc = "persist" THEN (IF r.pc = "persist" THEN P ELSE P - 1)
                      ELSE (IF r.pc = "persist" THEN P + 1 ELSE P)
             /\ C' = IF rep[m].pc = "create" THEN (IF r.pc = "create" THEN C ELSE C - 1)
                      ELSE (IF r.pc = "create" THEN C + 1 ELSE C)
  BY <1>2, <1>d, ReplicaMoves, ZenonT(60)
<1>3. ASSUME rep' = rep PROVE P' = P /\ C' = C
  BY <1>3, <1>d DEF At
<1>. HIDE DEF P, C, D
<1>4. CASE \/ UNCHANGED checksVars \/ StartFinalizing \/ Cancel \/ EnforceBudget
           \/ \E s \in Shards : Claim(s) \/ Preempt(s) \/ Finish(s)
           \/ \E m \in deployed, s \in Shards : SweepScan(m, s) \/ RescheduleOne(m, s)
  <2>1. UNCHANGED <<rep, checks, checkId, faults>>
    BY <1>4 DEF checksVars, StartFinalizing, Cancel, EnforceBudget, Claim, Preempt, Finish,
                SweepScan, RescheduleOne
  <2>. QED
    BY <1>1, <1>3, <1>d, <2>1
<1>5. ASSUME NEW m \in deployed,
             Scan(m) \/ TryHandle(m) \/ ReadVerdict(m) \/ CommitVerdict(m)
      PROVE  CreateInv'
  <2>1. PICK r : /\ rep' = [rep EXCEPT ![m] = r]
                 /\ r.pc \in {"handle", "verdict", "snapshot", "idle"}
                 /\ rep[m].pc \in {"idle", "handle", "verdict"}
    <3>1. /\ [Idle EXCEPT !.pc = "handle", !.scanned = status].pc = "handle"
          /\ [Idle EXCEPT !.pc = "snapshot"].pc = "snapshot"
          /\ [Idle EXCEPT !.pc = "verdict", !.status = Verdict].pc = "verdict"
      BY DEF Idle
    <3>. QED
      BY <1>5, <1>i, <3>1 DEF Scan, TryHandle, ReadVerdict, CommitVerdict
  <2>2. UNCHANGED <<checks, checkId, faults>>
    BY <1>5 DEF Scan, TryHandle, ReadVerdict, CommitVerdict
  <2>3. P' = P /\ C' = C
    BY <1>2, <2>1
  <2>. QED
    BY <1>1, <1>d, <2>2, <2>3
<1>6. ASSUME NEW m \in deployed, HandleFails(m) \/ Crash(m) PROVE CreateInv'
  <2>1. /\ rep' = [rep EXCEPT ![m] = Idle] /\ UNCHANGED <<checks, checkId>>
        /\ faults' = faults + 1 \/ (faults' = faults /\ rep[m].pc = "handle")
    BY <1>6 DEF HandleFails, Crash, Fault
  <2>2. P' \in {P, P - 1} /\ C' \in {C, C - 1} /\ (rep[m].pc = "handle" => P' = P /\ C' = C)
    BY <1>2, <1>i, <2>1
  <2>. QED
    BY <1>0, <1>1, <1>d, <2>1, <2>2
<1>7. ASSUME NEW m \in deployed, ReadSnapshot(m) PROVE CreateInv'
  <2>1. PICK r : /\ rep' = [rep EXCEPT ![m] = r] /\ rep[m].pc = "snapshot"
                 /\ r.pc \in {"idle", "update"} \/ (r.pc = "create" /\ checkId = 0)
    <3>1. [Idle EXCEPT !.pc = IF checkId = 0 THEN "create" ELSE "update",
                       !.status = status, !.id = checkId].pc =
            IF checkId = 0 THEN "create" ELSE "update"
      BY DEF Idle
    <3>. QED
      BY <1>7, <1>i, <3>1 DEF ReadSnapshot
  <2>2. UNCHANGED <<checks, checkId>> /\ faults' \in {faults, faults + 1}
    BY <1>7 DEF ReadSnapshot, Fault
  <2>3. P' = P /\ (checkId # 0 => C' = C)
    BY <1>2, <2>1
  <2>. QED
    BY <1>0, <1>1, <1>d, <2>2, <2>3
<1>8. ASSUME NEW m \in deployed, Create(m) PROVE CreateInv'
  <2>. DEFINE new == [status |-> "in_progress", conclusion |-> "", report |-> NoReport]
              r == [Idle EXCEPT !.pc = "persist", !.id = Len(checks) + 1]
  <2>1. /\ rep[m].pc = "create" /\ checkId' = checkId
        /\ \/ /\ checks' = Append(checks, new) /\ rep' = [rep EXCEPT ![m] = r]
              /\ faults' = faults
           \/ /\ faults' = faults + 1 /\ rep' = [rep EXCEPT ![m] = Idle]
              /\ checks' = checks \/ checks' = Append(checks, new)
    BY <1>8 DEF Create, Fault
  <2>2. r.pc = "persist"
    BY DEF Idle
  <2>. HIDE DEF new, r
  <2>3. Len(Append(checks, new)) = Len(checks) + 1
    BY DEF ChecksTypeOK
  <2>4. CASE rep' = [rep EXCEPT ![m] = r] /\ checks' = Append(checks, new) /\ faults' = faults
    <3>1. P' = P + 1 /\ C' = C - 1
      BY <1>2, <2>1, <2>2, <2>4
    <3>. QED
      BY <1>0, <1>1, <1>d, <2>1, <2>3, <2>4, <3>1
  <2>5. CASE rep' = [rep EXCEPT ![m] = Idle] /\ faults' = faults + 1
    <3>1. P' = P /\ C' = C - 1
      BY <1>2, <1>i, <2>1, <2>5
    <3>. QED
      BY <1>0, <1>1, <1>d, <2>1, <2>3, <2>5, <3>1
  <2>. QED
    BY <2>1, <2>4, <2>5
<1>9. ASSUME NEW m \in deployed, Persist(m) PROVE CreateInv'
  <2>1. /\ rep[m].pc = "persist" /\ rep' = [rep EXCEPT ![m] = Idle] /\ checks' = checks
        /\ \/ checkId' = rep[m].id /\ faults' = faults
           \/ checkId' = checkId /\ faults' = faults + 1
    BY <1>9 DEF Persist, Fault
  <2>2. rep[m].id # 0
    BY <2>1 DEF VerdictInv, ChecksTypeOK
  <2>3. P' = P - 1 /\ C' = C
    BY <1>2, <1>i, <2>1
  <2>. QED
    BY <1>0, <1>1, <1>d, <2>1, <2>2, <2>3
<1>10. ASSUME NEW m \in deployed, Update(m) PROVE CreateInv'
  <2>1. /\ rep[m].pc = "update" /\ rep' = [rep EXCEPT ![m] = Idle] /\ checkId' = checkId
        /\ \/ checks' = checks
           \/ \E c : checks' = [checks EXCEPT ![rep[m].id] = c]
        /\ faults' \in {faults, faults + 1}
    BY <1>10 DEF Update, Fault
  <2>2. Len(checks') = Len(checks)
    BY <2>1 DEF ChecksTypeOK
  <2>3. P' = P /\ C' = C
    BY <1>2, <1>i, <2>1
  <2>. QED
    BY <1>0, <1>1, <1>d, <2>1, <2>2, <2>3
<1>. QED
  BY <1>4, <1>5, <1>6, <1>7, <1>8, <1>9, <1>10, CheckCases

\* A run starts without a check run.
LEMMA CheckInit == ASSUME ChecksInit PROVE CheckRunsInv
<1>1. Idle \in RepStates /\ Idle.pc = "idle"
  BY DEF Idle, RepStates
<1>2. checks = <<>> /\ <<>> \in Seq(CheckStates) /\ Len(<<>>) = 0 /\ DOMAIN <<>> = {}
  BY DEF ChecksInit
<1>3. ChecksTypeOK
  <2>1. checks \in Seq(CheckStates) /\ checkId \in 0..Len(checks)
    BY <1>2 DEF ChecksInit
  <2>2. faults \in 0..FaultLimit
    BY CheckRunsAssumption DEF ChecksInit
  <2>3. deployed \in SUBSET Replicas /\ status \in RunStatuses /\ decided \in BOOLEAN
    BY DEF ChecksInit, RunStatuses, Scannable
  <2>4. /\ shard \in [Shards -> ShardStatuses \cup {"none"}]
        /\ rep \in [Replicas -> RepStates]
        /\ draining \in SUBSET Shards /\ marked \in SUBSET Shards /\ after \in SUBSET Shards
        /\ sweep \in [Replicas -> SUBSET Shards]
    BY <1>1 DEF ChecksInit
  <2>. QED
    BY <2>1, <2>2, <2>3, <2>4 DEF ChecksTypeOK
<1>4. VerdictInv /\ CompletedIsTrue
  <2>1. \A m \in deployed : rep[m].pc = "idle" /\ rep[m].scanned = ""
    BY <1>3 DEF ChecksInit, ChecksTypeOK, Idle
  <2>. QED
    BY <1>2, <2>1 DEF ChecksInit, VerdictInv, CompletedIsTrue
<1>5. CreateInv
  <2>1. Cardinality(At("persist")) \in Nat
    BY <1>3, AtFinite
  <2>. QED
    BY <1>2, <2>1 DEF ChecksInit, CreateInv
<1>. QED
  BY <1>3, <1>4, <1>5 DEF CheckRunsInv

\* Replicas, workers, users and GitHub keep the row, the shards and the check runs
\* in agreement (tryHandle, notifyObservers, OnRunStateChanged).
THEOREM CheckRunsInvariant == ChecksSpec => []CheckRunsInv
<1>1. ChecksInit => CheckRunsInv
  BY CheckInit
<1>2. CheckRunsInv /\ [ChecksNext]_checksVars => CheckRunsInv'
  BY CheckTypeStep, VerdictStep, CompletedStep, CreateStep DEF CheckRunsInv
<1>. QED
  BY <1>1, <1>2, PTL DEF ChecksSpec

\* The row, the shards, the replicas and the check runs keep their types, the
\* counts of a report included.
THEOREM ChecksTypeCorrect == ChecksSpec => []ChecksTypeOK
BY CheckRunsInvariant, PTL DEF CheckRunsInv

\* A completed check run says what the row of the run says, and "success" reports
\* failed shards only if they were written after finalize read the shards, for any
\* number of replicas, shards, replays and faults.
THEOREM CompletedChecksAreTrue == ChecksSpec => []CompletedIsTrue
<1>1. CheckRunsInv => CompletedIsTrue
  BY DEF CheckRunsInv
<1>. QED
  BY <1>1, CheckRunsInvariant, PTL

\* A run has at most one check run per replica and one more per fault, however many
\* replicas race to create the first.
THEOREM ChecksAreFew == ChecksSpec => []FewCheckRuns
<1>1. CheckRunsInv => FewCheckRuns
  <2>. SUFFICES ASSUME CheckRunsInv PROVE FewCheckRuns
    OBVIOUS
  <2>1. /\ Cardinality(At("persist")) \in Nat /\ Cardinality(At("create")) \in Nat
        /\ Cardinality(At("persist")) <= Cardinality(deployed)
        /\ Cardinality(deployed) \in Nat
    BY AtFinite DEF CheckRunsInv
  <2>2. Len(checks) \in Nat /\ faults \in Nat /\ CreateInv
    BY DEF CheckRunsInv, ChecksTypeOK
  <2>. QED
    BY <2>1, <2>2 DEF CreateInv, FewCheckRuns
<1>. QED
  BY <1>1, CheckRunsInvariant, PTL
=============================================================================
