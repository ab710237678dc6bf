--------------------------- MODULE SubscriptionHub ---------------------------
(***************************************************************************)
(* Live updates of one run over a WebSocket session of the API             *)
(* (internal/api/subscriptions.go, graphql_ws.go).  An operation of the    *)
(* client subscribes to the hub; the hub keeps a fan-out with a loop       *)
(* goroutine while there are subscribers, re-reads the row on hints and    *)
(* ticks, and closes the channels when the run has ended.                  *)
(*                                                                         *)
(* Runs do not interact in the hub, so there is one.  A fan-out is named   *)
(* after the subscriber that created it.  A snapshot is the version of the *)
(* row (its committed changes are counted) and the status.                 *)
(***************************************************************************)
EXTENDS Naturals, FiniteSets

CONSTANTS
    Subs,        \* operations of the client, each with its channel
    NoSub,       \* h.runs has no fan-out
    Outcomes,    \* final statuses the run may reach
    MaxVersion   \* bound: committed changes of the row

ASSUME NoSubAssumption == NoSub \notin Subs
ASSUME SubsAssumption == IsFiniteSet(Subs)
ASSUME OutcomesAssumption == Outcomes \subseteq {"succeeded", "failed", "cancelled"}
ASSUME HubBoundsAssumption == MaxVersion \in Nat

VARIABLES
    row,        \* the row of the run: version and status
    current,    \* h.runs[run]: the fan-out, NoSub if there is none
    subs,       \* runFanout.subs
    cancelled,  \* runFanout.ctx is done
    loop,       \* control state of a fan-out's loop goroutine
    loopSnap,   \* snapshot the loop has read
    channel,    \* subscriber.ch: not made, open or closed
    buffer,     \* its one slot
    hub,        \* progress of an operation's Subscribe and its goroutine
    firstSnap,  \* the initial snapshot Subscribe has read
    op,         \* progress of an operation's goroutine in the session
    ctxDone,    \* its context is cancelled
    received    \* last snapshot the client of an open operation was sent

hubVars  == <<current, subs, cancelled, loop, loopSnap>>
chanVars == <<channel, buffer>>
wsVars   == <<op, ctxDone, received>>
vars     == <<row, hubVars, chanVars, hub, firstSnap, wsVars>>

\* The final statuses as the row spells them.
Endings  == {"succeeded", "failed", "cancelled"}
Statuses == {"running"} \cup Endings

NoSnap == [ver |-> 0, status |-> "none"]

Snapshots == [ver : Nat, status : Statuses] \cup {NoSnap}

TypeOK ==
    /\ row \in [ver : Nat, status : Statuses]
    /\ current \in Subs \cup {NoSub}
    /\ subs \in [Subs -> SUBSET Subs]
    /\ cancelled \in [Subs -> BOOLEAN]
    /\ loop \in [Subs -> {"none", "waiting", "read", "fanned", "exited"}]
    /\ loopSnap \in [Subs -> Snapshots]
    /\ channel \in [Subs -> {"none", "open", "closed"}]
    /\ buffer \in [Subs -> Snapshots]
    /\ hub \in [Subs -> {"idle", "called", "registered", "send", "drop",
                         "resend", "watch", "left", "panicked"}]
    /\ firstSnap \in [Subs -> Snapshots]
    /\ op \in [Subs -> {"new", "pumping", "done"}]
    /\ ctxDone \in [Subs -> BOOLEAN]
    /\ received \in [Subs -> Snapshots]

Init ==
    /\ row = [ver |-> 1, status |-> "running"]
    /\ current = NoSub
    /\ subs = [f \in Subs |-> {}]
    /\ cancelled = [f \in Subs |-> FALSE]
    /\ loop = [f \in Subs |-> "none"]
    /\ loopSnap = [f \in Subs |-> NoSnap]
    /\ channel = [s \in Subs |-> "none"]
    /\ buffer = [s \in Subs |-> NoSnap]
    /\ hub = [s \in Subs |-> "idle"]
    /\ firstSnap = [s \in Subs |-> NoSnap]
    /\ op = [s \in Subs |-> "new"]
    /\ ctxDone = [s \in Subs |-> FALSE]
    /\ received = [s \in Subs |-> NoSnap]

-----------------------------------------------------------------------------
(* The run.                                                                *)

\* A change of the run or of its shards is committed.
RowChanges ==
    /\ row.status = "running"
    /\ row.ver < MaxVersion
    /\ \E st \in {"running"} \cup Outcomes :
          row' = [ver |-> row.ver + 1, status |-> st]
    /\ UNCHANGED <<hubVars, chanVars, hub, firstSnap, wsVars>>

\* Seeded fault: a case is missing.
isTerminalIfFailed(st) == st \in {"failed", "canceled"}

\* Status values on which the hub ends a subscription: internal/model's.
isTerminalRunStatus(st) == st \in {"succeeded", "failed", "canceled"}

\* runSnapshotWithShards: the run and its shards as they are now.
Snapshot == row

-----------------------------------------------------------------------------
(* The loop goroutine of a fan-out.                                        *)

LoopExits(f) ==
    /\ loop[f] = "waiting"
    /\ cancelled[f]
    /\ loop' = [loop EXCEPT ![f] = "exited"]
    /\ UNCHANGED <<row, current, subs, cancelled, loopSnap, chanVars,
                   hub, firstSnap, wsVars>>

\* A hint (onHint, poke) or a tick wakes the loop and it reads the row.  As
\* the ticker never stops, hints add no behaviour but an earlier read.
LoopReads(f) ==
    /\ loop[f] = "waiting"
    /\ ~cancelled[f]
    /\ loopSnap' = [loopSnap EXCEPT ![f] = Snapshot]
    /\ loop' = [loop EXCEPT ![f] = "read"]
    /\ UNCHANGED <<row, current, subs, cancelled, chanVars,
                   hub, firstSnap, wsVars>>

\* Seeded fault: an error ends the loop.
LoopReadFailsForGood(f) ==
    /\ loop[f] = "waiting"
    /\ loop' = [loop EXCEPT ![f] = "exited"]
    /\ UNCHANGED <<row, current, subs, cancelled, loopSnap, chanVars,
                   hub, firstSnap, wsVars>>

\* The read fails; the loop waits for the next hint or tick.
LoopReadFails(f) ==
    /\ loop[f] = "waiting"
    /\ UNCHANGED vars

\* The subscribers the hub knows, whichever loop asks.
Members == IF current = NoSub THEN {} ELSE subs[current]

\* fanout: under the lock, trySend to every subscriber of the run's CURRENT
\* fan-out.  The send replaces what the slot holds.
Fanout(f) ==
    /\ loop[f] = "read"
    /\ buffer' = [s \in Subs |-> IF s \in Members THEN loopSnap[f] ELSE buffer[s]]
    /\ loop' = [loop EXCEPT ![f] =
           IF isTerminalRunStatus(loopSnap[f].status) THEN "fanned" ELSE "waiting"]
    /\ loopSnap' = [loopSnap EXCEPT ![f] = NoSnap]
    /\ UNCHANGED <<row, current, subs, cancelled, channel,
                   hub, firstSnap, wsVars>>

\* closeRun: close the channels of the current fan-out and forget it.
CloseRun(f) ==
    /\ loop[f] = "fanned"
    /\ channel' = [s \in Subs |-> IF s \in Members THEN "closed" ELSE channel[s]]
    /\ cancelled' = [g \in Subs |-> g = current \/ cancelled[g]]
    /\ current' = NoSub
    /\ loop' = [loop EXCEPT ![f] = "exited"]
    /\ UNCHANGED <<row, subs, loopSnap, buffer,
                   hub, firstSnap, wsVars>>

-----------------------------------------------------------------------------
(* Subscribe, and the goroutine it leaves behind.                          *)

\* Register with the run's fan-out, which is made if there is none.
Register(s) ==
    LET f == IF current = NoSub THEN s ELSE current IN
    /\ hub[s] = "called"
    /\ channel' = [channel EXCEPT ![s] = "open"]
    /\ current' = f
    /\ subs' = [subs EXCEPT ![f] = @ \cup {s}]
    /\ loop' = IF current = NoSub THEN [loop EXCEPT ![s] = "waiting"] ELSE loop
    /\ hub' = [hub EXCEPT ![s] = "registered"]
    /\ UNCHANGED <<row, cancelled, loopSnap, buffer,
                   firstSnap, wsVars>>

\* Read the initial snapshot, outside the lock,
ReadFirst(s) ==
    /\ hub[s] = "registered"
    /\ ~ctxDone[s]
    /\ firstSnap' = [firstSnap EXCEPT ![s] = Snapshot]
    /\ hub' = [hub EXCEPT ![s] = "send"]
    /\ UNCHANGED <<row, hubVars, chanVars, wsVars>>

\* or go without it.
ReadFirstFails(s) ==
    /\ hub[s] = "registered"
    /\ hub' = [hub EXCEPT ![s] = "watch"]
    /\ UNCHANGED <<row, hubVars, chanVars, firstSnap, wsVars>>

\* trySend of the initial snapshot, select by select: send, and if the slot
\* is taken empty it and send again.
SendFirst(s) ==
    /\ hub[s] \in {"send", "resend"}
    /\ channel[s] = "open"
    /\ buffer[s] = NoSnap
    /\ buffer' = [buffer EXCEPT ![s] = firstSnap[s]]
    /\ firstSnap' = [firstSnap EXCEPT ![s] = NoSnap]
    /\ hub' = [hub EXCEPT ![s] = "watch"]
    /\ UNCHANGED <<row, hubVars, channel, wsVars>>

SendFirstFull(s) ==
    /\ hub[s] \in {"send", "resend"}
    /\ channel[s] = "open"
    /\ buffer[s] # NoSnap
    /\ \/ /\ hub[s] = "send"
          /\ hub' = [hub EXCEPT ![s] = "drop"]
          /\ UNCHANGED firstSnap
       \/ /\ hub[s] = "resend"
          /\ hub' = [hub EXCEPT ![s] = "watch"]
          /\ firstSnap' = [firstSnap EXCEPT ![s] = NoSnap]
    /\ UNCHANGED <<row, hubVars, chanVars, wsVars>>

\* closeRun was first: a send to a closed channel panics.
SendFirstPanics(s) ==
    /\ hub[s] \in {"send", "resend"}
    /\ channel[s] = "closed"
    /\ hub' = [hub EXCEPT ![s] = "panicked"]
    /\ firstSnap' = [firstSnap EXCEPT ![s] = NoSnap]
    /\ UNCHANGED <<row, hubVars, chanVars, wsVars>>

DropOldest(s) ==
    /\ hub[s] = "drop"
    /\ buffer' = [buffer EXCEPT ![s] = NoSnap]
    /\ hub' = [hub EXCEPT ![s] = "resend"]
    /\ UNCHANGED <<row, hubVars, channel, firstSnap, wsVars>>

\* Seeded fault: the last subscriber leaves and the loop goes on.
UnsubscribeKeepsLoop(s) ==
    /\ hub[s] = "watch"
    /\ ctxDone[s]
    /\ hub' = [hub EXCEPT ![s] = "left"]
    /\ IF s \in Members
       THEN /\ subs' = [subs EXCEPT ![current] = @ \ {s}]
            /\ channel' = [channel EXCEPT ![s] = "closed"]
            /\ current' = IF Members = {s} THEN NoSub ELSE current
       ELSE UNCHANGED <<subs, channel, current>>
    /\ UNCHANGED <<row, cancelled, loop, loopSnap, buffer,
                   firstSnap, wsVars>>

\* Seeded fault: one subscriber leaves and all are closed.
UnsubscribeClosesAll(s) ==
    /\ hub[s] = "watch"
    /\ ctxDone[s]
    /\ hub' = [hub EXCEPT ![s] = "left"]
    /\ channel' = [u \in Subs |-> IF u \in Members THEN "closed" ELSE channel[u]]
    /\ cancelled' = [g \in Subs |-> g = current \/ cancelled[g]]
    /\ current' = NoSub
    /\ UNCHANGED <<row, subs, loop, loopSnap, buffer, firstSnap, wsVars>>

\* unsubscribe: close the channel if the hub still knows the subscriber; the
\* last one takes the fan-out with it.
Unsubscribe(s) ==
    /\ hub[s] = "watch"
    /\ ctxDone[s]
    /\ hub' = [hub EXCEPT ![s] = "left"]
    /\ IF s \in Members
       THEN /\ subs' = [subs EXCEPT ![current] = @ \ {s}]
            /\ channel' = [channel EXCEPT ![s] = "closed"]
            /\ current' = IF Members = {s} THEN NoSub ELSE current
            /\ cancelled' = [g \in Subs |->
                   (g = current /\ Members = {s}) \/ cancelled[g]]
       ELSE UNCHANGED <<subs, channel, current, cancelled>>
    /\ UNCHANGED <<row, loop, loopSnap, buffer,
                   firstSnap, wsVars>>

-----------------------------------------------------------------------------
(* The operation of the session (startOp) that reads the channel.          *)

StartOp(s) ==
    /\ op[s] = "new"
    /\ op' = [op EXCEPT ![s] = "pumping"]
    /\ hub' = [hub EXCEPT ![s] = "called"]
    /\ UNCHANGED <<row, hubVars, chanVars, firstSnap, ctxDone, received>>

\* The client completes the operation or goes away: stopOp or cancelAll
\* cancel its context.
StopOp(s) ==
    /\ op[s] = "pumping"
    /\ ~ctxDone[s]
    /\ ctxDone' = [ctxDone EXCEPT ![s] = TRUE]
    /\ UNCHANGED <<row, hubVars, chanVars, hub, firstSnap, op, received>>

\* Subscribe has returned the channel, which is now read.
Reading(s) == op[s] = "pumping" /\ hub[s] \in {"watch", "left"}

\* A snapshot goes from the channel to the client.
Push(s) ==
    /\ Reading(s)
    /\ buffer[s] # NoSnap
    /\ received' = [received EXCEPT ![s] = buffer[s]]
    /\ buffer' = [buffer EXCEPT ![s] = NoSnap]
    /\ UNCHANGED <<row, hubVars, channel, hub, firstSnap, op, ctxDone>>

\* The channel is closed and empty: the stream is over.
StreamEnds(s) == Reading(s) /\ channel[s] = "closed" /\ buffer[s] = NoSnap

\* The goroutine of the operation returns, and its deferred stopOp cancels the
\* context: the stream is over, Subscribe has panicked (which graphql-go turns
\* into an error), or the context is done.
OpReturns(s) ==
    /\ op[s] = "pumping"
    /\ StreamEnds(s) \/ hub[s] = "panicked" \/ ctxDone[s]
    /\ op' = [op EXCEPT ![s] = "done"]
    /\ ctxDone' = [ctxDone EXCEPT ![s] = TRUE]
    /\ received' = [received EXCEPT ![s] = NoSnap]
    /\ UNCHANGED <<row, hubVars, chanVars, hub, firstSnap>>

-----------------------------------------------------------------------------

LoopStep(f) == LoopExits(f) \/ LoopReads(f) \/ Fanout(f) \/ CloseRun(f)

SubscribeStep(s) ==
    \/ Register(s) \/ ReadFirst(s) \/ ReadFirstFails(s)
    \/ SendFirst(s) \/ SendFirstFull(s) \/ SendFirstPanics(s) \/ DropOldest(s)
    \/ Unsubscribe(s)

OpStep(s) == Push(s) \/ OpReturns(s)

Next ==
    \/ RowChanges
    \/ \E s \in Subs :
          \/ LoopStep(s) \/ LoopReadFails(s)
          \/ SubscribeStep(s)
          \/ StartOp(s) \/ StopOp(s) \/ OpStep(s)

Spec == Init /\ [][Next]_vars

\* Goroutines run, and the safety ticker wakes the loops.  The run, the hints
\* and the client owe nothing.
Fairness ==
    \A s \in Subs : /\ WF_vars(LoopStep(s))
                    /\ WF_vars(SubscribeStep(s))
                    /\ WF_vars(OpStep(s))

FairSpec == Spec /\ Fairness

-----------------------------------------------------------------------------
(* Safety.                                                                 *)

\* The hub knows exactly the subscribers with an open channel: fanout, closeRun
\* and unsubscribe never send to or close a closed one, which would end the
\* process, and no channel stays open that nobody will send to or close.
OpenIsMember == \A s \in Subs : channel[s] = "open" <=> s \in Members

\* The fan-out in h.runs has subscribers and the only loop that is to go on:
\* when the last subscriber leaves, or the run ends, no loop polls for ever,
\* and no subscriber is left to a loop that is gone.
FanoutIsServed ==
    /\ \A f \in Subs : (loop[f] # "none" /\ ~cancelled[f]) <=> f = current
    /\ current # NoSub => subs[current] # {} /\ loop[current] # "exited"

\* The server ends the stream of a client that has not asked for it only
\* when the run has ended.
EndMeansTerminal ==
    \A s \in Subs : channel[s] = "closed" /\ ~ctxDone[s] => row.status \in Endings

-----------------------------------------------------------------------------
(* The inductive invariant.                                                *)

\* Before it registers, an operation has no channel and no fan-out.
UnregisteredIsBlank ==
    \A s \in Subs :
        /\ op[s] = "new" => hub[s] = "idle"
        /\ hub[s] \in {"idle", "called"} =>
              channel[s] = "none" /\ subs[s] = {} /\ loop[s] = "none" /\ ~cancelled[s]

\* A loop that has seen the end has seen the truth: the run does not come back.
SeenEndIsReal ==
    \A f \in Subs :
        \/ loop[f] = "fanned"
        \/ loop[f] = "read" /\ isTerminalRunStatus(loopSnap[f].status)
        => row.status \in Endings

HubInv ==
    /\ TypeOK
    /\ UnregisteredIsBlank
    /\ SeenEndIsReal
    /\ OpenIsMember
    /\ FanoutIsServed
    /\ EndMeansTerminal

-----------------------------------------------------------------------------
(* Liveness, under FairSpec.                                               *)

\* A client that stays is shown the last change, although hints are lost,
\* reads fail and the fan-out changes hands.
ChangesArrive ==
    \A s \in Subs :
        op[s] = "pumping" /\ row.ver = MaxVersion
            ~> op[s] # "pumping" \/ received[s].ver = MaxVersion

\* The stream of a run that succeeded or failed is completed.
EndCompletes ==
    \A s \in Subs :
        op[s] = "pumping" /\ row.status \in {"succeeded", "failed"}
            ~> op[s] = "done"

-----------------------------------------------------------------------------
(* Claims that do not hold.                                                *)

\* subscriptions.go: dropping is safe, the client always converges.  If the
\* server has ended the stream, the last snapshot in it is that of the end.
ClientConverges ==
    \A s \in Subs :
        StreamEnds(s) /\ ~ctxDone[s] /\ received[s] # NoSnap
            => received[s].status \in Endings

\* subscriptions.go: the subscription completes when the run reaches a
\* terminal status.
TerminalCompletes ==
    \A s \in Subs : op[s] = "pumping" /\ row.status \in Endings ~> op[s] = "done"
=============================================================================
