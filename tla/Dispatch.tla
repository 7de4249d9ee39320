------------------------------ MODULE Dispatch ------------------------------
(***************************************************************************)
(* One job from registration to its answer: the scheduler's dispatch task, *)
(* its attach handlers and its watchdog (phobos-sched/src/server.rs), and  *)
(* the nodes that execute what they are sent.                              *)
(*                                                                         *)
(* The tasks share State, whose mutex each of them takes for one short     *)
(* block at a time.  One action below is one such block with the local     *)
(* work around it, so all interleavings of the blocks are explored.        *)
(*                                                                         *)
(* seg_remaining counts the instructions of a segment that have neither    *)
(* retired nor been abandoned.  The model keeps the instructions           *)
(* themselves, in `remaining`; the counter is the size of a slice of it.   *)
(***************************************************************************)
EXTENDS ChainPlan, Sequences

CONSTANTS
    Budget,       \* DispatchConfig.budget_bytes
    SegBytes,     \* SegMem.incremental, the same for every segment
    Rmw,          \* TRUE: the output is read-modify-write; FALSE: write only
    MayCrash,     \* bound: the nodes that may die
    MayStall,     \* bound: the nodes that may go silent and come back
    MaxBroken,    \* bound: instructions that fail on their node
    Stale         \* ids an earlier job left on the way to the scheduler

ASSUME DispatchAssumption ==
    /\ Budget \in Nat /\ SegBytes \in Nat \ {0}
    /\ Rmw \in BOOLEAN
    /\ MayCrash \subseteq Nodes /\ MayStall \subseteq Nodes /\ MaxBroken \in Nat
    /\ Stale \subseteq Nat /\ IsFiniteSet(Stale)

VARIABLES
  \* State, behind the mutex
    nodes,        \* nodes with a connection to send on
    lastSeen,     \* nodes the watchdog looks at
    completedIids,
    failure,
    down,         \* nodes reported dead and not yet taken by the dispatcher
  \* the dispatcher's pending wait on Inner.complete: "none" or "armed", or
  \* "woken" once notify_waiters() came after the wait was created
    waiter,
  \* locals of dispatch()
    pc,           \* the next block of the dispatcher to run
    todo,         \* nodes the current loop over nodes has still to visit
    shipping,     \* index of the plan that ship_ready is at work on
    batch,        \* completions taken from the State, still to process
    plans,        \* ActivePlan: next_seg, inflight and the segment counts
    table,        \* iid_seg, store_of and the instructions, by id
    remaining,    \* registered instructions neither retired nor abandoned
    total, retired, abandoned, iidHigh,
    downSet, durable, recovering,
    answer,       \* "none", then what dispatch() returned: "ok" or "err"
  \* locals of the watchdog
    silent,       \* nodes found silent and not yet marked
    marked,       \* TRUE: marked some since the last notify_waiters()
  \* the nodes, their streams and the storage
    health,       \* "up", "stalled" (no message gets out) or "crashed"
    linked,       \* nodes whose attach handler runs
    issued,       \* instructions sent
    ran,          \* instructions executed
    broken,       \* instructions that failed
    buffer,       \* the updates in a node's copy of an output
    wire,         \* Complete messages under way, by node
    failWire,     \* nodes with a Failed message under way
    stored        \* how many updates the stored output has in it, by key

sharedVars == <<nodes, lastSeen, completedIids, failure, down, waiter>>
bookVars   == <<plans, table, remaining, total, retired, abandoned, iidHigh,
                downSet, durable, recovering>>
ctlVars    == <<pc, todo, shipping, batch, answer>>
dogVars    == <<silent, marked>>
execVars   == <<ran, broken, buffer, stored>>
netVars    == <<health, linked, wire, failWire>>
envVars    == <<execVars, netVars>>

vars == <<sharedVars, bookVars, ctlVars, dogVars, issued, envVars>>

-----------------------------------------------------------------------------
(* Derived state *)

(* The definitions named Slip... are plausible mistakes in the definition  *)
(* that follows each of them.  Nothing refers to them: PROJECT.json says   *)
(* which property rejects the specification with which of them in place.   *)

(* notify_waiters() stores no permit: it wakes a wait that exists already. *)
Woken == IF waiter = "armed" THEN "woken" ELSE waiter

(* The ids of a segment, and those seg_remaining still counts.             *)
SegIids(p, n, s) ==
    {i \in DOMAIN table : table[i].plan = p /\ table[i].node = n /\ table[i].seg = s}
SegRemaining(p, n, s) == SegIids(p, n, s) \cap remaining

(* Everything that was planned for a set of nodes and is still open.       *)
OpenOn(N) == {i \in remaining : table[i].node \in N}

Ascending(S) == [i \in 1 .. Cardinality(S) |-> Nth(S, i - 1)]

NoPlan == [next     |-> [n \in Nodes |-> 0],
           inflight |-> [n \in Nodes |-> 0],
           segs     |-> [n \in Nodes |-> 0]]

-----------------------------------------------------------------------------
Init ==
    /\ nodes = {} /\ lastSeen = {} /\ completedIids = {}
    /\ failure = FALSE /\ down = {} /\ waiter = "none"
    /\ pc = "await" /\ todo = <<>> /\ shipping = 1 /\ batch = {}
    /\ plans = <<>> /\ table = <<>> /\ remaining = {}
    /\ total = 0 /\ retired = 0 /\ abandoned = 0 /\ iidHigh = 0
    /\ downSet = {} /\ durable = {} /\ recovering = {} /\ answer = "none"
    /\ silent = {} /\ marked = FALSE
    /\ health = [n \in Nodes |-> "up"] /\ linked = {}
    /\ issued = {} /\ ran = {} /\ broken = {}
    /\ buffer = [n \in Nodes |-> [k \in Keys |-> 0]]
    /\ wire = [n \in Nodes |-> IF n = 0 THEN Stale ELSE {}] /\ failWire = {}
    /\ stored = [k \in Keys |-> 0]

-----------------------------------------------------------------------------
(* Attach handlers: one task per node, until its stream ends *)

Register(n) ==
    /\ n \notin linked /\ health[n] = "up"
    /\ linked' = linked \cup {n}
    /\ lastSeen' = lastSeen \cup {n}
    /\ nodes' = nodes \cup {n}
    /\ UNCHANGED <<completedIids, failure, down, waiter, health, wire, failWire,
                   bookVars, ctlVars, dogVars, issued, execVars>>

(* Any message counts as a sign of life; a heartbeat is nothing else.      *)
Heartbeat(n) ==
    /\ n \in linked /\ health[n] = "up" /\ n \notin lastSeen
    /\ lastSeen' = lastSeen \cup {n}
    /\ UNCHANGED <<nodes, completedIids, failure, down, waiter,
                   bookVars, ctlVars, dogVars, issued, envVars>>

(* A Complete message carries all that finished since the last one.        *)
Deliver(n) ==
    /\ n \in linked /\ health[n] # "stalled" /\ wire[n] # {}
    /\ completedIids' = completedIids \cup wire[n]
    /\ wire' = [wire EXCEPT ![n] = {}]
    /\ lastSeen' = lastSeen \cup {n}
    /\ waiter' = Woken
    /\ UNCHANGED <<nodes, failure, down, health, linked, failWire,
                   bookVars, ctlVars, dogVars, issued, execVars>>

DeliverFailed(n) ==
    /\ n \in linked /\ health[n] # "stalled" /\ n \in failWire
    /\ failure' = TRUE
    /\ failWire' = failWire \ {n}
    /\ lastSeen' = lastSeen \cup {n}
    /\ waiter' = Woken
    /\ UNCHANGED <<nodes, completedIids, down, health, linked, wire,
                   bookVars, ctlVars, dogVars, issued, execVars>>

(* The inbound stream of a dead node ends or breaks, and what it had under *)
(* way and the handler had not read is lost.                               *)
StreamEnd(n) ==
    /\ n \in linked /\ health[n] = "crashed"
    /\ linked' = linked \ {n}
    /\ nodes' = nodes \ {n}
    /\ lastSeen' = lastSeen \ {n}
    /\ down' = down \cup {n}
    /\ waiter' = Woken
    /\ wire' = [wire EXCEPT ![n] = {}]
    /\ failWire' = failWire \ {n}
    /\ UNCHANGED <<completedIids, failure, health,
                   bookVars, ctlVars, dogVars, issued, execVars>>

-----------------------------------------------------------------------------
(* The dispatcher.  Every `?` on a send and every bail! ends the job.      *)

Return(r) == pc' = "done" /\ answer' = r

(* send() fails when the node is unregistered; for a dead node it may also *)
(* fail because its receiver is gone.                                      *)
CanSend(n) == n \in nodes
CanFail(n) == n \notin nodes \/ health[n] = "crashed"

(* await_nodes creates its wait before it counts, so no registration is    *)
(* missed, and leaves are compiled before the State is cleared.            *)
AwaitNodes ==
    /\ pc = "await" /\ Cardinality(nodes) >= Width
    /\ pc' = "clear"
    /\ UNCHANGED <<todo, shipping, batch, answer,
                   sharedVars, bookVars, dogVars, issued, envVars>>

ClearState ==
    /\ pc = "clear"
    /\ completedIids' = {} /\ failure' = FALSE /\ down' = {}
    /\ pc' = "setup" /\ todo' = Ascending(Nodes)
    /\ UNCHANGED <<nodes, lastSeen, waiter, shipping, batch, answer,
                   bookVars, dogVars, issued, envVars>>

(* The bounds of the ids and of the books after a plan is added.           *)
SlipHighOfChains(R) == iidHigh + Cardinality(R)
HighWith(R) == iidHigh + Cardinality(R) * ChainLen

SlipTotalOfFirst(new) == IF total = 0 THEN Cardinality(new) ELSE total
TotalWith(new) == total + Cardinality(new)

(* Adds a plan of the chains R on the nodes `live` to the plans `before`:  *)
(* register_plan and ActivePlan::new, then ship_ready for each such node.  *)
StartPlan(R, live, before) ==
    LET new == PlanTable(R, live, iidHigh)
        p   == Len(before) + 1
    IN /\ table' = [i \in DOMAIN table \cup DOMAIN new |->
                       IF i \in DOMAIN new
                       THEN [plan |-> p, node |-> new[i].node, seg |-> new[i].seg,
                             key |-> new[i].key, step |-> new[i].step]
                       ELSE table[i]]
       /\ plans' = Append(before, [NoPlan EXCEPT !.segs = SegmentCount(R, live)])
       /\ iidHigh' = HighWith(R)
       /\ total' = TotalWith(DOMAIN new)
       /\ shipping' = p
       /\ todo' = Ascending(live)
       /\ pc' = "ship"

(* JobManifest, Kernel and Manifest to each node in turn, then the plan.   *)
Setup ==
    /\ pc = "setup" /\ todo # <<>> /\ CanSend(Head(todo))
    /\ todo' = Tail(todo)
    /\ UNCHANGED <<pc, shipping, batch, answer,
                   sharedVars, bookVars, dogVars, issued, envVars>>

SetupFail ==
    /\ pc = "setup" /\ todo # <<>> /\ CanFail(Head(todo))
    /\ Return("err")
    /\ UNCHANGED <<todo, shipping, batch,
                   sharedVars, bookVars, dogVars, issued, envVars>>

StartJob ==
    /\ pc = "setup" /\ todo = <<>>
    /\ StartPlan(Keys, Nodes, plans)
    /\ remaining' = remaining \cup PlanIids(Keys, Nodes, iidHigh)
    /\ UNCHANGED <<retired, abandoned, downSet, durable, recovering, batch, answer,
                   sharedVars, dogVars, issued, envVars>>

(* One round of ship_ready's loop over the segments of Head(todo).  The    *)
(* budget holds a segment back only while others of its plan are open.     *)
SlipHoldLate(plan, n) ==
    /\ plan.next[n] < plan.segs[n]
    /\ plan.inflight[n] <= Budget
Shippable(plan, n) ==
    /\ plan.next[n] < plan.segs[n]
    /\ plan.inflight[n] = 0 \/ plan.inflight[n] + SegBytes <= Budget

SlipUncounted(p, n) == [plans EXCEPT ![p].next[n] = @ + 1]
Shipped(p, n) == [plans EXCEPT ![p].inflight[n] = @ + SegBytes, ![p].next[n] = @ + 1]

ShipSegment ==
    /\ pc = "ship"
    /\ LET n == Head(todo)
           plan == plans[shipping]
       IN /\ Shippable(plan, n) /\ CanSend(n)
          /\ issued' = issued \cup SegIids(shipping, n, plan.next[n] + 1)
          /\ plans' = Shipped(shipping, n)
    /\ UNCHANGED <<table, remaining, total, retired, abandoned, iidHigh,
                   downSet, durable, recovering,
                   sharedVars, ctlVars, dogVars, envVars>>

ShipFail ==
    /\ pc = "ship"
    /\ Shippable(plans[shipping], Head(todo)) /\ CanFail(Head(todo))
    /\ Return("err")
    /\ UNCHANGED <<todo, shipping, batch,
                   sharedVars, bookVars, dogVars, issued, envVars>>

(* On to the next node, or back to where ship_ready was called from.       *)
ShipNext ==
    /\ pc = "ship" /\ ~Shippable(plans[shipping], Head(todo))
    /\ todo' = Tail(todo)
    /\ pc' = IF Tail(todo) # <<>> THEN "ship"
             ELSE IF batch # {} THEN "batch" ELSE "check"
    /\ UNCHANGED <<shipping, batch, answer,
                   sharedVars, bookVars, dogVars, issued, envVars>>

(* The head of the drain loop: all accounted for, or a node's failure.     *)
Finish ==
    /\ pc = "check" /\ retired + abandoned >= total
    /\ Return("ok")
    /\ UNCHANGED <<todo, shipping, batch,
                   sharedVars, bookVars, dogVars, issued, envVars>>

Abort ==
    /\ pc = "check" /\ retired + abandoned < total /\ failure
    /\ failure' = FALSE
    /\ Return("err")
    /\ UNCHANGED <<nodes, lastSeen, completedIids, down, waiter,
                   todo, shipping, batch, bookVars, dogVars, issued, envVars>>

Proceed ==
    /\ pc = "check" /\ retired + abandoned < total /\ ~failure
    /\ pc' = "down"
    /\ UNCHANGED <<todo, shipping, batch, answer,
                   sharedVars, bookVars, dogVars, issued, envVars>>

(* take(down) when none of them is news.                                   *)
NoneDown ==
    /\ pc = "down" /\ down \subseteq downSet
    /\ down' = {}
    /\ pc' = "arm"
    /\ UNCHANGED <<nodes, lastSeen, completedIids, failure, waiter,
                   todo, shipping, batch, answer, bookVars, dogVars, issued, envVars>>

(* take(down) with news: what is open on those nodes is abandoned, and no  *)
(* segment of theirs is left to ship.                                      *)
NewlyDown == down \ downSet

WithoutDown ==
    [p \in DOMAIN plans |->
        [plans[p] EXCEPT !.next = [n \in Nodes |->
            IF n \in NewlyDown THEN plans[p].segs[n] ELSE plans[p].next[n]]]]

NewlyAbandoned == Cardinality(OpenOn(NewlyDown))

AbandonDown ==
    /\ pc = "down" /\ NewlyDown # {}
    /\ down' = {}
    /\ downSet' = downSet \cup down
    /\ abandoned' = abandoned + NewlyAbandoned
    /\ UNCHANGED <<nodes, lastSeen, completedIids, failure, waiter,
                   retired, durable, batch, dogVars, issued, envVars>>

(* recover(): re-plan the dead nodes' outputs, except those it takes for   *)
(* stored and those an earlier recovery has claimed.                       *)
SlipStaleDownSet == Lost(downSet, durable \cup recovering)
SlipReplanAll == Keys \ (durable \cup recovering)
LostOutputs == Lost(downSet \cup down, durable \cup recovering)

Survivors == Nodes \ (downSet \cup down)

EveryNodeDown ==
    /\ AbandonDown /\ Survivors = {}
    /\ remaining' = remaining \ OpenOn(NewlyDown)
    /\ plans' = WithoutDown
    /\ Return("err")
    /\ UNCHANGED <<todo, shipping, table, total, iidHigh, recovering>>

NothingLost ==
    /\ AbandonDown /\ Survivors # {} /\ LostOutputs = {}
    /\ remaining' = remaining \ OpenOn(NewlyDown)
    /\ plans' = WithoutDown
    /\ pc' = "check"
    /\ UNCHANGED <<todo, shipping, table, total, iidHigh, recovering, answer>>

Recover ==
    /\ AbandonDown /\ Survivors # {} /\ LostOutputs # {}
    /\ StartPlan(LostOutputs, Survivors, WithoutDown)
    /\ remaining' = (remaining \ OpenOn(NewlyDown))
                        \cup PlanIids(LostOutputs, Survivors, iidHigh)
    /\ recovering' = recovering \cup LostOutputs
    /\ UNCHANGED answer

(* complete.notified(): from here on a notification wakes the dispatcher.  *)
SlipArmSkipsLook ==
    /\ pc = "arm"
    /\ waiter' = "armed"
    /\ pc' = "wait"
    /\ UNCHANGED <<nodes, lastSeen, completedIids, failure, down,
                   todo, shipping, batch, answer, bookVars, dogVars, issued, envVars>>

Arm ==
    /\ pc = "arm"
    /\ waiter' = "armed"
    /\ pc' = "take"
    /\ UNCHANGED <<nodes, lastSeen, completedIids, failure, down,
                   todo, shipping, batch, answer, bookVars, dogVars, issued, envVars>>

TakeNone ==
    /\ pc = "take" /\ completedIids = {}
    /\ pc' = "wait"
    /\ UNCHANGED <<todo, shipping, batch, answer,
                   sharedVars, bookVars, dogVars, issued, envVars>>

TakeBatch ==
    /\ pc = "take" /\ completedIids # {}
    /\ batch' = completedIids /\ completedIids' = {}
    /\ waiter' = "none"
    /\ pc' = "batch"
    /\ UNCHANGED <<nodes, lastSeen, failure, down, todo, shipping, answer,
                   bookVars, dogVars, issued, envVars>>

Wake ==
    /\ pc = "wait" /\ waiter = "woken"
    /\ waiter' = "none"
    /\ pc' = "check"
    /\ UNCHANGED <<nodes, lastSeen, completedIids, failure, down,
                   todo, shipping, batch, answer, bookVars, dogVars, issued, envVars>>

(* One id of the batch.  The order within a batch is left open.            *)
SlipAnyPlanned(i) == i \in DOMAIN table
Known(i) == i \in DOMAIN table /\ table[i].node \notin downSet

Skip(i) ==
    /\ pc = "batch" /\ i \in batch /\ ~Known(i)
    /\ batch' = batch \ {i}
    /\ pc' = IF batch = {i} THEN "check" ELSE "batch"
    /\ UNCHANGED <<todo, shipping, answer,
                   sharedVars, bookVars, dogVars, issued, envVars>>

(* Whether an instruction is in store_of.                                  *)
SlipComputeStores(e) == e.step = StoreStep - 1
Stores(e) == e.step = StoreStep

(* A segment that is finished gives its bytes back.                        *)
SlipNeverSettled(p, n) == plans
Settled(p, n) == [plans EXCEPT ![p].inflight[n] = @ - SegBytes]

(* An instruction retires; the last one of a segment returns its bytes and *)
(* lets the node's next segments go.                                       *)
Retire(i) ==
    /\ pc = "batch" /\ i \in batch /\ Known(i)
    /\ LET e    == table[i]
           last == SegRemaining(e.plan, e.node, e.seg) = {i}
       IN /\ IF Stores(e)
             THEN durable' = durable \cup {e.key} /\ recovering' = recovering \ {e.key}
             ELSE UNCHANGED <<durable, recovering>>
          /\ IF last
             THEN /\ plans' = Settled(e.plan, e.node)
                  /\ shipping' = e.plan /\ todo' = <<e.node>>
                  /\ pc' = "ship"
             ELSE /\ pc' = IF batch = {i} THEN "check" ELSE "batch"
                  /\ UNCHANGED <<plans, shipping, todo>>
    /\ retired' = retired + 1
    /\ remaining' = remaining \ {i}
    /\ batch' = batch \ {i}
    /\ UNCHANGED <<table, total, abandoned, iidHigh, downSet, answer,
                   sharedVars, dogVars, issued, envVars>>

-----------------------------------------------------------------------------
(* The watchdog, which lives as long as the drain loop *)

(* (and not yet while the first plan is shipped)                           *)
InDrainLoop ==
    \/ pc \in {"check", "down", "arm", "take", "wait", "batch"}
    \/ /\ pc = "ship"
       /\ retired > 0 \/ downSet # {}

(* One tick: the nodes not heard of for longer than the deadline.          *)
WatchdogScan(S) ==
    /\ InDrainLoop /\ silent = {} /\ ~marked
    /\ S # {} /\ S \subseteq lastSeen
    /\ \A n \in S : health[n] # "up"
    /\ silent' = S
    /\ UNCHANGED <<marked, sharedVars, bookVars, ctlVars, issued, envVars>>

(* The mutex is taken anew for each of them.                               *)
WatchdogMark(n) ==
    /\ InDrainLoop /\ n \in silent
    /\ nodes' = nodes \ {n}
    /\ lastSeen' = lastSeen \ {n}
    /\ down' = down \cup {n}
    /\ silent' = silent \ {n}
    /\ marked' = TRUE
    /\ UNCHANGED <<completedIids, failure, waiter, bookVars, ctlVars, issued, envVars>>

WatchdogNotify ==
    /\ InDrainLoop /\ silent = {} /\ marked
    /\ marked' = FALSE
    /\ waiter' = Woken
    /\ UNCHANGED <<nodes, lastSeen, completedIids, failure, down, silent,
                   bookVars, ctlVars, issued, envVars>>

-----------------------------------------------------------------------------
(* The nodes *)

(* An instruction whose dependency, the one before it in its chain, is     *)
(* done.  Its Complete message is under way from then on.                  *)
Runnable(i) ==
    /\ i \in issued \ (ran \cup broken)
    /\ health[table[i].node] # "crashed"
    /\ table[i].step = LoadStep \/ i - 1 \in ran

Run(i) ==
    /\ Runnable(i)
    /\ LET e == table[i]
       IN /\ buffer' = IF Rmw /\ e.step = LoadStep
                       THEN [buffer EXCEPT ![e.node][e.key] = stored[e.key]]
                       ELSE buffer
          /\ stored' = IF e.step = StoreStep
                       THEN [stored EXCEPT ![e.key] = buffer[e.node][e.key] + 1]
                       ELSE stored
          /\ wire' = [wire EXCEPT ![e.node] = @ \cup {i}]
    /\ ran' = ran \cup {i}
    /\ UNCHANGED <<broken, health, linked, failWire, issued,
                   sharedVars, bookVars, ctlVars, dogVars>>

(* It fails instead: fail() tells the scheduler and the chain stops there. *)
Break(i) ==
    /\ Cardinality(broken) < MaxBroken
    /\ Runnable(i)
    /\ broken' = broken \cup {i}
    /\ failWire' = failWire \cup {table[i].node}
    /\ UNCHANGED <<ran, buffer, stored, health, linked, wire, issued,
                   sharedVars, bookVars, ctlVars, dogVars>>

Crash(n) ==
    /\ n \in MayCrash /\ n \in linked /\ health[n] # "crashed"
    /\ health' = [health EXCEPT ![n] = "crashed"]
    /\ UNCHANGED <<linked, wire, failWire, execVars, issued,
                   sharedVars, bookVars, ctlVars, dogVars>>

(* A partition or a pause of the host: the node itself keeps executing.    *)
Stall(n) ==
    /\ n \in MayStall /\ n \in linked /\ health[n] = "up"
    /\ health' = [health EXCEPT ![n] = "stalled"]
    /\ UNCHANGED <<linked, wire, failWire, execVars, issued,
                   sharedVars, bookVars, ctlVars, dogVars>>

Resume(n) ==
    /\ health[n] = "stalled"
    /\ health' = [health EXCEPT ![n] = "up"]
    /\ UNCHANGED <<linked, wire, failWire, execVars, issued,
                   sharedVars, bookVars, ctlVars, dogVars>>

-----------------------------------------------------------------------------
DispatchStep ==
    \/ AwaitNodes \/ ClearState \/ Setup \/ SetupFail \/ StartJob
    \/ ShipSegment \/ ShipFail \/ ShipNext
    \/ Finish \/ Abort \/ Proceed
    \/ NoneDown \/ EveryNodeDown \/ NothingLost \/ Recover
    \/ Arm \/ TakeNone \/ TakeBatch \/ Wake
    \/ \E i \in batch : Skip(i) \/ Retire(i)

AttachStep(n) ==
    Register(n) \/ Heartbeat(n) \/ Deliver(n) \/ DeliverFailed(n) \/ StreamEnd(n)

WatchdogStep ==
    \/ \E S \in SUBSET lastSeen : WatchdogScan(S)
    \/ \E n \in silent : WatchdogMark(n)
    \/ WatchdogNotify

NodeStep == \E i \in issued : Run(i) \/ Break(i)

Fault(n) == Crash(n) \/ Stall(n) \/ Resume(n)

Next ==
    \/ DispatchStep
    \/ WatchdogStep
    \/ NodeStep
    \/ \E n \in Nodes : AttachStep(n) \/ Fault(n)

Spec == Init /\ [][Next]_vars

(* tokio polls every task that can go on, a live engine issues what is     *)
(* ready, and the streams of live nodes deliver.  The end of a dead node's *)
(* stream is reported sooner or later only if TCP notices, so it is not    *)
(* relied on; a silent node is found by the watchdog.                      *)
Fairness ==
    /\ WF_vars(DispatchStep)
    /\ WF_vars(WatchdogStep)
    /\ \A n \in Nodes :
        /\ WF_vars(Register(n)) /\ WF_vars(Deliver(n)) /\ WF_vars(DeliverFailed(n))
        /\ WF_vars(\E i \in issued : table[i].node = n /\ Run(i))

FairSpec == Spec /\ Fairness
-----------------------------------------------------------------------------
(* Properties *)

(* Every variable keeps its type, and ids stay within what was planned.    *)
TypeOK ==
    /\ nodes \subseteq Nodes /\ lastSeen \subseteq Nodes /\ down \subseteq Nodes
    /\ completedIids \subseteq Nat /\ batch \subseteq Nat
    /\ failure \in BOOLEAN /\ waiter \in {"none", "armed", "woken"}
    /\ pc \in {"await", "clear", "setup", "ship", "check", "down", "arm", "take",
               "wait", "batch", "done"}
    /\ todo \in Seq(Nodes) /\ (pc = "ship" => todo # <<>> /\ shipping \in DOMAIN plans)
    /\ shipping \in Nat
    /\ plans \in Seq([next : [Nodes -> Nat], inflight : [Nodes -> Int],
                      segs : [Nodes -> Nat]])
    /\ DOMAIN table \subseteq 1 .. iidHigh
    /\ \A i \in DOMAIN table :
          table[i] \in [plan : DOMAIN plans, node : Nodes, seg : Nat, key : Keys, step : Steps]
    /\ total \in Nat /\ retired \in Nat /\ abandoned \in Nat /\ iidHigh \in Nat
    /\ downSet \subseteq Nodes /\ durable \subseteq Keys /\ recovering \subseteq Keys
    /\ answer \in {"none", "ok", "err"}
    /\ silent \subseteq Nodes /\ marked \in BOOLEAN
    /\ health \in [Nodes -> {"up", "stalled", "crashed"}] /\ linked \subseteq Nodes
    /\ remaining \subseteq DOMAIN table /\ issued \subseteq DOMAIN table
    /\ ran \subseteq issued /\ broken \subseteq issued
    /\ wire \in [Nodes -> SUBSET Nat] /\ failWire \subseteq Nodes
    /\ buffer \in [Nodes -> [Keys -> Nat]]
    /\ stored \in [Keys -> Nat]

(* The drain loop's books balance: what is planned has retired once, was   *)
(* abandoned once with its node, or is still open.  So the loop ends when, *)
(* and not before, nothing is open.                                        *)
Accounting == retired + abandoned + Cardinality(remaining) = total

(* `durable` is what recovery leaves out: an output is in it only when     *)
(* storage holds it, although the message and the write are steps of       *)
(* different processes.                                                    *)
DurableIsStored == \A k \in durable : stored[k] > 0

(* While the job has not failed, every output is stored or its STORE is    *)
(* still open on a node not known to be dead.                              *)
OutputCovered ==
    total > 0 /\ answer # "err" =>
        \A k \in Keys : \/ k \in durable
                        \/ \E i \in remaining :
                              /\ table[i].key = k /\ table[i].step = StoreStep
                              /\ table[i].node \notin downSet

(* A plan's inflight counter is the bytes of its segments that are shipped *)
(* and have instructions open, so the subtraction in it never underflows.  *)
InflightExact ==
    \A p \in DOMAIN plans : \A n \in Nodes \ downSet :
        plans[p].inflight[n] =
            SegBytes * Cardinality({s \in 1 .. plans[p].next[n] : SegRemaining(p, n, s) # {}})

(* The budget caps the bytes of the segments a node has in flight; a       *)
(* single segment may exceed it.                                           *)
OpenSegments(n) ==
    {<<table[i].plan, table[i].seg>> : i \in {j \in remaining \cap issued : table[j].node = n}}

BudgetRespected ==
    \A n \in Nodes : \/ Cardinality(OpenSegments(n)) <= 1
                     \/ Cardinality(OpenSegments(n)) * SegBytes <= Budget

(* Whatever fails, it caps what a node not given up has of one plan; a     *)
(* recovery plan has a budget of its own.  A segment is only charged when  *)
(* it is shipped and released with its last instruction.                   *)
OpenSegs(p, n) == {s \in 1 .. plans[p].next[n] : SegRemaining(p, n, s) # {}}

PlanKeepsBudget ==
    \A p \in DOMAIN plans : \A n \in Nodes \ downSet :
        \/ Cardinality(OpenSegs(p, n)) <= 1
        \/ Cardinality(OpenSegs(p, n)) * SegBytes <= Budget

(* A read-modify-write output gets its update once.                        *)
ExactlyOnce == \A k \in Keys : stored[k] <= 1

(* Recovery repeats the update of a node that was given up, at most: the   *)
(* outputs of live nodes are never computed a second time.                 *)
RepeatsOnlyLost == \A k \in Keys : stored[k] > 1 => Owner(k) \in downSet

(* Once the drain loop runs, the job fails only when an instruction did or *)
(* when no node is left: the loss of a node is recovered from.             *)
FailsOnlyWhenHopeless ==
    answer = "err" /\ retired > 0 => broken # {} \/ downSet = Nodes

(* While no node and no instruction fails, the job is answered: a segment  *)
(* the budget holds back is shipped once another settles.                  *)
NothingFails == broken = {} /\ \A n \in Nodes : health[n] = "up"
Termination == []NothingFails => <>(answer # "none")

(* A completion that reaches the scheduler is taken by the dispatcher: its *)
(* wake-up is never lost.                                                  *)
CompletionsTaken == completedIids # {} ~> completedIids = {} \/ answer # "none"

(* The same of a node's failure.                                           *)
FailuresTaken == (down # {} /\ InDrainLoop) ~> (down = {} \/ answer # "none")

(* A job that is reported done has all its outputs in storage.             *)
OkMeansStored == answer = "ok" => \A k \in Keys : stored[k] > 0

(* The dispatcher keeps the submitter's promise.                           *)
JobView == INSTANCE JobSpec
    WITH Outputs <- Keys, stored <- {k \in Keys : stored[k] > 0}

JobPromise == JobView!Job
=============================================================================
