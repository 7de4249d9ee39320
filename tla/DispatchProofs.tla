--------------------------- MODULE DispatchProofs ---------------------------
(***************************************************************************)
(* The drain loop's books balance for every number of nodes, outputs,      *)
(* instructions and failures, provided no id of an earlier job is still on *)
(* its way: `retired` and `abandoned` count each instruction once, so      *)
(* dispatch() answers only when nothing is open.                           *)
(*                                                                         *)
(* As long as at most one node can crash or go silent, every output stays  *)
(* covered, a job reported done has all its outputs in storage, and the    *)
(* dispatcher implements JobSpec.  One node is the bound: the run          *)
(* DispatchSecondFailure shows a job reported done without an output when  *)
(* a survivor dies during a recovery.                                      *)
(***************************************************************************)
EXTENDS Dispatch, ChainPlanProofs

LEMMA DisjointUnion ==
    ASSUME NEW S, NEW T, IsFiniteSet(S), IsFiniteSet(T), S \cap T = {}
    PROVE  /\ IsFiniteSet(S \cup T)
           /\ Cardinality(S \cup T) = Cardinality(S) + Cardinality(T)
<1>1. /\ IsFiniteSet(S \cup T)
      /\ Cardinality(S \cup T) = Cardinality(S) + Cardinality(T) - Cardinality(S \cap T)
  BY FS_Union
<1>2. Cardinality(S \cap T) = 0
  BY FS_EmptySet
<1>3. Cardinality(S) \in Nat /\ Cardinality(T) \in Nat
  BY FS_CardinalityType
<1> QED BY <1>1, <1>2, <1>3

Books ==
    /\ iidHigh \in Nat
    /\ DOMAIN table \in SUBSET (1 .. iidHigh)
    /\ remaining \in SUBSET DOMAIN table
    /\ IsFiniteSet(remaining)
    /\ total \in Nat /\ retired \in Nat /\ abandoned \in Nat

(* A report is of an instruction that was executed, and an id is in one    *)
(* place only on its way to the books.                                     *)
Pipe ==
    /\ issued \in SUBSET DOMAIN table
    /\ ran \in SUBSET issued
    /\ wire \in [Nodes -> SUBSET ran]
    /\ completedIids \in SUBSET ran
    /\ batch \in SUBSET ran
    /\ completedIids \cap batch = {}
    /\ \A n \in Nodes : wire[n] \cap (completedIids \cup batch) = {}
    /\ \A n \in Nodes : \A i \in wire[n] : table[i].node = n

(* What has not been executed, or has been and was not looked at yet, is   *)
(* still open unless its node was given up.                                *)
StillOpen ==
    \A i \in DOMAIN table :
        /\ table[i].node \notin downSet
        /\ \/ i \notin ran
           \/ i \in completedIids \cup batch
           \/ \E n \in Nodes : i \in wire[n]
        => i \in remaining

(* Accounting alone is not inductive: that a reported instruction is still *)
(* open, and is reported once, is what keeps `retired` from running ahead. *)
BookInv == Books /\ Pipe /\ StillOpen /\ Accounting

bookInvVars == <<table, iidHigh, remaining, total, retired, abandoned, downSet,
                 issued, ran, wire, completedIids, batch>>

LEMMA BookInvStutter ==
    ASSUME BookInv, UNCHANGED bookInvVars
    PROVE  BookInv'
  BY DEF BookInv, Books, Pipe, StillOpen, Accounting, bookInvVars

LEMMA BookInvInit ==
    ASSUME Stale = {}, Init
    PROVE  BookInv
<1>1. DOMAIN table = {}
  BY DEF Init
<1>2. Books /\ Accounting
  BY <1>1, FS_EmptySet DEF Init, Books, Accounting
<1>3. wire = [n \in Nodes |-> {}]
  BY DEF Init
<1>4. Pipe
  BY <1>1, <1>3 DEF Init, Pipe
<1>5. StillOpen
  BY <1>1 DEF StillOpen
<1> QED BY <1>2, <1>4, <1>5 DEF BookInv

(* register_plan: the new ids are fresh, and all of them are open.  `kept` *)
(* is what stays open of the earlier plans.                                *)
LEMMA StartPlanKeeps ==
    ASSUME BookInv,
           NEW live \in SUBSET Nodes, live # {},
           NEW R \in SUBSET Keys, NEW before,
           NEW kept \in SUBSET remaining,
           StartPlan(R, live, before),
           remaining' = kept \cup PlanIids(R, live, iidHigh),
           \A i \in remaining \ kept : table[i].node \in downSet',
           downSet \subseteq downSet',
           retired' = retired,
           abandoned' = abandoned + Cardinality(remaining \ kept),
           UNCHANGED <<issued, ran, wire, completedIids, batch>>
    PROVE  BookInv'
<1> DEFINE new == PlanIids(R, live, iidHigh)
<1>1. /\ IsFiniteSet(new)
      /\ new \subseteq (iidHigh + 1) .. iidHigh'
      /\ iidHigh' \in Nat /\ iidHigh' >= iidHigh
  <2>1. iidHigh \in Nat
    BY DEF BookInv, Books
  <2>2. iidHigh' = iidHigh + Cardinality(R) * ChainLen
    BY DEF StartPlan, HighWith
  <2> QED BY <2>1, <2>2, PlanIidsFresh
<1>2. DOMAIN PlanTable(R, live, iidHigh) = new
  BY DEF PlanTable
<1>3. /\ DOMAIN table' = DOMAIN table \cup new
      /\ \A i \in DOMAIN table \ new : table'[i] = table[i]
      /\ total' = total + Cardinality(new)
  BY <1>2 DEF StartPlan, TotalWith
<1> HIDE DEF new
<1>4. DOMAIN table \cap new = {}
  BY <1>1 DEF BookInv, Books
<1>5. remaining' = kept \cup new
  BY DEF new
<1>6. /\ IsFiniteSet(kept) /\ IsFiniteSet(remaining \ kept)
      /\ Cardinality(kept) \in Nat /\ Cardinality(remaining \ kept) \in Nat
      /\ Cardinality(new) \in Nat
  BY <1>1, FS_Subset, FS_CardinalityType DEF BookInv, Books
<1>7. Cardinality(remaining) = Cardinality(kept) + Cardinality(remaining \ kept)
  <2>1. kept \cap (remaining \ kept) = {} /\ remaining = kept \cup (remaining \ kept)
    OBVIOUS
  <2> QED BY <1>6, <2>1, DisjointUnion
<1>8. Cardinality(remaining') = Cardinality(kept) + Cardinality(new) /\ IsFiniteSet(remaining')
  <2>1. kept \cap new = {}
    BY <1>4 DEF BookInv, Books
  <2> QED BY <1>1, <1>5, <1>6, <2>1, DisjointUnion
<1>9. Books'
  <2>1. DOMAIN table' \in SUBSET (1 .. iidHigh')
    BY <1>1, <1>3 DEF BookInv, Books
  <2>2. remaining' \in SUBSET DOMAIN table'
    BY <1>3, <1>5 DEF BookInv, Books
  <2> QED BY <1>1, <1>3, <1>6, <1>8, <2>1, <2>2 DEF BookInv, Books
<1>10. Accounting'
  BY <1>3, <1>6, <1>7, <1>8 DEF BookInv, Books, Accounting
<1>11. \A i \in ran : i \in DOMAIN table \ new
  BY <1>4 DEF BookInv, Pipe
<1>12. Pipe'
  BY <1>3, <1>11 DEF BookInv, Pipe
<1>13. StillOpen'
  <2> SUFFICES ASSUME NEW i \in DOMAIN table', i \notin new,
                      table'[i].node \notin downSet',
                      \/ i \notin ran'
                      \/ i \in (completedIids \cup batch)'
                      \/ \E n \in Nodes : i \in wire'[n]
               PROVE  i \in kept
    BY <1>5 DEF StillOpen
  <2>1. i \in DOMAIN table \ new /\ table[i].node \notin downSet'
    BY <1>3
  <2>2. i \in remaining
    BY <2>1 DEF BookInv, StillOpen
  <2> QED BY <2>1, <2>2
<1> QED BY <1>9, <1>10, <1>12, <1>13 DEF BookInv

LEMMA BookInvStep ==
    ASSUME BookInv, [Next]_vars
    PROVE  BookInv'
<1> USE DEF sharedVars, bookVars, ctlVars, dogVars, execVars, netVars, envVars
<1>1. CASE UNCHANGED vars
  BY <1>1, BookInvStutter DEF vars, bookInvVars
<1>2. CASE AwaitNodes \/ Setup \/ SetupFail \/ ShipFail \/ ShipNext \/ Finish \/ Abort
           \/ Proceed \/ NoneDown \/ Arm \/ TakeNone \/ Wake
  <2>1. UNCHANGED bookInvVars
    BY <1>2 DEF bookInvVars, AwaitNodes, Setup, SetupFail, ShipFail, ShipNext, Finish,
                Abort, Proceed, NoneDown, Arm, TakeNone, Wake
  <2> QED BY <2>1, BookInvStutter
<1>3. CASE WatchdogStep
  <2>1. UNCHANGED bookInvVars
    BY <1>3 DEF bookInvVars, WatchdogStep, WatchdogScan, WatchdogMark, WatchdogNotify
  <2> QED BY <2>1, BookInvStutter
<1>4. ASSUME NEW n \in Nodes,
             Fault(n) \/ Register(n) \/ Heartbeat(n) \/ DeliverFailed(n)
      PROVE  BookInv'
  <2>1. UNCHANGED bookInvVars
    BY <1>4 DEF bookInvVars, Fault, Crash, Stall, Resume, Register, Heartbeat, DeliverFailed
  <2> QED BY <2>1, BookInvStutter
<1>5. ASSUME NEW n \in Nodes, Deliver(n)
      PROVE  BookInv'
  <2>1. /\ completedIids' = completedIids \cup wire[n]
        /\ wire' = [wire EXCEPT ![n] = {}]
        /\ UNCHANGED <<table, iidHigh, remaining, total, retired, abandoned, downSet,
                       issued, ran, batch>>
    BY <1>5 DEF Deliver
  <2>2. Books' /\ Accounting'
    BY <2>1 DEF BookInv, Books, Accounting
  <2>3. /\ wire' \in [Nodes -> SUBSET ran] /\ wire'[n] = {}
        /\ \A m \in Nodes \ {n} : wire'[m] = wire[m]
    BY <2>1 DEF BookInv, Pipe
  <2>4. \A m \in Nodes \ {n} : wire[m] \cap wire[n] = {}
    BY DEF BookInv, Pipe
  <2>5. Pipe'
    BY <2>1, <2>3, <2>4 DEF BookInv, Pipe
  <2>6. StillOpen'
    BY <2>1, <2>3 DEF BookInv, StillOpen
  <2> QED BY <2>2, <2>5, <2>6 DEF BookInv
<1>6. ASSUME NEW n \in Nodes, StreamEnd(n)
      PROVE  BookInv'
  <2>1. /\ wire' = [wire EXCEPT ![n] = {}]
        /\ UNCHANGED <<table, iidHigh, remaining, total, retired, abandoned, downSet,
                       issued, ran, completedIids, batch>>
    BY <1>6 DEF StreamEnd
  <2>2. Books' /\ Accounting'
    BY <2>1 DEF BookInv, Books, Accounting
  <2>3. /\ wire' \in [Nodes -> SUBSET ran] /\ wire'[n] = {}
        /\ \A m \in Nodes \ {n} : wire'[m] = wire[m]
    BY <2>1 DEF BookInv, Pipe
  <2>4. Pipe'
    BY <2>1, <2>3 DEF BookInv, Pipe
  <2>5. StillOpen'
    BY <2>1, <2>3 DEF BookInv, StillOpen
  <2> QED BY <2>2, <2>4, <2>5 DEF BookInv
<1>7. CASE ClearState
  <2>1. /\ completedIids' = {}
        /\ UNCHANGED <<table, iidHigh, remaining, total, retired, abandoned, downSet,
                       issued, ran, wire, batch>>
    BY <1>7 DEF ClearState
  <2> QED BY <2>1 DEF BookInv, Books, Pipe, StillOpen, Accounting
<1>8. CASE StartJob
  <2>1. /\ StartPlan(Keys, Nodes, plans)
        /\ remaining' = remaining \cup PlanIids(Keys, Nodes, iidHigh)
        /\ UNCHANGED <<retired, abandoned, downSet, issued, ran, wire, completedIids, batch>>
    BY <1>8 DEF StartJob
  <2>2. Nodes # {}
    BY PlanAssumption DEF Nodes
  <2>3. remaining \ remaining = {} /\ Cardinality({}) = 0
    BY FS_EmptySet
  <2>4. abandoned' = abandoned + Cardinality(remaining \ remaining)
    BY <2>1, <2>3 DEF BookInv, Books
  <2> QED BY <2>1, <2>2, <2>3, <2>4, StartPlanKeeps
<1>9. CASE ShipSegment
  <2>1. /\ issued \subseteq issued' /\ issued' \subseteq DOMAIN table
        /\ UNCHANGED <<table, iidHigh, remaining, total, retired, abandoned, downSet,
                       ran, wire, completedIids, batch>>
    BY <1>9 DEF ShipSegment, SegIids, BookInv, Pipe
  <2> QED BY <2>1 DEF BookInv, Books, Pipe, StillOpen, Accounting
<1>10. CASE EveryNodeDown \/ NothingLost \/ Recover
  <2> DEFINE open == OpenOn(NewlyDown)
  <2> DEFINE kept == remaining \ open
  <2>1. /\ downSet' = downSet \cup down /\ abandoned' = abandoned + Cardinality(open)
        /\ UNCHANGED <<retired, issued, ran, wire, completedIids, batch>>
    BY <1>10 DEF EveryNodeDown, NothingLost, Recover, AbandonDown, NewlyAbandoned
  <2>2. /\ open \in SUBSET remaining
        /\ \A i \in open : table[i].node \in downSet'
    BY <2>1 DEF OpenOn, NewlyDown
  <2> HIDE DEF open
  <2>3. /\ IsFiniteSet(kept) /\ IsFiniteSet(open)
        /\ Cardinality(kept) \in Nat /\ Cardinality(open) \in Nat
    BY <2>2, FS_Subset, FS_CardinalityType DEF BookInv, Books
  <2>4. CASE EveryNodeDown \/ NothingLost
    <3>1. remaining' = kept /\ UNCHANGED <<table, total, iidHigh>>
      BY <2>4 DEF EveryNodeDown, NothingLost, open
    <3>2. Cardinality(remaining) = Cardinality(kept) + Cardinality(open)
      <4>1. kept \cap open = {} /\ remaining = kept \cup open
        BY <2>2
      <4> HIDE DEF kept
      <4> QED BY <2>3, <4>1, DisjointUnion
    <3>3. Books' /\ Accounting'
      BY <2>1, <2>3, <3>1, <3>2 DEF BookInv, Books, Accounting
    <3>4. Pipe'
      BY <2>1, <3>1 DEF BookInv, Pipe
    <3>5. StillOpen'
      BY <2>1, <2>2, <3>1 DEF BookInv, StillOpen
    <3> QED BY <3>3, <3>4, <3>5 DEF BookInv
  <2>5. CASE Recover
    <3>1. /\ StartPlan(LostOutputs, Survivors, WithoutDown)
          /\ remaining' = kept \cup PlanIids(LostOutputs, Survivors, iidHigh)
          /\ Survivors # {}
      BY <2>5 DEF Recover, open
    <3>2. Survivors \in SUBSET Nodes /\ LostOutputs \in SUBSET Keys
      BY DEF Survivors, LostOutputs, Lost
    <3>3. remaining \ kept = open
      BY <2>2
    <3> HIDE DEF kept
    <3>4. kept \in SUBSET remaining
      BY DEF kept
    <3> QED BY <2>1, <2>2, <3>1, <3>2, <3>3, <3>4, StartPlanKeeps
  <2> QED BY <1>10, <2>4, <2>5
<1>11. CASE TakeBatch
  <2>1. /\ batch' = completedIids /\ completedIids' = {}
        /\ UNCHANGED <<table, iidHigh, remaining, total, retired, abandoned, downSet,
                       issued, ran, wire>>
    BY <1>11 DEF TakeBatch
  <2> QED BY <2>1 DEF BookInv, Books, Pipe, StillOpen, Accounting
<1>12. ASSUME NEW i \in batch, Skip(i)
       PROVE  BookInv'
  <2>1. /\ batch' = batch \ {i}
        /\ UNCHANGED <<table, iidHigh, remaining, total, retired, abandoned, downSet,
                       issued, ran, wire, completedIids>>
    BY <1>12 DEF Skip
  <2> QED BY <2>1 DEF BookInv, Books, Pipe, StillOpen, Accounting
<1>13. ASSUME NEW i \in batch, Retire(i)
       PROVE  BookInv'
  <2>1. /\ Known(i)
        /\ retired' = retired + 1 /\ remaining' = remaining \ {i} /\ batch' = batch \ {i}
        /\ UNCHANGED <<table, iidHigh, total, abandoned, downSet,
                       issued, ran, wire, completedIids>>
    BY <1>13 DEF Retire
  <2>2. i \in remaining
    BY <2>1 DEF BookInv, StillOpen, Known
  <2>3. IsFiniteSet(remaining') /\ Cardinality(remaining') = Cardinality(remaining) - 1
    BY <2>1, <2>2, FS_RemoveElement DEF BookInv, Books
  <2>4. Cardinality(remaining) \in Nat
    BY FS_CardinalityType DEF BookInv, Books
  <2>5. Books' /\ Accounting'
    BY <2>1, <2>3, <2>4 DEF BookInv, Books, Accounting
  <2>6. Pipe'
    BY <2>1 DEF BookInv, Pipe
  <2>7. i \in ran /\ i \notin completedIids /\ \A n \in Nodes : i \notin wire[n]
    BY DEF BookInv, Pipe
  <2>8. StillOpen'
    BY <2>1, <2>7 DEF BookInv, StillOpen
  <2> QED BY <2>5, <2>6, <2>8 DEF BookInv
<1>14. ASSUME NEW i \in issued, Run(i) \/ Break(i)
       PROVE  BookInv'
  <2>1. CASE Break(i)
    <3>1. UNCHANGED bookInvVars
      BY <2>1 DEF Break, bookInvVars
    <3> QED BY <3>1, BookInvStutter
  <2>2. CASE Run(i)
    <3>1. /\ i \notin ran /\ ran' = ran \cup {i}
          /\ wire' = [wire EXCEPT ![table[i].node] = @ \cup {i}]
          /\ UNCHANGED <<table, iidHigh, remaining, total, retired, abandoned, downSet,
                         issued, completedIids, batch>>
      BY <2>2 DEF Run, Runnable
    <3>2. Books' /\ Accounting'
      BY <3>1 DEF BookInv, Books, Accounting
    <3>3. /\ wire' \in [Nodes -> SUBSET ran']
          /\ \A n \in Nodes : wire'[n] = IF n = table[i].node THEN wire[n] \cup {i} ELSE wire[n]
      BY <3>1 DEF BookInv, Pipe
    <3>4. Pipe'
      BY <3>1, <3>3 DEF BookInv, Pipe
    <3>5. StillOpen'
      BY <3>1, <3>3 DEF BookInv, Pipe, StillOpen
    <3> QED BY <3>2, <3>4, <3>5 DEF BookInv
  <2> QED BY <1>14, <2>1, <2>2
<1> QED
  BY <1>1, <1>2, <1>3, <1>4, <1>5, <1>6, <1>7, <1>8, <1>9, <1>10, <1>11, <1>12, <1>13, <1>14
  DEF Next, DispatchStep, AttachStep, NodeStep, EveryNodeDown, NothingLost, Recover

(* What retired() and abandoned() count is what was planned less what is   *)
(* open, whatever fails and in whatever order reports and failures arrive. *)
THEOREM BooksBalance ==
    ASSUME Stale = {}
    PROVE  Spec => []Accounting
<1>1. Init => BookInv
  BY BookInvInit
<1>2. BookInv /\ [Next]_vars => BookInv'
  BY BookInvStep
<1>3. BookInv => Accounting
  BY DEF BookInv
<1> QED BY <1>1, <1>2, <1>3, PTL DEF Spec

-----------------------------------------------------------------------------
OkClosed == answer = "ok" => pc = "done" /\ remaining = {}

LEMMA OkClosedStep ==
    ASSUME BookInv, OkClosed, [Next]_vars
    PROVE  OkClosed'
<1> USE DEF sharedVars, bookVars, ctlVars, dogVars, execVars, netVars, envVars
<1>1. CASE Finish
  <2>1. remaining' = remaining /\ retired + abandoned >= total
    BY <1>1 DEF Finish
  <2>2. Cardinality(remaining) \in Nat
    BY FS_CardinalityType DEF BookInv, Books
  <2>3. Cardinality(remaining) = 0
    BY <2>1, <2>2 DEF BookInv, Books, Accounting
  <2>4. remaining = {}
    BY <2>3, FS_EmptySet DEF BookInv, Books
  <2> QED BY <1>1, <2>1, <2>4 DEF Finish, Return, OkClosed
<1>2. CASE /\ DispatchStep
           /\ ~Finish
  <2>1. pc # "done" /\ (answer' = answer \/ answer' = "err")
    BY <1>2 DEF DispatchStep, AwaitNodes, ClearState, Setup, SetupFail, StartJob, ShipSegment,
        ShipFail, ShipNext, Abort, Proceed, NoneDown, EveryNodeDown, NothingLost, Recover,
        AbandonDown, Arm, TakeNone, TakeBatch, Wake, Skip, Retire, Return
  <2> QED BY <2>1 DEF OkClosed
<1>3. CASE \/ WatchdogStep \/ NodeStep \/ UNCHANGED vars
           \/ \E n \in Nodes : AttachStep(n) \/ Fault(n)
  <2>1. UNCHANGED <<answer, pc, remaining>>
    BY <1>3 DEF vars, WatchdogStep, WatchdogScan, WatchdogMark, WatchdogNotify, NodeStep, Run,
        Break, AttachStep, Register, Heartbeat, Deliver, DeliverFailed, StreamEnd, Fault,
        Crash, Stall, Resume
  <2> QED BY <2>1 DEF OkClosed
<1> QED BY <1>1, <1>2, <1>3 DEF Next

(* Nothing is open when the job is answered "ok": not one instruction of   *)
(* any plan, first or recovery, is still expected from a live node.        *)
THEOREM OkMeansNothingOpen ==
    ASSUME Stale = {}
    PROVE  Spec => [](answer = "ok" => remaining = {})
<1>1. Init => BookInv /\ OkClosed
  BY BookInvInit DEF Init, OkClosed
<1>2. BookInv /\ OkClosed /\ [Next]_vars => BookInv' /\ OkClosed'
  BY BookInvStep, OkClosedStep
<1>3. OkClosed => (answer = "ok" => remaining = {})
  BY DEF OkClosed
<1> QED BY <1>1, <1>2, <1>3, PTL DEF Spec

-----------------------------------------------------------------------------
(* Storage.  An output enters `durable` when its STORE retires, and a      *)
(* STORE that was executed has written: DurableIsStored rests on that      *)
(* through the pipe from `ran` to `batch`.                                 *)
StoreInv ==
    /\ stored \in [Keys -> Nat]
    /\ buffer \in [Nodes -> [Keys -> Nat]]
    /\ durable \in SUBSET Keys
    /\ \A i \in DOMAIN table : table[i].key \in Keys /\ table[i].node \in Nodes
    /\ \A i \in ran : table[i].step = StoreStep => stored[table[i].key] > 0
    /\ DurableIsStored

storeInvVars == <<table, ran, stored, buffer, durable>>

LEMMA StoreInvInit == Init => StoreInv
<1>1. Init => DOMAIN table = {} /\ ran = {}
  BY DEF Init
<1> QED BY <1>1 DEF Init, StoreInv, DurableIsStored

LEMMA StoreInvStutter ==
    ASSUME StoreInv, UNCHANGED storeInvVars
    PROVE  StoreInv'
  BY DEF StoreInv, DurableIsStored, storeInvVars

(* A new plan leaves the entries of what was executed as they are.         *)
LEMMA StartPlanStores ==
    ASSUME BookInv, StoreInv,
           NEW live \in SUBSET Nodes, live # {},
           NEW R \in SUBSET Keys, NEW before,
           StartPlan(R, live, before),
           UNCHANGED <<ran, stored, buffer, durable>>
    PROVE  StoreInv'
<1> DEFINE new == PlanIids(R, live, iidHigh)
<1>1. iidHigh \in Nat
  BY DEF BookInv, Books
<1>2. \A i \in new : i > iidHigh
  BY <1>1, PlanIidsFresh
<1>3. DOMAIN PlanTable(R, live, iidHigh) = new
  BY DEF PlanTable
<1>4. /\ DOMAIN table' = DOMAIN table \cup new
      /\ \A i \in DOMAIN table \ new : table'[i] = table[i]
      /\ \A i \in new : /\ table'[i].key = PlanTable(R, live, iidHigh)[i].key
                        /\ table'[i].node = PlanTable(R, live, iidHigh)[i].node
  BY <1>3 DEF StartPlan
<1>5. \A i \in new : table'[i].key \in Keys /\ table'[i].node \in Nodes
  <2> SUFFICES ASSUME NEW i \in new
               PROVE  table'[i].key \in Keys /\ table'[i].node \in Nodes
    OBVIOUS
  <2>1. PlanTable(R, live, iidHigh)[i] \in [key : R, step : Steps, node : live, seg : Nat]
    BY <1>1, TableType
  <2> QED BY <1>4, <2>1
<1> HIDE DEF new
<1>6. \A i \in DOMAIN table : i \notin new
  BY <1>1, <1>2 DEF BookInv, Books
<1>7. \A i \in DOMAIN table' : table'[i].key \in Keys /\ table'[i].node \in Nodes
  BY <1>4, <1>5 DEF StoreInv
<1>8. \A i \in ran : table'[i] = table[i]
  BY <1>4, <1>6 DEF BookInv, Pipe
<1> QED BY <1>7, <1>8 DEF StoreInv, DurableIsStored

LEMMA StoreInvStep ==
    ASSUME BookInv, StoreInv, [Next]_vars
    PROVE  StoreInv'
<1> USE DEF sharedVars, bookVars, ctlVars, dogVars, execVars, netVars, envVars
<1>1. CASE UNCHANGED vars
  BY <1>1, StoreInvStutter DEF vars, storeInvVars
<1>2. CASE \/ AwaitNodes \/ ClearState \/ Setup \/ SetupFail
           \/ ShipSegment \/ ShipFail \/ ShipNext
           \/ Finish \/ Abort \/ Proceed \/ NoneDown \/ EveryNodeDown \/ NothingLost
           \/ Arm \/ TakeNone \/ TakeBatch \/ Wake \/ \E i \in batch : Skip(i)
  <2>1. UNCHANGED storeInvVars
    BY <1>2 DEF storeInvVars, AwaitNodes, ClearState, Setup, SetupFail, ShipSegment, ShipFail,
        ShipNext, Finish, Abort, Proceed, NoneDown, EveryNodeDown, NothingLost, AbandonDown,
        Arm, TakeNone, TakeBatch, Wake, Skip
  <2> QED BY <2>1, StoreInvStutter
<1>3. CASE StartJob
  <2>1. Nodes # {}
    BY PlanAssumption DEF Nodes
  <2> QED BY <1>3, <2>1, StartPlanStores DEF StartJob
<1>4. CASE Recover
  <2>1. Survivors \in SUBSET Nodes /\ LostOutputs \in SUBSET Keys
    BY DEF Survivors, LostOutputs, Lost
  <2> QED BY <1>4, <2>1, StartPlanStores DEF Recover, AbandonDown
<1>5. ASSUME NEW i \in batch, Retire(i)
      PROVE  StoreInv'
  <2>1. UNCHANGED <<table, ran, stored, buffer>>
    BY <1>5 DEF Retire
  <2>2. \/ UNCHANGED durable
        \/ /\ table[i].step = StoreStep
           /\ durable' = durable \cup {table[i].key}
    BY <1>5 DEF Retire, Stores
  <2>3. i \in ran /\ i \in DOMAIN table
    BY DEF BookInv, Pipe
  <2>4. /\ table[i].key \in Keys
        /\ table[i].step = StoreStep => stored[table[i].key] > 0
    BY <2>3 DEF StoreInv
  <2> QED BY <2>1, <2>2, <2>4 DEF StoreInv, DurableIsStored
<1>6. ASSUME NEW i \in issued, Run(i)
      PROVE  StoreInv'
  <2> DEFINE k == table[i].key
  <2> DEFINE n == table[i].node
  <2>1. /\ UNCHANGED <<table, durable>>
        /\ ran' = ran \cup {i}
        /\ \/ UNCHANGED stored /\ table[i].step # StoreStep
           \/ stored' = [stored EXCEPT ![k] = buffer[n][k] + 1]
        /\ \/ UNCHANGED buffer
           \/ buffer' = [buffer EXCEPT ![n][k] = stored[k]]
    BY <1>6 DEF Run
  <2>2. i \in DOMAIN table /\ k \in Keys /\ n \in Nodes
    BY DEF BookInv, Pipe, StoreInv
  <2>3. stored[k] \in Nat /\ buffer[n][k] \in Nat /\ buffer[n] \in [Keys -> Nat]
    BY <2>2 DEF StoreInv
  <2> HIDE DEF k, n
  <2>4. buffer' \in [Nodes -> [Keys -> Nat]]
    BY <2>1, <2>2, <2>3 DEF StoreInv
  <2>5. /\ stored' \in [Keys -> Nat]
        /\ \A j \in Keys : stored[j] > 0 => stored'[j] > 0
        /\ table[i].step = StoreStep => stored'[k] > 0
    BY <2>1, <2>2, <2>3 DEF StoreInv
  <2>6. \A j \in ran : table[j].key \in Keys
    BY DEF BookInv, Pipe, StoreInv
  <2>7. \A j \in ran' : table'[j].step = StoreStep => stored'[table'[j].key] > 0
    <3> SUFFICES ASSUME NEW j \in ran', table[j].step = StoreStep
                 PROVE  stored'[table[j].key] > 0
      BY <2>1
    <3>1. CASE j \in ran
      BY <3>1, <2>5, <2>6 DEF StoreInv
    <3>2. CASE j = i
      BY <3>2, <2>5 DEF k
    <3> QED BY <2>1, <3>1, <3>2
  <2>8. DurableIsStored'
    BY <2>1, <2>5 DEF StoreInv, DurableIsStored
  <2> QED BY <2>1, <2>4, <2>5, <2>7, <2>8 DEF StoreInv
<1>7. CASE \/ WatchdogStep \/ \E i \in issued : Break(i)
           \/ \E n \in Nodes : AttachStep(n) \/ Fault(n)
  <2>1. UNCHANGED storeInvVars
    BY <1>7 DEF storeInvVars, WatchdogStep, WatchdogScan, WatchdogMark, WatchdogNotify, Break,
        AttachStep, Register, Heartbeat, Deliver, DeliverFailed, StreamEnd, Fault, Crash,
        Stall, Resume
  <2> QED BY <2>1, StoreInvStutter
<1> QED BY <1>1, <1>2, <1>3, <1>4, <1>5, <1>6, <1>7 DEF Next, DispatchStep, NodeStep

(* What the dispatcher takes for durable, and recovery leaves out, is in   *)
(* storage: whatever crashes between the write and its report, and however *)
(* late reports of nodes that were given up arrive.                        *)
THEOREM DurableOutputsStored ==
    ASSUME Stale = {}
    PROVE  Spec => []DurableIsStored
<1>1. Init => BookInv /\ StoreInv
  BY BookInvInit, StoreInvInit
<1>2. BookInv /\ StoreInv /\ [Next]_vars => BookInv' /\ StoreInv'
  BY BookInvStep, StoreInvStep
<1>3. StoreInv => DurableIsStored
  BY DEF StoreInv
<1> QED BY <1>1, <1>2, <1>3, PTL DEF Spec

-----------------------------------------------------------------------------
(* What StartPlan adds to the table *)

LEMMA TableNode ==
    ASSUME NEW live, NEW R, NEW base, NEW i \in PlanIids(R, live, base)
    PROVE  PlanTable(R, live, base)[i].node = Placement(PlanTable(R, live, base)[i].key, live)
  BY DEF PlanTable

LEMMA NewEntries ==
    ASSUME BookInv,
           NEW live \in SUBSET Nodes, live # {},
           NEW R \in SUBSET Keys, NEW before,
           StartPlan(R, live, before)
    PROVE  /\ \A i \in DOMAIN table : i \in DOMAIN table' /\ table'[i] = table[i]
           /\ \A i \in DOMAIN table' \ DOMAIN table :
                table'[i].node = Placement(table'[i].key, live)
           /\ \A k \in R : \E i \in PlanIids(R, live, iidHigh) :
                /\ table'[i].key = k /\ table'[i].step = StoreStep
                /\ table'[i].node = Placement(k, live)
           /\ total' = total + Cardinality(PlanIids(R, live, iidHigh))
<1> DEFINE new == PlanIids(R, live, iidHigh)
<1>1. iidHigh \in Nat
  BY DEF BookInv, Books
<1>2. \A i \in new : i > iidHigh
  BY <1>1, PlanIidsFresh
<1>3. DOMAIN PlanTable(R, live, iidHigh) = new
  BY DEF PlanTable
<1>4. /\ DOMAIN table' = DOMAIN table \cup new
      /\ \A i \in DOMAIN table \ new : table'[i] = table[i]
      /\ \A i \in new : /\ table'[i].key = PlanTable(R, live, iidHigh)[i].key
                        /\ table'[i].step = PlanTable(R, live, iidHigh)[i].step
                        /\ table'[i].node = PlanTable(R, live, iidHigh)[i].node
      /\ total' = total + Cardinality(new)
  BY <1>3 DEF StartPlan, TotalWith
<1>5. \A i \in new : table'[i].node = Placement(table'[i].key, live)
  BY <1>4, TableNode
<1>6. ASSUME NEW k \in R
      PROVE  \E i \in new : /\ table'[i].key = k /\ table'[i].step = StoreStep
                            /\ table'[i].node = Placement(k, live)
  <2> DEFINE i == Iid(k, StoreStep, R, live, iidHigh)
  <2>1. StoreStep \in Steps
    BY PlanAssumption DEF StoreStep, Steps
  <2>2. /\ i \in new
        /\ PlanTable(R, live, iidHigh)[i].key = k
        /\ PlanTable(R, live, iidHigh)[i].step = StoreStep
        /\ PlanTable(R, live, iidHigh)[i].node = Placement(k, live)
    BY <1>1, <2>1, TableEntry
  <2> HIDE DEF i, new
  <2> QED BY <1>4, <2>2
<1> HIDE DEF new
<1>7. \A i \in DOMAIN table : i \notin new
  BY <1>1, <1>2 DEF BookInv, Books
<1> QED BY <1>4, <1>5, <1>6, <1>7 DEF new

-----------------------------------------------------------------------------
(* Only the node f is ever taken for dead.                                 *)
OneSuspect(f) ==
    /\ health \in [Nodes -> {"up", "stalled", "crashed"}]
    /\ \A n \in Nodes : health[n] # "up" => n = f
    /\ lastSeen \in SUBSET Nodes
    /\ silent \in SUBSET {f} /\ down \in SUBSET {f} /\ downSet \in SUBSET {f}

LEMMA OneSuspectStep ==
    ASSUME NEW f, MayCrash \cup MayStall \subseteq {f},
           OneSuspect(f), [Next]_vars
    PROVE  OneSuspect(f)'
<1> USE DEF sharedVars, bookVars, ctlVars, dogVars, execVars, netVars, envVars
<1>1. CASE UNCHANGED vars
  BY <1>1 DEF vars, OneSuspect
<1>2. CASE DispatchStep
  <2>1. CASE EveryNodeDown \/ NothingLost \/ Recover
    BY <2>1 DEF OneSuspect, EveryNodeDown, NothingLost, Recover, AbandonDown
  <2>2. CASE ~(EveryNodeDown \/ NothingLost \/ Recover)
    <3>1. /\ UNCHANGED <<health, lastSeen, silent, downSet>>
          /\ down' = down \/ down' = {}
      BY <1>2, <2>2 DEF DispatchStep, AwaitNodes, ClearState, Setup, SetupFail, StartJob,
          ShipSegment, ShipFail, ShipNext, Finish, Abort, Proceed, NoneDown, Arm, TakeNone,
          TakeBatch, Wake, Skip, Retire
    <3> QED BY <3>1 DEF OneSuspect
  <2> QED BY <2>1, <2>2
<1>3. CASE WatchdogStep
  <2>1. UNCHANGED <<health, downSet>> /\ lastSeen' \in SUBSET lastSeen
    BY <1>3 DEF WatchdogStep, WatchdogScan, WatchdogMark, WatchdogNotify
  <2>2. silent' \in SUBSET {f} /\ down' \in SUBSET {f}
    BY <1>3 DEF OneSuspect, WatchdogStep, WatchdogScan, WatchdogMark, WatchdogNotify
  <2> QED BY <2>1, <2>2 DEF OneSuspect
<1>4. CASE NodeStep
  BY <1>4 DEF NodeStep, Run, Break, OneSuspect
<1>5. ASSUME NEW n \in Nodes, AttachStep(n)
      PROVE  OneSuspect(f)'
  BY <1>5 DEF OneSuspect, AttachStep, Register, Heartbeat, Deliver, DeliverFailed, StreamEnd
<1>6. ASSUME NEW n \in Nodes, Fault(n)
      PROVE  OneSuspect(f)'
  BY <1>6 DEF OneSuspect, Fault, Crash, Stall, Resume
<1> QED BY <1>1, <1>2, <1>3, <1>4, <1>5, <1>6 DEF Next

-----------------------------------------------------------------------------
(* How far the job has come, and that the first plan puts an output on its *)
(* owner, by which recovery goes.                                          *)
Setting == pc \in {"await", "clear", "setup"}

Progress ==
    /\ pc # "done" => answer = "none"
    /\ Setting => DOMAIN table = {} /\ total = 0 /\ downSet = {}
    /\ ~Setting /\ answer # "err" => total > 0

FirstPlan ==
    downSet = {} =>
        /\ recovering = {}
        /\ \A i \in DOMAIN table : table[i].node = Owner(table[i].key)

CoverInv == Progress /\ FirstPlan /\ OutputCovered

coverVars == <<table, remaining, total, downSet, durable, recovering>>

LEMMA CoverStutter ==
    ASSUME CoverInv, UNCHANGED coverVars,
           answer' = answer \/ (answer = "none" /\ answer' = "err"),
           pc' # "done" => answer' = "none",
           Setting' => Setting,
           Setting /\ ~Setting' => answer' = "err"
    PROVE  CoverInv'
<1>1. FirstPlan' /\ OutputCovered'
  BY DEF CoverInv, FirstPlan, OutputCovered, coverVars
<1>2. Progress'
  BY DEF CoverInv, Progress, coverVars
<1> QED BY <1>1, <1>2 DEF CoverInv

LEMMA CoverStart ==
    ASSUME BookInv, CoverInv, StartJob
    PROVE  CoverInv'
<1> USE DEF sharedVars, dogVars, execVars, netVars, envVars
<1> DEFINE new == PlanIids(Keys, Nodes, iidHigh)
<1>1. Nodes # {} /\ Nodes \in SUBSET Nodes /\ Keys \in SUBSET Keys /\ 0 \in Keys
  BY PlanAssumption DEF Nodes, Keys
<1>2. /\ StartPlan(Keys, Nodes, plans) /\ remaining' = remaining \cup new
      /\ UNCHANGED <<downSet, durable, recovering, answer>>
      /\ pc' = "ship" /\ Setting /\ pc # "done"
  BY DEF StartJob, StartPlan, Setting
<1>3. DOMAIN table = {} /\ total = 0 /\ downSet = {} /\ recovering = {}
  BY <1>2 DEF CoverInv, Progress, FirstPlan
<1>4. /\ \A i \in DOMAIN table' \ DOMAIN table :
            table'[i].node = Placement(table'[i].key, Nodes)
      /\ \A k \in Keys : \E i \in new : table'[i].key = k /\ table'[i].step = StoreStep
      /\ total' = total + Cardinality(new)
  BY <1>1, <1>2, NewEntries
<1>5. iidHigh \in Nat
  BY DEF BookInv, Books
<1>6. Cardinality(new) \in Nat
  BY <1>1, <1>5, PlanIidsFresh, FS_CardinalityType
<1>7. /\ \A i \in DOMAIN table' : table'[i].node = Placement(table'[i].key, Nodes)
      /\ \A k \in Keys : \E i \in new : table'[i].key = k /\ table'[i].step = StoreStep
      /\ total' = Cardinality(new)
  <2>1. \A i \in DOMAIN table' : table'[i].node = Placement(table'[i].key, Nodes)
    BY <1>3, <1>4
  <2>2. total' = Cardinality(new)
    BY <1>3, <1>4, <1>6
  <2> QED BY <1>4, <2>1, <2>2
<1>8. IsFiniteSet(new) /\ new # {}
  BY <1>1, <1>7, PlanIidsFresh DEF BookInv, Books
<1> HIDE DEF new
<1>9. total' > 0
  BY <1>7, <1>8, FS_EmptySet, FS_CardinalityType
<1>10. OutputCovered'
  BY <1>2, <1>3, <1>7 DEF OutputCovered
<1>11. FirstPlan'
  <2> SUFFICES ASSUME NEW i \in DOMAIN table' PROVE table'[i].node = Owner(table'[i].key)
    BY <1>2, <1>3 DEF FirstPlan
  <2>1. table'[i].key \in Keys
    <3>1. DOMAIN table' = new /\ table'[i].key = PlanTable(Keys, Nodes, iidHigh)[i].key
      BY <1>2, <1>3 DEF StartPlan, PlanTable, new
    <3>2. PlanTable(Keys, Nodes, iidHigh)[i] \in [key : Keys, step : Steps, node : Nodes, seg : Nat]
      BY <1>1, <3>1, TableType DEF new, BookInv, Books
    <3> QED BY <3>1, <3>2
  <2> QED BY <1>7, <2>1, FirstPlacement
<1>12. Progress'
  BY <1>2, <1>9 DEF CoverInv, Progress, Setting
<1> QED BY <1>10, <1>11, <1>12 DEF CoverInv

(* The one suspect is reported down: what it still owed is planned anew    *)
(* for the survivors, or durable.                                          *)
LEMMA CoverDown ==
    ASSUME NEW f, OneSuspect(f), BookInv, StoreInv, CoverInv,
           EveryNodeDown \/ NothingLost \/ Recover
    PROVE  CoverInv'
<1> USE DEF sharedVars, dogVars, execVars, netVars, envVars
<1>1. /\ pc = "down" /\ NewlyDown # {} /\ downSet' = downSet \cup down
      /\ UNCHANGED durable
  BY DEF EveryNodeDown, NothingLost, Recover, AbandonDown
<1>2. downSet = {} /\ down = {f} /\ NewlyDown = {f} /\ downSet' = {f}
  BY <1>1 DEF OneSuspect, NewlyDown
<1>3. /\ answer = "none" /\ total > 0 /\ recovering = {}
      /\ \A i \in DOMAIN table : table[i].node = Owner(table[i].key)
  BY <1>1, <1>2 DEF CoverInv, Progress, Setting, FirstPlan
<1>4. \A k \in Keys : \/ k \in durable
                      \/ \E i \in remaining : /\ table[i].key = k /\ table[i].step = StoreStep
                                              /\ i \notin OpenOn(NewlyDown)
                      \/ k \in LostOutputs
  <2> SUFFICES ASSUME NEW k \in Keys, k \notin durable, k \notin LostOutputs
               PROVE  \E i \in remaining : /\ table[i].key = k /\ table[i].step = StoreStep
                                           /\ i \notin OpenOn(NewlyDown)
    OBVIOUS
  <2>1. PICK i \in remaining : table[i].key = k /\ table[i].step = StoreStep
    BY <1>3 DEF CoverInv, OutputCovered
  <2>2. Owner(k) \notin {f}
    BY <1>2, <1>3 DEF LostOutputs, Lost
  <2>3. table[i].node # f
    BY <1>3, <2>1, <2>2 DEF BookInv, Books
  <2> QED BY <1>2, <2>1, <2>3 DEF OpenOn
<1>5. \A i \in remaining \ OpenOn(NewlyDown) : table[i].node \notin downSet'
  BY <1>2 DEF OpenOn
<1>6. FirstPlan'
  BY <1>2 DEF FirstPlan
<1>7. CASE EveryNodeDown
  <2>1. /\ answer' = "err" /\ pc' = "done" /\ UNCHANGED <<table, total>>
    BY <1>7 DEF EveryNodeDown, Return
  <2> QED BY <1>6, <2>1 DEF CoverInv, Progress, Setting, OutputCovered
<1>8. CASE NothingLost
  <2>1. /\ LostOutputs = {} /\ remaining' = remaining \ OpenOn(NewlyDown) /\ pc' = "check"
        /\ UNCHANGED <<table, total, answer>>
    BY <1>8 DEF NothingLost
  <2>2. OutputCovered'
    BY <1>1, <1>4, <1>5, <2>1 DEF OutputCovered
  <2>3. Progress'
    BY <1>3, <2>1 DEF Progress, Setting
  <2> QED BY <1>6, <2>2, <2>3 DEF CoverInv
<1>9. CASE Recover
  <2> DEFINE new == PlanIids(LostOutputs, Survivors, iidHigh)
  <2> DEFINE kept == remaining \ OpenOn(NewlyDown)
  <2>1. /\ StartPlan(LostOutputs, Survivors, WithoutDown) /\ Survivors # {}
        /\ remaining' = kept \cup new /\ pc' = "ship" /\ UNCHANGED answer
    BY <1>9 DEF Recover, StartPlan
  <2>2. /\ Survivors \in SUBSET Nodes /\ LostOutputs \in SUBSET Keys
        /\ Survivors = Nodes \ downSet'
    BY <1>1 DEF Survivors, LostOutputs, Lost
  <2>3. /\ \A i \in DOMAIN table : table'[i] = table[i]
        /\ \A k \in LostOutputs : \E i \in new :
              /\ table'[i].key = k /\ table'[i].step = StoreStep
              /\ table'[i].node = Placement(k, Survivors)
        /\ total' = total + Cardinality(new)
    BY <2>1, <2>2, NewEntries
  <2>4. Cardinality(new) \in Nat
    BY <2>1, <2>2, PlanIidsFresh, FS_CardinalityType DEF BookInv, Books
  <2>5. \A k \in LostOutputs : Placement(k, Survivors) \notin downSet'
    BY <2>1, <2>2, PlacementLive
  <2> HIDE DEF new
  <2>6. OutputCovered'
    <3> SUFFICES ASSUME NEW k \in Keys, k \notin durable
                 PROVE  \E i \in remaining' : /\ table'[i].key = k /\ table'[i].step = StoreStep
                                              /\ table'[i].node \notin downSet'
      BY <1>1 DEF OutputCovered
    <3>1. CASE k \in LostOutputs
      BY <2>1, <2>3, <2>5, <3>1
    <3>2. CASE k \notin LostOutputs
      <4>1. PICK i \in kept : table[i].key = k /\ table[i].step = StoreStep
        BY <1>4, <3>2
      <4>2. i \in remaining' /\ table'[i] = table[i] /\ table[i].node \notin downSet'
        BY <1>5, <2>1, <2>3, <4>1 DEF BookInv, Books
      <4> QED BY <4>1, <4>2
    <3> QED BY <3>1, <3>2
  <2>7. Progress'
    BY <1>3, <2>1, <2>3, <2>4 DEF Progress, Setting, BookInv, Books
  <2> QED BY <1>6, <2>6, <2>7 DEF CoverInv
<1> QED BY <1>7, <1>8, <1>9

LEMMA CoverStep ==
    ASSUME NEW f, OneSuspect(f), BookInv, StoreInv, CoverInv, [Next]_vars
    PROVE  CoverInv'
<1> USE DEF sharedVars, bookVars, ctlVars, dogVars, execVars, netVars, envVars
<1>1. CASE StartJob
  BY <1>1, CoverStart
<1>2. CASE EveryNodeDown \/ NothingLost \/ Recover
  BY <1>2, CoverDown
<1>3. ASSUME NEW i \in batch, Retire(i)
      PROVE  CoverInv'
  <2>1. /\ UNCHANGED <<table, total, downSet, answer>>
        /\ remaining' = remaining \ {i}
        /\ recovering' \in SUBSET recovering
        /\ durable \subseteq durable'
        /\ table[i].step = StoreStep => table[i].key \in durable'
        /\ pc = "batch" /\ pc' \in {"ship", "check", "batch"}
    BY <1>3 DEF Retire, Stores
  <2>2. OutputCovered'
    BY <2>1 DEF CoverInv, OutputCovered
  <2>3. Progress' /\ FirstPlan'
    BY <2>1 DEF CoverInv, Progress, Setting, FirstPlan
  <2> QED BY <2>2, <2>3 DEF CoverInv
<1>4. CASE \/ AwaitNodes \/ ClearState \/ Setup \/ SetupFail
           \/ ShipSegment \/ ShipFail \/ ShipNext
           \/ Finish \/ Abort \/ Proceed \/ NoneDown
           \/ Arm \/ TakeNone \/ TakeBatch \/ Wake \/ \E i \in batch : Skip(i)
  <2>1. UNCHANGED coverVars
    BY <1>4 DEF coverVars, AwaitNodes, ClearState, Setup, SetupFail, ShipSegment, ShipFail,
        ShipNext, Finish, Abort, Proceed, NoneDown, Arm, TakeNone, TakeBatch, Wake, Skip
  <2>2. pc # "done" /\ answer = "none"
    BY <1>4 DEF CoverInv, Progress, AwaitNodes, ClearState, Setup, SetupFail, ShipSegment,
        ShipFail, ShipNext, Finish, Abort, Proceed, NoneDown, Arm, TakeNone, TakeBatch, Wake, Skip
  <2>3. CASE Finish
    <3>1. /\ ~Setting /\ pc' = "done" /\ answer' = "ok"
      BY <2>3 DEF Finish, Return, Setting
    <3>2. OutputCovered' /\ FirstPlan'
      BY <2>1, <2>2 DEF CoverInv, OutputCovered, FirstPlan, coverVars
    <3>3. Progress'
      BY <2>1, <2>2, <3>1 DEF CoverInv, Progress, Setting, coverVars
    <3> QED BY <3>2, <3>3 DEF CoverInv
  <2>4. CASE SetupFail \/ ShipFail \/ Abort
    <3>1. pc' = "done" /\ answer' = "err"
      BY <2>4 DEF SetupFail, ShipFail, Abort, Return
    <3> QED BY <2>1, <2>2, <3>1, CoverStutter DEF Setting
  <2>5. CASE ~(Finish \/ SetupFail \/ ShipFail \/ Abort)
    <3>1. /\ answer' = answer
          /\ Setting' <=> Setting
      BY <1>4, <2>5 DEF Setting, AwaitNodes, ClearState, Setup, ShipSegment, ShipNext, Proceed,
          NoneDown, Arm, TakeNone, TakeBatch, Wake, Skip
    <3> QED BY <2>1, <2>2, <3>1, CoverStutter
  <2> QED BY <2>3, <2>4, <2>5
<1>5. CASE \/ UNCHANGED vars \/ WatchdogStep \/ NodeStep
           \/ \E n \in Nodes : AttachStep(n) \/ Fault(n)
  <2>1. UNCHANGED coverVars /\ UNCHANGED <<pc, answer>>
    BY <1>5 DEF vars, coverVars, WatchdogStep, WatchdogScan, WatchdogMark, WatchdogNotify,
        NodeStep, Run, Break, AttachStep, Register, Heartbeat, Deliver, DeliverFailed,
        StreamEnd, Fault, Crash, Stall, Resume
  <2> QED BY <2>1 DEF CoverInv, Progress, Setting, FirstPlan, OutputCovered, coverVars
<1> QED BY <1>1, <1>2, <1>3, <1>4, <1>5 DEF Next, DispatchStep

-----------------------------------------------------------------------------
(* Everything together.                                                    *)
PromiseInv(f) == OneSuspect(f) /\ BookInv /\ StoreInv /\ CoverInv /\ OkClosed

LEMMA PromiseInit ==
    ASSUME Stale = {}, NEW f, Init
    PROVE  PromiseInv(f)
<1>1. BookInv /\ StoreInv
  BY BookInvInit, StoreInvInit
<1>2. OneSuspect(f) /\ OkClosed
  BY DEF Init, OneSuspect, OkClosed
<1>3. DOMAIN table = {}
  BY DEF Init
<1>4. CoverInv
  BY <1>3 DEF Init, CoverInv, Progress, Setting, FirstPlan, OutputCovered
<1> QED BY <1>1, <1>2, <1>4 DEF PromiseInv

LEMMA PromiseStep ==
    ASSUME NEW f, MayCrash \cup MayStall \subseteq {f}, PromiseInv(f), [Next]_vars
    PROVE  PromiseInv(f)'
  BY OneSuspectStep, BookInvStep, StoreInvStep, CoverStep, OkClosedStep DEF PromiseInv

(* With nothing open, covered means stored.                                *)
LEMMA ClosedMeansStored ==
    ASSUME StoreInv, CoverInv, remaining = {}, ~Setting, answer # "err"
    PROVE  \A k \in Keys : stored[k] > 0
  BY DEF StoreInv, DurableIsStored, CoverInv, Progress, OutputCovered

LEMMA PromiseSafe == \A f : PromiseInv(f) => OutputCovered /\ OkMeansStored
<1> SUFFICES ASSUME NEW f, PromiseInv(f) PROVE OutputCovered /\ OkMeansStored
  OBVIOUS
<1>1. OutputCovered
  BY DEF PromiseInv, CoverInv
<1>2. answer = "ok" => remaining = {} /\ ~Setting
  BY DEF PromiseInv, OkClosed, Setting
<1>3. OkMeansStored
  BY <1>2, ClosedMeansStored DEF PromiseInv, OkMeansStored
<1> QED BY <1>1, <1>3

(* While the job has not failed, every output is stored or still expected  *)
(* from a node not known to be dead: recovery plans what a lost node owed. *)
THEOREM OutputsCovered ==
    ASSUME Stale = {}, NEW CONSTANT f, MayCrash \cup MayStall \subseteq {f}
    PROVE  Spec => []OutputCovered
<1>1. Init => PromiseInv(f)
  BY PromiseInit
<1>2. PromiseInv(f) /\ [Next]_vars => PromiseInv(f)'
  BY PromiseStep
<1>3. PromiseInv(f) => OutputCovered
  BY PromiseSafe
<1> QED BY <1>1, <1>2, <1>3, PTL DEF Spec

(* A job that dispatch() reports done has all its outputs in storage.      *)
THEOREM OkMeansAllStored ==
    ASSUME Stale = {}, NEW CONSTANT f, MayCrash \cup MayStall \subseteq {f}
    PROVE  Spec => []OkMeansStored
<1>1. Init => PromiseInv(f)
  BY PromiseInit
<1>2. PromiseInv(f) /\ [Next]_vars => PromiseInv(f)'
  BY PromiseStep
<1>3. PromiseInv(f) => OkMeansStored
  BY PromiseSafe
<1> QED BY <1>1, <1>2, <1>3, PTL DEF Spec

-----------------------------------------------------------------------------
(* The refinement *)

Stored == {k \in Keys : stored[k] > 0}

LEMMA RefineStep ==
    ASSUME NEW f, PromiseInv(f), [Next]_vars
    PROVE  [JobView!JobNext]_JobView!jobVars
<1> USE DEF sharedVars, bookVars, ctlVars, dogVars, execVars, netVars, envVars
<1>1. CASE Finish
  <2>1. /\ answer = "none" /\ answer' = "ok" /\ stored' = stored
        /\ remaining' = remaining /\ ~Setting
    BY <1>1 DEF PromiseInv, CoverInv, Progress, Finish, Return, Setting
  <2>2. remaining = {}
    BY <2>1, OkClosedStep DEF PromiseInv, OkClosed
  <2>3. Stored = Keys
    BY <2>1, <2>2, ClosedMeansStored DEF PromiseInv, Stored
  <2>4. JobView!AnswerOk
    BY <2>1, <2>3 DEF JobView!AnswerOk, Stored
  <2> QED BY <2>4 DEF JobView!JobNext
<1>2. CASE SetupFail \/ ShipFail \/ Abort \/ EveryNodeDown
  <2>1. answer = "none" /\ answer' = "err" /\ stored' = stored
    BY <1>2 DEF PromiseInv, CoverInv, Progress, SetupFail, ShipFail, Abort, EveryNodeDown,
        AbandonDown, Return
  <2>2. JobView!AnswerErr
    BY <2>1 DEF JobView!AnswerErr
  <2> QED BY <2>2 DEF JobView!JobNext
<1>3. ASSUME NEW i \in issued, Run(i)
      PROVE  [JobView!JobNext]_JobView!jobVars
  <2> DEFINE n == table[i].node
  <2>1. table[i].key \in Keys /\ n \in Nodes
    BY DEF PromiseInv, BookInv, Pipe, StoreInv
  <2>2. PICK k \in Keys : k = table[i].key
    BY <2>1
  <2>3. k \in Keys /\ n \in Nodes
    BY <2>1, <2>2
  <2>4. /\ answer' = answer
        /\ \/ stored' = stored
           \/ stored' = [stored EXCEPT ![k] = buffer[n][k] + 1]
    BY <1>3, <2>2 DEF Run
  <2>5. stored \in [Keys -> Nat] /\ buffer[n][k] \in Nat
    BY <2>3 DEF PromiseInv, StoreInv
  <2> HIDE DEF n
  <2>6. Stored' = Stored \/ (k \notin Stored /\ Stored' = Stored \cup {k})
    BY <2>3, <2>4, <2>5 DEF Stored
  <2>7. CASE Stored' = Stored
    BY <2>4, <2>7 DEF JobView!jobVars, Stored
  <2>8. CASE k \notin Stored /\ Stored' = Stored \cup {k}
    <3>1. JobView!StoreOutput(k)
      BY <2>4, <2>8 DEF JobView!StoreOutput, Stored
    <3> QED BY <2>3, <3>1 DEF JobView!JobNext
  <2> QED BY <2>6, <2>7, <2>8
<1>4. CASE /\ DispatchStep
           /\ ~(Finish \/ SetupFail \/ ShipFail \/ Abort \/ EveryNodeDown)
  <2>1. UNCHANGED <<answer, stored>>
    BY <1>4 DEF DispatchStep, AwaitNodes, ClearState, Setup, StartJob, ShipSegment, ShipNext,
        Proceed, NoneDown, NothingLost, Recover, AbandonDown, Arm, TakeNone, TakeBatch, Wake,
        Skip, Retire
  <2> QED BY <2>1 DEF JobView!jobVars
<1>5. CASE \/ UNCHANGED vars \/ WatchdogStep \/ \E i \in issued : Break(i)
           \/ \E n \in Nodes : AttachStep(n) \/ Fault(n)
  <2>1. UNCHANGED <<answer, stored>>
    BY <1>5 DEF vars, WatchdogStep, WatchdogScan, WatchdogMark, WatchdogNotify, Break,
        AttachStep, Register, Heartbeat, Deliver, DeliverFailed, StreamEnd, Fault, Crash,
        Stall, Resume
  <2> QED BY <2>1 DEF JobView!jobVars
<1> QED BY <1>1, <1>2, <1>3, <1>4, <1>5 DEF Next, NodeStep

(* The dispatcher implements JobSpec: outputs reach storage one by one and *)
(* stay there, and the answer is "ok" only when all of them have.          *)
THEOREM KeepsPromise ==
    ASSUME Stale = {}, NEW CONSTANT f, MayCrash \cup MayStall \subseteq {f}
    PROVE  Spec => JobPromise
<1>1. Init => PromiseInv(f) /\ JobView!JobInit
  <2>1. Init => JobView!JobInit
    BY DEF Init, JobView!JobInit
  <2> QED BY <2>1, PromiseInit
<1>2. PromiseInv(f) /\ [Next]_vars => PromiseInv(f)'
  BY PromiseStep
<1>3. PromiseInv(f) /\ [Next]_vars => [JobView!JobNext]_JobView!jobVars
  BY RefineStep
<1> QED BY <1>1, <1>2, <1>3, PTL DEF Spec, JobPromise, JobView!Job

-----------------------------------------------------------------------------
(* Types *)

PlanRecord == [next : [Nodes -> Nat], inflight : [Nodes -> Int], segs : [Nodes -> Nat]]

Entry(P) == [plan : P, node : Nodes, seg : Nat, key : Keys, step : Steps]

(* TypeOK by parts: the State and the watchdog, the books, the control of  *)
(* the dispatcher, the nodes and their messages.                           *)
SharedType ==
    /\ nodes \in SUBSET Nodes /\ lastSeen \in SUBSET Nodes /\ down \in SUBSET Nodes
    /\ completedIids \in SUBSET Nat
    /\ failure \in BOOLEAN /\ waiter \in {"none", "armed", "woken"}
    /\ silent \in SUBSET Nodes /\ marked \in BOOLEAN

BooksType ==
    /\ plans \in Seq(PlanRecord)
    /\ iidHigh \in Nat /\ DOMAIN table \in SUBSET (1 .. iidHigh)
    /\ \A i \in DOMAIN table : table[i] \in Entry(DOMAIN plans)
    /\ remaining \in SUBSET DOMAIN table
    /\ total \in Nat /\ retired \in Nat /\ abandoned \in Nat
    /\ downSet \in SUBSET Nodes /\ durable \in SUBSET Keys /\ recovering \in SUBSET Keys

ControlType ==
    /\ pc \in {"await", "clear", "setup", "ship", "check", "down", "arm", "take",
               "wait", "batch", "done"}
    /\ todo \in Seq(Nodes) /\ (pc = "ship" => todo # <<>> /\ shipping \in DOMAIN plans)
    /\ shipping \in Nat /\ batch \in SUBSET Nat
    /\ answer \in {"none", "ok", "err"}

NodeType ==
    /\ health \in [Nodes -> {"up", "stalled", "crashed"}] /\ linked \in SUBSET Nodes
    /\ issued \in SUBSET DOMAIN table
    /\ ran \in SUBSET issued /\ broken \in SUBSET issued
    /\ wire \in [Nodes -> SUBSET Nat] /\ failWire \in SUBSET Nodes
    /\ buffer \in [Nodes -> [Keys -> Nat]]
    /\ stored \in [Keys -> Nat]

AllTypes == SharedType /\ BooksType /\ ControlType /\ NodeType

LEMMA TypeOKByParts == TypeOK <=> AllTypes
  BY DEF TypeOK, AllTypes, SharedType, BooksType, ControlType, NodeType, PlanRecord, Entry

sharedTypeVars == <<nodes, lastSeen, down, completedIids, failure, waiter, silent, marked>>
nodeTypeVars == <<health, linked, issued, ran, broken, wire, failWire, buffer, stored>>

LEMMA SharedStutter == SharedType /\ UNCHANGED sharedTypeVars => SharedType'
  BY DEF SharedType, sharedTypeVars

LEMMA BooksStutter == BooksType /\ UNCHANGED bookVars => BooksType'
  BY DEF BooksType, bookVars

LEMMA ControlStutter == ControlType /\ UNCHANGED <<ctlVars, plans>> => ControlType'
  BY DEF ControlType, ctlVars

LEMMA NodeStutter ==
    ASSUME NodeType, UNCHANGED nodeTypeVars, DOMAIN table \subseteq DOMAIN table'
    PROVE  NodeType'
  BY DEF NodeType, nodeTypeVars

-----------------------------------------------------------------------------
(* The operators of the specification *)

(* Ascending(S) lists the elements of S, and is empty only if S is.        *)
LEMMA AscendingType ==
    ASSUME NEW S \in SUBSET Nodes
    PROVE  /\ Ascending(S) \in Seq(Nodes)
           /\ S # {} => Ascending(S) # <<>>
<1>1. IsFiniteSet(S) /\ S \in SUBSET Nat
  BY NodesAndKeysFinite, FS_Subset
<1>2. Cardinality(S) \in Nat
  BY <1>1, FS_CardinalityType
<1>3. \A i \in 1 .. Cardinality(S) : Nth(S, i - 1) \in Nodes
  <2> SUFFICES ASSUME NEW i \in 1 .. Cardinality(S) PROVE Nth(S, i - 1) \in S
    OBVIOUS
  <2>1. i - 1 \in 0 .. Cardinality(S) - 1
    BY <1>2
  <2> QED BY <1>1, <2>1, NthExists
<1>4. Ascending(S) \in Seq(Nodes) /\ Len(Ascending(S)) = Cardinality(S)
  BY <1>2, <1>3 DEF Ascending
<1>5. S # {} => Cardinality(S) # 0
  BY <1>1, FS_EmptySet
<1> QED BY <1>4, <1>5

LEMMA SegmentCountType ==
    ASSUME NEW live \in SUBSET Nodes, NEW R \in SUBSET Keys
    PROVE  SegmentCount(R, live) \in [Nodes -> Nat]
<1> SUFFICES ASSUME NEW n \in Nodes
             PROVE  (Cardinality({k \in R : Placement(k, live) = n}) * ChainLen + SegLen - 1)
                        \div SegLen \in Nat
  BY DEF SegmentCount
<1> DEFINE mine == {k \in R : Placement(k, live) = n}
<1>1. Cardinality(mine) \in Nat
  BY NodesAndKeysFinite, FS_Subset, FS_CardinalityType
<1> HIDE DEF mine
<1>2. Cardinality(mine) * ChainLen \in Nat /\ SegLen \in Nat \ {0}
  BY <1>1, PlanAssumption
<1>3. Cardinality(mine) * ChainLen + SegLen - 1 \in Nat
  BY <1>2
<1> QED BY <1>2, <1>3 DEF mine

LEMMA OpenFinite ==
    ASSUME BooksType, NEW N
    PROVE  Cardinality(OpenOn(N)) \in Nat
<1>1. IsFiniteSet(1 .. iidHigh)
  BY FS_Interval DEF BooksType
<1>2. OpenOn(N) \subseteq 1 .. iidHigh
  BY DEF BooksType, OpenOn
<1> QED BY <1>1, <1>2, FS_Subset, FS_CardinalityType

LEMMA NoPlanType == NoPlan \in PlanRecord
  BY DEF NoPlan, PlanRecord

LEMMA WithoutDownType ==
    ASSUME BooksType
    PROVE  WithoutDown \in Seq(PlanRecord) /\ DOMAIN WithoutDown = DOMAIN plans
<1>1. \A p \in DOMAIN plans : plans[p] \in PlanRecord
  BY DEF BooksType
<1>2. \A p \in DOMAIN plans : WithoutDown[p] \in PlanRecord
  BY <1>1 DEF WithoutDown, PlanRecord
<1> QED BY <1>2 DEF BooksType, WithoutDown

(* StartPlan's new table, plans and control, whatever is open.             *)
LEMMA StartPlanTypes ==
    ASSUME AllTypes,
           NEW live \in SUBSET Nodes, live # {},
           NEW R \in SUBSET Keys,
           NEW before \in Seq(PlanRecord), DOMAIN before = DOMAIN plans,
           StartPlan(R, live, before),
           remaining' \in SUBSET (remaining \cup PlanIids(R, live, iidHigh)),
           retired' = retired, abandoned' \in Nat,
           downSet' \in SUBSET Nodes, durable' = durable, recovering' \in SUBSET Keys,
           batch' = batch, answer' = answer, UNCHANGED nodeTypeVars
    PROVE  BooksType' /\ ControlType' /\ NodeType'
<1> DEFINE new == PlanIids(R, live, iidHigh)
<1> DEFINE plan == [NoPlan EXCEPT !.segs = SegmentCount(R, live)]
<1>1. iidHigh \in Nat
  BY DEF AllTypes, BooksType
<1>2. /\ IsFiniteSet(new)
      /\ new \subseteq (iidHigh + 1) .. iidHigh'
      /\ iidHigh' \in Nat /\ iidHigh' >= iidHigh
  BY <1>1, PlanIidsFresh DEF StartPlan, HighWith
<1>3. DOMAIN PlanTable(R, live, iidHigh) = new
  BY DEF PlanTable
<1>4. total' \in Nat
  BY <1>2, <1>3, FS_CardinalityType DEF StartPlan, TotalWith, AllTypes, BooksType
<1>5. plan \in PlanRecord
  BY NoPlanType, SegmentCountType DEF PlanRecord
<1> HIDE DEF plan
<1>6. /\ plans' \in Seq(PlanRecord)
      /\ DOMAIN plans' = DOMAIN plans \cup {Len(before) + 1}
      /\ Len(before) + 1 \in Nat
  <2>1. plans' = Append(before, plan)
    BY DEF StartPlan, plan
  <2> QED BY <2>1, <1>5
<1>7. /\ DOMAIN table' = DOMAIN table \cup new
      /\ \A i \in DOMAIN table \ new : table'[i] = table[i]
      /\ \A i \in new : table'[i] =
            [plan |-> Len(before) + 1, node |-> PlanTable(R, live, iidHigh)[i].node,
             seg |-> PlanTable(R, live, iidHigh)[i].seg,
             key |-> PlanTable(R, live, iidHigh)[i].key,
             step |-> PlanTable(R, live, iidHigh)[i].step]
  BY <1>3 DEF StartPlan
<1>8. \A i \in new : table'[i] \in Entry(DOMAIN plans')
  <2> SUFFICES ASSUME NEW i \in new PROVE table'[i] \in Entry(DOMAIN plans')
    OBVIOUS
  <2>1. PlanTable(R, live, iidHigh)[i] \in [key : R, step : Steps, node : live, seg : Nat]
    BY <1>1, TableType
  <2> QED BY <1>6, <1>7, <2>1 DEF Entry
<1> HIDE DEF new
<1>9. \A i \in DOMAIN table' : table'[i] \in Entry(DOMAIN plans')
  <2>1. \A i \in DOMAIN table : table[i] \in Entry(DOMAIN plans')
    BY <1>6 DEF AllTypes, BooksType, Entry
  <2> QED BY <1>7, <1>8, <2>1
<1>10. DOMAIN table' \in SUBSET (1 .. iidHigh')
  <2> SUFFICES ASSUME NEW i \in DOMAIN table' PROVE i \in 1 .. iidHigh'
    OBVIOUS
  <2>1. CASE i \in DOMAIN table
    BY <1>1, <1>2, <2>1 DEF AllTypes, BooksType
  <2>2. CASE i \in new
    BY <1>1, <1>2, <2>2
  <2> QED BY <1>7, <2>1, <2>2
<1>11. remaining' \in SUBSET DOMAIN table'
  BY <1>7 DEF AllTypes, BooksType, new
<1>12. BooksType'
  BY <1>2, <1>4, <1>6, <1>9, <1>10, <1>11 DEF AllTypes, BooksType
<1>13. ControlType'
  <2>1. /\ todo' = Ascending(live) /\ pc' = "ship" /\ shipping' = Len(before) + 1
    BY DEF StartPlan
  <2> QED BY <1>6, <2>1, AscendingType DEF AllTypes, ControlType
<1>14. NodeType'
  BY <1>7, NodeStutter DEF AllTypes
<1> QED BY <1>12, <1>13, <1>14

-----------------------------------------------------------------------------
LEMMA TypeStep ==
    ASSUME AllTypes, [Next]_vars
    PROVE  AllTypes'
<1> USE DEF sharedVars, ctlVars, dogVars, execVars, netVars, envVars
<1>1. CASE UNCHANGED vars
  BY <1>1, SharedStutter, BooksStutter, ControlStutter, NodeStutter
  DEF AllTypes, vars, sharedTypeVars, nodeTypeVars, bookVars
<1>2. CASE \/ AwaitNodes \/ SetupFail \/ ShipFail \/ Finish \/ Abort \/ Proceed \/ NoneDown
           \/ Arm \/ TakeNone \/ TakeBatch \/ Wake \/ \E i \in batch : Skip(i)
  <2>1. UNCHANGED <<bookVars, table, plans, nodeTypeVars, todo, shipping>>
    BY <1>2 DEF bookVars, nodeTypeVars, AwaitNodes, SetupFail, ShipFail, Finish, Abort, Proceed,
        NoneDown, Arm, TakeNone, TakeBatch, Wake, Skip
  <2>2. SharedType'
    BY <1>2 DEF AllTypes, SharedType, AwaitNodes, SetupFail, ShipFail, Finish, Abort, Proceed,
        NoneDown, Arm, TakeNone, TakeBatch, Wake, Skip
  <2>3. ControlType'
    BY <1>2, <2>1 DEF AllTypes, SharedType, ControlType, AwaitNodes, SetupFail, ShipFail,
        Finish, Abort, Proceed, NoneDown, Arm, TakeNone, TakeBatch, Wake, Skip, Return
  <2> QED BY <2>1, <2>2, <2>3, BooksStutter, NodeStutter DEF AllTypes
<1>3. CASE ClearState \/ Setup \/ ShipNext
  <2>1. UNCHANGED <<bookVars, table, plans, nodeTypeVars, shipping, batch, answer>>
    BY <1>3 DEF bookVars, nodeTypeVars, ClearState, Setup, ShipNext
  <2>2. SharedType'
    BY <1>3 DEF AllTypes, SharedType, ClearState, Setup, ShipNext
  <2>3. todo' \in Seq(Nodes)
    <3>1. CASE ClearState
      BY <3>1, AscendingType DEF ClearState
    <3>2. CASE Setup \/ ShipNext
      <4>1. todo # <<>> /\ todo' = Tail(todo)
        BY <3>2 DEF Setup, ShipNext, AllTypes, ControlType
      <4> QED BY <4>1 DEF AllTypes, ControlType
    <3> QED BY <1>3, <3>1, <3>2
  <2>4. /\ pc' \in {"setup", "ship", "batch", "check"}
        /\ pc' = "ship" => pc = "ship" /\ todo' # <<>>
    BY <1>3 DEF ClearState, Setup, ShipNext
  <2>5. ControlType'
    BY <2>1, <2>3, <2>4 DEF AllTypes, ControlType
  <2> QED BY <2>1, <2>2, <2>5, BooksStutter, NodeStutter DEF AllTypes
<1>4. CASE StartJob
  <2>1. Nodes # {} /\ Nodes \in SUBSET Nodes /\ Keys \in SUBSET Keys
    BY PlanAssumption DEF Nodes
  <2>2. /\ plans \in Seq(PlanRecord) /\ StartPlan(Keys, Nodes, plans)
        /\ remaining' \in SUBSET (remaining \cup PlanIids(Keys, Nodes, iidHigh))
        /\ UNCHANGED <<retired, abandoned, downSet, durable, recovering, batch, answer>>
        /\ UNCHANGED sharedTypeVars /\ UNCHANGED nodeTypeVars
    BY <1>4 DEF StartJob, AllTypes, BooksType, sharedTypeVars, nodeTypeVars
  <2>3. abandoned' \in Nat /\ downSet' \in SUBSET Nodes /\ recovering' \in SUBSET Keys
    BY <2>2 DEF AllTypes, BooksType
  <2>4. BooksType' /\ ControlType' /\ NodeType'
    BY <2>1, <2>2, <2>3, StartPlanTypes
  <2> QED BY <2>2, <2>4, SharedStutter DEF AllTypes
<1>5. CASE ShipSegment
  <2> DEFINE n == Head(todo)
  <2>1. /\ plans' = Shipped(shipping, n)
        /\ issued' = issued \cup SegIids(shipping, n, plans[shipping].next[n] + 1)
        /\ UNCHANGED <<table, remaining, total, retired, abandoned, iidHigh, downSet,
                       durable, recovering, ctlVars, sharedTypeVars>>
        /\ UNCHANGED <<health, linked, ran, broken, wire, failWire, buffer, stored>>
    BY <1>5 DEF ShipSegment, sharedTypeVars
  <2>2. n \in Nodes /\ shipping \in DOMAIN plans /\ plans[shipping] \in PlanRecord
    BY <1>5 DEF ShipSegment, AllTypes, ControlType, BooksType
  <2>3. SegBytes \in Nat
    BY DispatchAssumption
  <2>4. /\ plans[shipping].inflight[n] + SegBytes \in Int
        /\ plans[shipping].next[n] + 1 \in Nat
    BY <2>2, <2>3 DEF PlanRecord
  <2> HIDE DEF n
  <2>5. plans' \in Seq(PlanRecord) /\ DOMAIN plans' = DOMAIN plans
    <3> DEFINE plan == plans[shipping]
    <3> DEFINE rec == [plan EXCEPT
                  !.inflight = [plan.inflight EXCEPT ![n] = plan.inflight[n] + SegBytes],
                  !.next     = [plan.next EXCEPT ![n] = plan.next[n] + 1]]
    <3>1. rec \in PlanRecord
      BY <2>2, <2>4 DEF PlanRecord
    <3>2. plans' = [plans EXCEPT ![shipping] = rec]
      BY <2>1, <2>2 DEF Shipped, AllTypes, BooksType
    <3> HIDE DEF rec
    <3> QED BY <2>2, <3>1, <3>2 DEF AllTypes, BooksType
  <2>6. BooksType'
    BY <2>1, <2>5 DEF AllTypes, BooksType
  <2>7. ControlType'
    BY <2>1, <2>5 DEF AllTypes, ControlType
  <2>8. NodeType'
    BY <2>1 DEF AllTypes, NodeType, SegIids
  <2> QED BY <2>1, <2>6, <2>7, <2>8, SharedStutter DEF AllTypes
<1>6. CASE EveryNodeDown \/ NothingLost \/ Recover
  <2>1. /\ down' = {} /\ downSet' = downSet \cup down
        /\ abandoned' = abandoned + Cardinality(OpenOn(NewlyDown))
        /\ UNCHANGED <<nodes, lastSeen, completedIids, failure, waiter, silent, marked,
                       retired, durable, batch, nodeTypeVars>>
    BY <1>6 DEF EveryNodeDown, NothingLost, Recover, AbandonDown, NewlyAbandoned, nodeTypeVars
  <2>2. SharedType'
    BY <2>1 DEF AllTypes, SharedType
  <2>3. abandoned' \in Nat /\ downSet' \in SUBSET Nodes
    BY <2>1, OpenFinite DEF AllTypes, BooksType, SharedType
  <2>4. WithoutDown \in Seq(PlanRecord) /\ DOMAIN WithoutDown = DOMAIN plans
    BY WithoutDownType DEF AllTypes
  <2>5. CASE EveryNodeDown \/ NothingLost
    <3>1. /\ remaining' \in SUBSET remaining /\ plans' = WithoutDown
          /\ pc' \in {"done", "check"} /\ answer' \in {answer, "err"}
          /\ UNCHANGED <<todo, shipping, table, total, iidHigh, recovering>>
      BY <2>5 DEF EveryNodeDown, NothingLost, Return
    <3>2. BooksType'
      BY <2>1, <2>3, <2>4, <3>1 DEF AllTypes, BooksType
    <3>3. ControlType'
      BY <2>1, <3>1 DEF AllTypes, ControlType
    <3>4. NodeType'
      BY <2>1, <3>1, NodeStutter DEF AllTypes
    <3> QED BY <2>2, <3>2, <3>3, <3>4 DEF AllTypes
  <2>6. CASE Recover
    <3>1. Survivors \in SUBSET Nodes /\ LostOutputs \in SUBSET Keys
      BY DEF Survivors, LostOutputs, Lost
    <3>2. /\ Survivors # {} /\ StartPlan(LostOutputs, Survivors, WithoutDown)
          /\ remaining' \in SUBSET (remaining \cup PlanIids(LostOutputs, Survivors, iidHigh))
          /\ recovering' = recovering \cup LostOutputs /\ answer' = answer
      BY <2>6 DEF Recover
    <3>3. recovering' \in SUBSET Keys
      BY <3>1, <3>2 DEF AllTypes, BooksType
    <3>4. BooksType' /\ ControlType' /\ NodeType'
      BY <2>1, <2>3, <2>4, <3>1, <3>2, <3>3, StartPlanTypes
    <3> QED BY <2>2, <3>4 DEF AllTypes
  <2> QED BY <1>6, <2>5, <2>6
<1>7. ASSUME NEW i \in batch, Retire(i)
      PROVE  AllTypes'
  <2> DEFINE p == table[i].plan
  <2> DEFINE n == table[i].node
  <2>1. /\ i \in DOMAIN table
        /\ retired' = retired + 1 /\ remaining' = remaining \ {i} /\ batch' = batch \ {i}
        /\ durable' \in {durable, durable \cup {table[i].key}}
        /\ recovering' \in {recovering, recovering \ {table[i].key}}
        /\ UNCHANGED <<table, total, abandoned, iidHigh, downSet, answer, sharedTypeVars,
                       nodeTypeVars>>
    BY <1>7 DEF Retire, Known, sharedTypeVars, nodeTypeVars
  <2>2. /\ p \in DOMAIN plans /\ p \in Nat /\ n \in Nodes /\ table[i].key \in Keys
        /\ plans[p] \in PlanRecord
    BY <2>1 DEF AllTypes, BooksType, Entry
  <2>3. \/ plans' = Settled(p, n) /\ shipping' = p /\ todo' = <<n>> /\ pc' = "ship"
        \/ pc' \in {"check", "batch"} /\ UNCHANGED <<plans, shipping, todo>>
    BY <1>7 DEF Retire
  <2> HIDE DEF p, n
  <2>4. plans' \in Seq(PlanRecord) /\ DOMAIN plans' = DOMAIN plans
    <3>1. CASE plans' = Settled(p, n)
      <4> DEFINE rec == [plans[p] EXCEPT !.inflight =
                            [plans[p].inflight EXCEPT ![n] = plans[p].inflight[n] - SegBytes]]
      <4>1. plans[p].inflight[n] - SegBytes \in Int
        BY <2>2, DispatchAssumption DEF PlanRecord
      <4>2. rec \in PlanRecord
        BY <2>2, <4>1 DEF PlanRecord
      <4>3. plans' = [plans EXCEPT ![p] = rec]
        BY <3>1, <2>2 DEF Settled, AllTypes, BooksType
      <4> HIDE DEF rec
      <4> QED BY <2>2, <4>2, <4>3 DEF AllTypes, BooksType
    <3>2. CASE UNCHANGED plans
      BY <3>2 DEF AllTypes, BooksType
    <3> QED BY <2>3, <3>1, <3>2
  <2>5. BooksType'
    BY <2>1, <2>2, <2>4 DEF AllTypes, BooksType
  <2>6. ControlType'
    <3>1. batch' \in SUBSET Nat /\ answer' = answer
      BY <2>1 DEF AllTypes, ControlType
    <3>2. CASE shipping' = p /\ todo' = <<n>> /\ pc' = "ship"
      <4>1. <<n>> \in Seq(Nodes) /\ <<n>> # <<>>
        BY <2>2
      <4> QED BY <2>2, <2>4, <3>1, <3>2, <4>1 DEF AllTypes, ControlType
    <3>3. CASE pc' \in {"check", "batch"} /\ UNCHANGED <<shipping, todo>>
      BY <3>1, <3>3 DEF AllTypes, ControlType
    <3> QED BY <2>3, <3>2, <3>3
  <2> QED BY <2>1, <2>5, <2>6, SharedStutter, NodeStutter DEF AllTypes
<1>8. CASE WatchdogStep
  <2>1. UNCHANGED <<bookVars, table, ctlVars, plans, nodeTypeVars>>
    BY <1>8 DEF bookVars, nodeTypeVars, WatchdogStep, WatchdogScan, WatchdogMark, WatchdogNotify
  <2>2. SharedType'
    BY <1>8 DEF AllTypes, SharedType, WatchdogStep, WatchdogScan, WatchdogMark,
        WatchdogNotify, Woken
  <2> QED BY <2>1, <2>2, BooksStutter, ControlStutter, NodeStutter DEF AllTypes
<1>9. ASSUME NEW n \in Nodes, AttachStep(n) \/ Fault(n)
      PROVE  AllTypes'
  <2>1. UNCHANGED <<bookVars, table, ctlVars, plans, issued, ran, broken, buffer, stored>>
    BY <1>9 DEF bookVars, AttachStep, Register, Heartbeat, Deliver, DeliverFailed, StreamEnd,
        Fault, Crash, Stall, Resume
  <2>2. SharedType'
    BY <1>9 DEF AllTypes, SharedType, NodeType, AttachStep, Register, Heartbeat, Deliver,
        DeliverFailed, StreamEnd, Fault, Crash, Stall, Resume, Woken
  <2>3. NodeType'
    BY <1>9, <2>1 DEF AllTypes, NodeType, AttachStep, Register, Heartbeat, Deliver,
        DeliverFailed, StreamEnd, Fault, Crash, Stall, Resume
  <2> QED BY <2>1, <2>2, <2>3, BooksStutter, ControlStutter DEF AllTypes
<1>10. ASSUME NEW i \in issued, Run(i) \/ Break(i)
       PROVE  AllTypes'
  <2>1. UNCHANGED <<bookVars, table, ctlVars, plans, sharedTypeVars>>
    BY <1>10 DEF bookVars, sharedTypeVars, Run, Break
  <2>2. /\ i \in DOMAIN table /\ i \in Nat
        /\ table[i].node \in Nodes /\ table[i].key \in Keys
    BY DEF AllTypes, BooksType, NodeType, Entry
  <2>3. NodeType'
    <3>1. CASE Run(i)
      <4> DEFINE n == table[i].node
      <4> DEFINE k == table[i].key
      <4>1. stored[k] \in Nat /\ buffer[n][k] \in Nat /\ buffer[n] \in [Keys -> Nat]
        BY <2>2 DEF AllTypes, NodeType
      <4>2. /\ \/ UNCHANGED stored
               \/ stored' = [stored EXCEPT ![k] = buffer[n][k] + 1]
            /\ \/ UNCHANGED buffer
               \/ buffer' = [buffer EXCEPT ![n][k] = stored[k]]
            /\ wire' = [wire EXCEPT ![n] = @ \cup {i}]
            /\ ran' = ran \cup {i}
            /\ UNCHANGED <<table, broken, health, linked, failWire, issued>>
        BY <3>1, <2>1 DEF Run
      <4> HIDE DEF n, k
      <4>3. stored' \in [Keys -> Nat]
        BY <4>1, <4>2 DEF AllTypes, NodeType
      <4>4. buffer' \in [Nodes -> [Keys -> Nat]]
        BY <4>1, <4>2 DEF AllTypes, NodeType
      <4>5. wire' \in [Nodes -> SUBSET Nat]
        BY <2>2, <4>2 DEF AllTypes, NodeType
      <4> QED BY <4>2, <4>3, <4>4, <4>5 DEF AllTypes, NodeType
    <3>2. CASE Break(i)
      BY <2>1, <2>2, <3>2 DEF Break, AllTypes, NodeType
    <3> QED BY <1>10, <3>1, <3>2
  <2> QED BY <2>1, <2>3, SharedStutter, BooksStutter, ControlStutter DEF AllTypes
<1> QED
  BY <1>1, <1>2, <1>3, <1>4, <1>5, <1>6, <1>7, <1>8, <1>9, <1>10
  DEF Next, DispatchStep, NodeStep

LEMMA TypeInit == Init => AllTypes
<1> SUFFICES ASSUME Init PROVE AllTypes
  OBVIOUS
<1>1. SharedType /\ ControlType
  <2>1. SharedType
    BY DEF Init, SharedType
  <2>2. todo \in Seq(Nodes) /\ pc # "ship"
    BY DEF Init
  <2> QED BY <2>1, <2>2 DEF Init, ControlType
<1>2. DOMAIN table = {}
  BY DEF Init
<1>3. BooksType
  BY <1>2 DEF Init, BooksType
<1>4. NodeType
  BY <1>2, DispatchAssumption DEF Init, NodeType
<1> QED BY <1>1, <1>3, <1>4 DEF AllTypes

(* Every variable of the scheduler keeps its type, and an instruction that *)
(* is open, sent or executed is one that was planned, on a node of the job *)
(* and in a plan that exists: no index in the drain loop is out of range.  *)
THEOREM TypeCorrect == Spec => []TypeOK
<1>1. Init => AllTypes
  BY TypeInit
<1>2. AllTypes /\ [Next]_vars => AllTypes'
  BY TypeStep
<1>3. AllTypes => TypeOK
  BY TypeOKByParts
<1> QED BY <1>1, <1>2, <1>3, PTL DEF Spec

-----------------------------------------------------------------------------
(* The table after a plan was added: what was there, and below fresh ids   *)
(* each step of each chain once.                                           *)
LEMMA NewTable ==
    ASSUME BooksType,
           NEW live \in SUBSET Nodes, live # {},
           NEW R \in SUBSET Keys, NEW before,
           StartPlan(R, live, before)
    PROVE  LET new == PlanIids(R, live, iidHigh)
           IN /\ DOMAIN table' = DOMAIN table \cup new
              /\ DOMAIN table \cap new = {}
              /\ \A i \in DOMAIN table : table'[i] = table[i]
              /\ \A i \in new :
                    /\ table'[i].plan = shipping'
                    /\ table'[i].key \in R /\ table'[i].step \in Steps
                    /\ i = Iid(table'[i].key, table'[i].step, R, live, iidHigh)
                    /\ table'[i].node = Placement(table'[i].key, live)
                    /\ table'[i].seg = Segment(table'[i].key, table'[i].step, R, live)
              /\ \A k \in R, s \in Steps : Iid(k, s, R, live, iidHigh) \in new
              /\ \A k \in R, s \in Steps :
                    LET e == table'[Iid(k, s, R, live, iidHigh)]
                    IN e.key = k /\ e.step = s
<1> DEFINE new == PlanIids(R, live, iidHigh)
<1> DEFINE old == PlanTable(R, live, iidHigh)
<1>1. iidHigh \in Nat
  BY DEF BooksType
<1>2. \A i \in new : i > iidHigh
  BY <1>1, PlanIidsFresh
<1>3. DOMAIN old = new
  BY DEF PlanTable
<1>4. /\ DOMAIN table' = DOMAIN table \cup new
      /\ \A i \in DOMAIN table \ new : table'[i] = table[i]
      /\ \A i \in new : table'[i] = [plan |-> shipping', node |-> old[i].node,
                                     seg |-> old[i].seg, key |-> old[i].key,
                                     step |-> old[i].step]
  BY <1>3 DEF StartPlan
<1>5. \A i \in new : /\ old[i].key \in R /\ old[i].step \in Steps
                     /\ i = Iid(old[i].key, old[i].step, R, live, iidHigh)
                     /\ old[i].node = Placement(old[i].key, live)
                     /\ old[i].seg = Segment(old[i].key, old[i].step, R, live)
  BY <1>1, TableSlot
<1>6. \A k \in R, s \in Steps :
         /\ Iid(k, s, R, live, iidHigh) \in new
         /\ old[Iid(k, s, R, live, iidHigh)].key = k
         /\ old[Iid(k, s, R, live, iidHigh)].step = s
  BY <1>1, TableEntry
<1> HIDE DEF new, old
<1>7. DOMAIN table \cap new = {}
  BY <1>1, <1>2 DEF BooksType
<1>8. \A i \in DOMAIN table : table'[i] = table[i]
  BY <1>4, <1>7
<1>9. \A i \in new :
         /\ table'[i].plan = shipping'
         /\ table'[i].key \in R /\ table'[i].step \in Steps
         /\ i = Iid(table'[i].key, table'[i].step, R, live, iidHigh)
         /\ table'[i].node = Placement(table'[i].key, live)
         /\ table'[i].seg = Segment(table'[i].key, table'[i].step, R, live)
  BY <1>4, <1>5
<1>10. \A k \in R, s \in Steps :
         LET e == table'[Iid(k, s, R, live, iidHigh)]
         IN e.key = k /\ e.step = s
  BY <1>4, <1>6
<1> QED BY <1>4, <1>6, <1>7, <1>8, <1>9, <1>10 DEF new

-----------------------------------------------------------------------------
(* Repeated updates *)

(* The ids of a chain are consecutive, one for each step.                  *)
Chains ==
    \A i \in DOMAIN table : \A t \in Steps :
        LET j == i - table[i].step + t
        IN j \in DOMAIN table /\ table[j].key = table[i].key /\ table[j].step = t

(* An output is planned anew only once its owner was given up.             *)
OncePlanned ==
    \A i, j \in DOMAIN table :
        /\ table[i].key = table[j].key /\ table[i].step = table[j].step
        /\ Owner(table[i].key) \notin downSet
        => i = j
OnOwner ==
    \A i \in DOMAIN table :
        Owner(table[i].key) \notin downSet => table[i].node = Owner(table[i].key)

(* What was executed of a chain begins with its LOAD.                      *)
LoadedFirst == \A i \in ran : i - table[i].step + LoadStep \in ran

(* Until its STORE is executed, an output of a live node and the node's    *)
(* copy of it hold no update.                                              *)
NotStored(k) == \A i \in ran : table[i].key = k => table[i].step # StoreStep
StoredOnce ==
    \A k \in Keys : Owner(k) \notin downSet =>
        /\ stored[k] <= 1
        /\ NotStored(k) => stored[k] = 0 /\ buffer[Owner(k)][k] = 0

Unplanned == Setting => DOMAIN table = {}

RepeatInv == Unplanned /\ Chains /\ OncePlanned /\ OnOwner /\ LoadedFirst /\ StoredOnce
repeatVars == <<table, ran, stored, buffer>>

(* Giving up more nodes demands less.                                      *)
LEMMA RepeatFrame ==
    ASSUME RepeatInv, UNCHANGED repeatVars, downSet \subseteq downSet', Setting' => Setting
    PROVE  RepeatInv'
<1>1. Unplanned' /\ Chains' /\ LoadedFirst'
  BY DEF RepeatInv, Unplanned, Chains, LoadedFirst, repeatVars
<1>2. OncePlanned' /\ OnOwner'
  BY DEF RepeatInv, OncePlanned, OnOwner, repeatVars
<1>3. \A k : NotStored(k)' <=> NotStored(k)
  BY DEF NotStored, repeatVars
<1>4. StoredOnce'
  BY <1>3 DEF RepeatInv, StoredOnce, repeatVars
<1> QED BY <1>1, <1>2, <1>4 DEF RepeatInv

LEMMA StartPlanRepeats ==
    ASSUME AllTypes, RepeatInv,
           NEW live \in SUBSET Nodes, live # {},
           NEW R \in SUBSET Keys, NEW before,
           StartPlan(R, live, before),
           UNCHANGED <<ran, stored, buffer>>, downSet \subseteq downSet',
           \/ \A k \in R : Owner(k) \in downSet'
           \/ DOMAIN table = {} /\ live = Nodes
    PROVE  RepeatInv'
<1> DEFINE new == PlanIids(R, live, iidHigh)
<1>1. /\ DOMAIN table' = DOMAIN table \cup new
      /\ DOMAIN table \cap new = {}
      /\ \A i \in DOMAIN table : table'[i] = table[i]
      /\ \A i \in new :
            /\ table'[i].key \in R /\ table'[i].step \in Steps
            /\ i = Iid(table'[i].key, table'[i].step, R, live, iidHigh)
            /\ table'[i].node = Placement(table'[i].key, live)
      /\ \A k \in R, s \in Steps : Iid(k, s, R, live, iidHigh) \in new
      /\ \A k \in R, s \in Steps :
            /\ table'[Iid(k, s, R, live, iidHigh)].key = k
            /\ table'[Iid(k, s, R, live, iidHigh)].step = s
  BY NewTable DEF AllTypes
<1>2. iidHigh \in Nat
  BY DEF AllTypes, BooksType
<1>3. \A k \in R, s, t \in Steps :
         Iid(k, t, R, live, iidHigh) = Iid(k, s, R, live, iidHigh) - s + t
  BY <1>2, ChainIids
<1> HIDE DEF new
<1>4. Unplanned'
  BY DEF StartPlan, Unplanned, Setting
<1>5. Chains'
  <2> SUFFICES ASSUME NEW i \in DOMAIN table', NEW t \in Steps
               PROVE  LET j == i - table'[i].step + t
                      IN j \in DOMAIN table' /\ table'[j].key = table'[i].key
                         /\ table'[j].step = t
    BY DEF Chains
  <2>1. CASE i \in DOMAIN table
    BY <1>1, <2>1 DEF RepeatInv, Chains
  <2>2. CASE i \in new
    <3>1. i - table'[i].step + t = Iid(table'[i].key, t, R, live, iidHigh)
      BY <1>1, <1>3, <2>2
    <3> QED BY <1>1, <2>2, <3>1
  <2> QED BY <1>1, <2>1, <2>2
<1>6. OncePlanned'
  <2> SUFFICES ASSUME NEW i \in DOMAIN table', NEW j \in DOMAIN table',
                      table'[i].key = table'[j].key, table'[i].step = table'[j].step,
                      Owner(table'[i].key) \notin downSet'
               PROVE  i = j
    BY DEF OncePlanned
  <2>1. CASE i \in DOMAIN table /\ j \in DOMAIN table
    BY <1>1, <2>1 DEF RepeatInv, OncePlanned
  <2>2. CASE i \in new /\ j \in new
    BY <1>1, <2>2
  <2>3. (i \in new <=> j \in new)
    BY <1>1
  <2> QED BY <1>1, <2>1, <2>2, <2>3
<1>7. OnOwner'
  <2> SUFFICES ASSUME NEW i \in DOMAIN table', Owner(table'[i].key) \notin downSet'
               PROVE  table'[i].node = Owner(table'[i].key)
    BY DEF OnOwner
  <2>1. CASE i \in DOMAIN table
    BY <1>1, <2>1 DEF RepeatInv, OnOwner
  <2>2. CASE i \in new
    BY <1>1, <2>2, FirstPlacement
  <2> QED BY <1>1, <2>1, <2>2
<1>8. \A i \in ran : i \in DOMAIN table /\ table'[i] = table[i]
  BY <1>1 DEF AllTypes, NodeType
<1>9. LoadedFirst'
  BY <1>8 DEF RepeatInv, LoadedFirst
<1>10. StoredOnce'
  <2>1. \A k : NotStored(k)' <=> NotStored(k)
    BY <1>8 DEF NotStored
  <2> QED BY <2>1 DEF RepeatInv, StoredOnce
<1> QED BY <1>4, <1>5, <1>6, <1>7, <1>9, <1>10 DEF RepeatInv

(* A LOAD that is executed is the first step of its output's only chain,   *)
(* and a STORE is the only one: neither finds an update there.             *)
LEMMA RunRepeats ==
    ASSUME AllTypes, RepeatInv, NEW i \in issued, Run(i)
    PROVE  RepeatInv'
<1> DEFINE e == table[i]
<1>1. /\ i \notin ran /\ ran' = ran \cup {i} /\ UNCHANGED <<table, downSet, pc>>
      /\ e.step = LoadStep \/ i - 1 \in ran
  BY DEF Run, Runnable, ctlVars, bookVars
<1>2. /\ i \in DOMAIN table /\ e \in Entry(DOMAIN plans) /\ i \in Nat
      /\ ran \subseteq DOMAIN table
      /\ stored \in [Keys -> Nat] /\ buffer \in [Nodes -> [Keys -> Nat]]
  BY DEF AllTypes, NodeType, BooksType
<1>3. e.key \in Keys /\ e.node \in Nodes /\ e.step \in Steps
  BY <1>2 DEF Entry
<1>4. LoadStep \in Steps /\ StoreStep \in Steps /\ LoadStep # StoreStep
      /\ Steps \subseteq Nat
  BY PlanAssumption DEF Steps, LoadStep, StoreStep
<1>5. /\ stored' = IF e.step = StoreStep THEN [stored EXCEPT ![e.key] = buffer[e.node][e.key] + 1]
                                         ELSE stored
      /\ buffer' = IF Rmw /\ e.step = LoadStep
                   THEN [buffer EXCEPT ![e.node][e.key] = stored[e.key]] ELSE buffer
  BY DEF Run
<1> HIDE DEF e
<1>6. Unplanned' /\ Chains' /\ OncePlanned' /\ OnOwner'
  BY <1>1 DEF RepeatInv, Unplanned, Chains, OncePlanned, OnOwner, Setting
<1>7. LoadedFirst'
  <2> SUFFICES ASSUME NEW j \in ran' PROVE j - table[j].step + LoadStep \in ran'
    BY <1>1 DEF LoadedFirst
  <2>1. CASE j \in ran
    BY <1>1, <2>1 DEF RepeatInv, LoadedFirst
  <2>2. CASE j = i /\ e.step = LoadStep
    BY <1>1, <1>2, <1>4, <2>2 DEF e
  <2>3. CASE j = i /\ e.step # LoadStep
    <3>0. i \in Nat /\ e.step \in Nat /\ LoadStep \in Nat
      BY <1>2, <1>3, <1>4
    <3>1. i - 1 \in ran
      BY <1>1, <2>3
    <3>2. e.step - 1 \in Steps
      BY <1>3, <2>3, PlanAssumption DEF Steps, LoadStep
    <3>3. i - e.step + (e.step - 1) = i - 1
      BY <3>0
    <3>4. table[i - 1].step = e.step - 1
      BY <1>2, <3>2, <3>3 DEF RepeatInv, Chains, e
    <3>5. i - 1 - (e.step - 1) + LoadStep \in ran
      BY <3>1, <3>4 DEF RepeatInv, LoadedFirst
    <3>6. i - 1 - (e.step - 1) + LoadStep = i - e.step + LoadStep
      BY <3>0
    <3> QED BY <1>1, <2>3, <3>5, <3>6 DEF e
  <2> QED BY <1>1, <2>1, <2>2, <2>3
<1>8. ASSUME Owner(e.key) \notin downSet, e.step \in {LoadStep, StoreStep}
      PROVE  NotStored(e.key)
  <2> SUFFICES ASSUME NEW j \in ran, table[j].key = e.key, table[j].step = StoreStep
               PROVE  FALSE
    BY DEF NotStored
  <2>1. e.step # StoreStep
    BY <1>1, <1>2, <1>8 DEF RepeatInv, OncePlanned, e
  <2> DEFINE l == j - StoreStep + LoadStep
  <2>2. l \in ran /\ l \in DOMAIN table /\ table[l].key = e.key /\ table[l].step = LoadStep
    BY <1>2, <1>4 DEF RepeatInv, LoadedFirst, Chains
  <2> HIDE DEF l
  <2>3. l = i
    BY <1>2, <1>8, <2>1, <2>2 DEF RepeatInv, OncePlanned, e
  <2> QED BY <1>1, <2>2, <2>3
<1>9. StoredOnce'
  <2> SUFFICES ASSUME NEW k \in Keys, Owner(k) \notin downSet
               PROVE  /\ stored'[k] <= 1
                      /\ NotStored(k)' => stored'[k] = 0 /\ buffer'[Owner(k)][k] = 0
    BY <1>1 DEF StoredOnce
  <2>1. /\ stored[k] <= 1
        /\ NotStored(k) => stored[k] = 0 /\ buffer[Owner(k)][k] = 0
    BY DEF RepeatInv, StoredOnce
  <2>2. NotStored(k)' => NotStored(k) /\ (k = e.key => e.step # StoreStep)
    BY <1>1 DEF NotStored, e
  <2>3. Owner(k) \in Nodes
    BY PlanAssumption DEF Owner, Nodes, Keys
  <2>4. CASE k # e.key
    <3>1. stored'[k] = stored[k] /\ buffer'[Owner(k)][k] = buffer[Owner(k)][k]
      BY <1>2, <1>3, <1>5, <2>3, <2>4
    <3> QED BY <2>1, <2>2, <3>1
  <2>5. CASE k = e.key
    <3>1. e.node = Owner(k)
      BY <1>2, <2>5 DEF RepeatInv, OnOwner, e
    <3>2. CASE e.step = StoreStep
      <4>1. stored[k] = 0 /\ buffer[Owner(k)][k] = 0
        BY <1>8, <2>1, <2>5, <3>2
      <4>2. stored'[k] = 1
        BY <1>2, <1>5, <2>5, <3>1, <3>2, <4>1
      <4> QED BY <2>2, <2>5, <3>2, <4>2
    <3>3. CASE e.step = LoadStep
      <4>1. stored[k] = 0 /\ buffer[Owner(k)][k] = 0
        BY <1>8, <2>1, <2>5, <3>3
      <4>2. stored' = stored
        BY <1>4, <1>5, <3>3
      <4>3. buffer'[Owner(k)][k] = 0
        BY <1>2, <1>5, <2>3, <2>5, <3>1, <4>1
      <4> QED BY <4>1, <4>2, <4>3
    <3>4. CASE e.step \notin {LoadStep, StoreStep}
      BY <1>5, <2>1, <2>2, <3>4
    <3> QED BY <3>2, <3>3, <3>4
  <2> QED BY <2>4, <2>5
<1> QED BY <1>6, <1>7, <1>9 DEF RepeatInv

LEMMA RepeatStep ==
    ASSUME AllTypes, RepeatInv, [Next]_vars
    PROVE  RepeatInv'
<1> USE DEF sharedVars, bookVars, ctlVars, dogVars, execVars, netVars, envVars
<1>1. CASE StartJob
  <2>1. /\ StartPlan(Keys, Nodes, plans) /\ UNCHANGED <<ran, stored, buffer, downSet>>
        /\ Setting
    BY <1>1 DEF StartJob, Setting
  <2>2. DOMAIN table = {}
    BY <2>1 DEF RepeatInv, Unplanned
  <2>3. Nodes # {}
    BY PlanAssumption DEF Nodes
  <2> QED BY <2>1, <2>2, <2>3, StartPlanRepeats
<1>2. CASE Recover
  <2>1. /\ StartPlan(LostOutputs, Survivors, WithoutDown) /\ UNCHANGED <<ran, stored, buffer>>
        /\ downSet' = downSet \cup down /\ Survivors # {}
    BY <1>2 DEF Recover, AbandonDown
  <2>2. /\ Survivors \in SUBSET Nodes /\ LostOutputs \in SUBSET Keys
        /\ \A k \in LostOutputs : Owner(k) \in downSet'
    BY <2>1 DEF Survivors, LostOutputs, Lost
  <2> QED BY <2>1, <2>2, StartPlanRepeats
<1>3. CASE EveryNodeDown \/ NothingLost
  <2>1. /\ UNCHANGED repeatVars /\ downSet \subseteq downSet' /\ ~Setting'
    BY <1>3 DEF repeatVars, EveryNodeDown, NothingLost, AbandonDown, Setting, Return
  <2> QED BY <2>1, RepeatFrame
<1>4. ASSUME NEW i \in issued, Run(i) PROVE RepeatInv'
  BY <1>4, RunRepeats
<1>5. CASE \/ AwaitNodes \/ ClearState \/ Setup \/ SetupFail
           \/ ShipSegment \/ ShipFail \/ ShipNext
           \/ Finish \/ Abort \/ Proceed \/ NoneDown
           \/ Arm \/ TakeNone \/ TakeBatch \/ Wake
           \/ \E i \in batch : Skip(i) \/ Retire(i)
  <2>1. UNCHANGED repeatVars /\ UNCHANGED downSet
    BY <1>5 DEF repeatVars, AwaitNodes, ClearState, Setup, SetupFail, ShipSegment, ShipFail,
        ShipNext, Finish, Abort, Proceed, NoneDown, Arm, TakeNone, TakeBatch, Wake, Skip, Retire
  <2>2. Setting' => Setting
    BY <1>5 DEF Setting, Return, AwaitNodes, ClearState, Setup, SetupFail, ShipSegment, ShipFail,
        ShipNext, Finish, Abort, Proceed, NoneDown, Arm, TakeNone, TakeBatch, Wake, Skip, Retire
  <2> QED BY <2>1, <2>2, RepeatFrame
<1>6. CASE \/ UNCHANGED vars \/ WatchdogStep \/ \E i \in issued : Break(i)
           \/ \E n \in Nodes : AttachStep(n) \/ Fault(n)
  <2>1. UNCHANGED repeatVars /\ UNCHANGED <<downSet, pc>>
    BY <1>6 DEF repeatVars, vars, WatchdogStep, WatchdogScan, WatchdogMark, WatchdogNotify,
        Break, AttachStep, Register, Heartbeat, Deliver, DeliverFailed, StreamEnd, Fault, Crash,
        Stall, Resume
  <2> QED BY <2>1, RepeatFrame DEF Setting
<1> QED BY <1>1, <1>2, <1>3, <1>4, <1>5, <1>6 DEF Next, DispatchStep, NodeStep

LEMMA RepeatInit == Init => RepeatInv
<1> SUFFICES ASSUME Init PROVE RepeatInv
  OBVIOUS
<1>1. DOMAIN table = {} /\ ran = {}
  BY DEF Init
<1>2. \A k \in Keys : Owner(k) \in Nodes
  BY PlanAssumption DEF Owner, Nodes, Keys
<1>3. StoredOnce
  BY <1>2 DEF Init, StoredOnce
<1> QED BY <1>1, <1>3 DEF RepeatInv, Unplanned, Chains, OncePlanned, OnOwner, LoadedFirst

(* The output of a node that was not given up is updated once, whatever    *)
(* nodes recovery plans others for, and whatever stale reports arrive.     *)
THEOREM RepeatsOnlyTheLost == Spec => []RepeatsOnlyLost
<1>1. Init => AllTypes /\ RepeatInv
  BY TypeInit, RepeatInit
<1>2. AllTypes /\ RepeatInv /\ [Next]_vars => AllTypes' /\ RepeatInv'
  BY TypeStep, RepeatStep
<1>3. AllTypes /\ RepeatInv => RepeatsOnlyLost
  BY DEF AllTypes, NodeType, RepeatInv, StoredOnce, RepeatsOnlyLost
<1> QED BY <1>1, <1>2, <1>3, PTL DEF Spec
-----------------------------------------------------------------------------
(* Bytes in flight *)

(* Nothing is open on a node that was given up.                            *)
OpenOnLive == \A i \in remaining : table[i].node \notin downSet

(* A node's segments count from 1, none of them is empty, and only those   *)
(* up to next_seg have been sent.                                          *)
Filled ==
    \A p \in DOMAIN plans : \A n \in Nodes : \A s \in 1 .. plans[p].segs[n] :
        SegIids(p, n, s) # {}
FromOne == \A i \in DOMAIN table : table[i].seg >= 1
IssuedShipped ==
    \A i \in issued : table[i].node \notin downSet =>
        table[i].seg <= plans[table[i].plan].next[table[i].node]

(* What is in flight is within the budget or a single segment.             *)
PlanBudget ==
    \A p \in DOMAIN plans : \A n \in Nodes \ downSet :
        plans[p].inflight[n] <= Budget \/ plans[p].inflight[n] <= SegBytes

ShipInv == OpenOnLive /\ Filled /\ FromOne /\ IssuedShipped /\ InflightExact /\ PlanBudget

shipVars == <<plans, table, remaining, issued, downSet>>

LEMMA InflightByOpen ==
    InflightExact <=>
        \A p \in DOMAIN plans : \A n \in Nodes \ downSet :
            plans[p].inflight[n] = SegBytes * Cardinality(OpenSegs(p, n))
  BY DEF InflightExact, OpenSegs

LEMMA ShipStutter ==
    ASSUME ShipInv, UNCHANGED shipVars
    PROVE  ShipInv'
<1>1. \A p, n, s : /\ SegIids(p, n, s)' = SegIids(p, n, s)
                   /\ SegRemaining(p, n, s)' = SegRemaining(p, n, s)
  BY DEF SegIids, SegRemaining, shipVars
<1>2. OpenOnLive' /\ FromOne' /\ IssuedShipped' /\ PlanBudget'
  BY DEF ShipInv, OpenOnLive, FromOne, IssuedShipped, PlanBudget, shipVars
<1>3. Filled'
  BY <1>1 DEF ShipInv, Filled, shipVars
<1>4. InflightExact'
  BY <1>1 DEF ShipInv, InflightExact, shipVars
<1> QED BY <1>2, <1>3, <1>4 DEF ShipInv

(* Plans are added and nodes are given up: on the nodes that are left the  *)
(* earlier plans stay as they are.                                         *)
LEMMA ShipOthers ==
    ASSUME AllTypes, ShipInv,
           DOMAIN plans \subseteq DOMAIN plans', downSet \subseteq downSet',
           \A p \in DOMAIN plans :
              /\ plans'[p].segs = plans[p].segs
              /\ \A n \in Nodes \ downSet' : /\ plans'[p].next[n] = plans[p].next[n]
                                             /\ plans'[p].inflight[n] = plans[p].inflight[n],
           DOMAIN table \subseteq DOMAIN table',
           \A i \in DOMAIN table : table'[i] = table[i],
           \A i \in DOMAIN table' \ DOMAIN table :
              table'[i].plan \notin DOMAIN plans /\ table'[i].seg >= 1,
           \A i \in DOMAIN table :
              table[i].node \notin downSet' => (i \in remaining' <=> i \in remaining),
           \A i \in remaining' : table'[i].node \notin downSet',
           issued' = issued,
           \A p \in DOMAIN plans' \ DOMAIN plans : \A n \in Nodes :
              /\ plans'[p].next[n] = 0 /\ plans'[p].inflight[n] = 0
              /\ \A s \in 1 .. plans'[p].segs[n] : SegIids(p, n, s)' # {}
    PROVE  ShipInv'
<1>1. \A p \in DOMAIN plans : \A n, s : SegIids(p, n, s)' = SegIids(p, n, s)
  BY DEF SegIids
<1>2. \A p \in DOMAIN plans : \A n \in Nodes \ downSet' : \A s :
         SegRemaining(p, n, s)' = SegRemaining(p, n, s)
  <2> TAKE p \in DOMAIN plans
  <2> TAKE n \in Nodes \ downSet'
  <2> TAKE s
  <2>1. SegIids(p, n, s)' = SegIids(p, n, s)
    BY <1>1
  <2>2. \A i \in SegIids(p, n, s) : i \in remaining' <=> i \in remaining
    BY DEF SegIids
  <2> QED BY <2>1, <2>2 DEF SegRemaining
<1>3. OpenOnLive'
  BY DEF OpenOnLive
<1>4. Filled'
  <2> SUFFICES ASSUME NEW p \in DOMAIN plans', NEW n \in Nodes,
                      NEW s \in 1 .. plans'[p].segs[n]
               PROVE  SegIids(p, n, s)' # {}
    BY DEF Filled
  <2>1. CASE p \in DOMAIN plans
    <3>1. SegIids(p, n, s) # {}
      BY <2>1 DEF ShipInv, Filled
    <3> QED BY <1>1, <2>1, <3>1
  <2> QED BY <2>1
<1>5. FromOne'
  BY DEF ShipInv, FromOne
<1>6. IssuedShipped'
  <2> SUFFICES ASSUME NEW i \in issued, table'[i].node \notin downSet'
               PROVE  table'[i].seg <= plans'[table'[i].plan].next[table'[i].node]
    BY DEF IssuedShipped
  <2>1. /\ i \in DOMAIN table /\ table'[i] = table[i]
        /\ table[i].plan \in DOMAIN plans /\ table[i].node \in Nodes
    BY DEF AllTypes, BooksType, NodeType, Entry
  <2>2. table[i].seg <= plans[table[i].plan].next[table[i].node]
    BY <2>1 DEF ShipInv, IssuedShipped
  <2> QED BY <2>1, <2>2
<1>7. ASSUME NEW p \in DOMAIN plans, NEW n \in Nodes \ downSet'
      PROVE  /\ plans'[p].inflight[n] = SegBytes * Cardinality(OpenSegs(p, n)')
             /\ plans'[p].inflight[n] <= Budget \/ plans'[p].inflight[n] <= SegBytes
  <2>1. plans'[p].next[n] = plans[p].next[n] /\ plans'[p].inflight[n] = plans[p].inflight[n]
    OBVIOUS
  <2>2. OpenSegs(p, n)' = OpenSegs(p, n)
    BY <1>2, <2>1 DEF OpenSegs
  <2>3. plans[p].inflight[n] = SegBytes * Cardinality(OpenSegs(p, n))
    BY InflightByOpen DEF ShipInv
  <2>4. plans[p].inflight[n] <= Budget \/ plans[p].inflight[n] <= SegBytes
    BY DEF ShipInv, PlanBudget
  <2> QED BY <2>1, <2>2, <2>3, <2>4
<1>8. ASSUME NEW p \in DOMAIN plans' \ DOMAIN plans, NEW n \in Nodes
      PROVE  /\ plans'[p].inflight[n] = SegBytes * Cardinality(OpenSegs(p, n)')
             /\ plans'[p].inflight[n] <= Budget
  <2>1. plans'[p].next[n] = 0 /\ plans'[p].inflight[n] = 0
    OBVIOUS
  <2>2. OpenSegs(p, n)' = {}
    BY <2>1 DEF OpenSegs
  <2>3. Cardinality(OpenSegs(p, n)') = 0
    BY <2>2, FS_EmptySet
  <2> QED BY <2>1, <2>3, DispatchAssumption
<1>9. InflightExact'
  <2>1. InflightExact' <=>
          \A p \in DOMAIN plans' : \A n \in Nodes \ downSet' :
              plans'[p].inflight[n] = SegBytes * Cardinality(OpenSegs(p, n)')
    BY DEF InflightExact, OpenSegs
  <2> QED BY <1>7, <1>8, <2>1
<1>10. PlanBudget'
  BY <1>7, <1>8 DEF PlanBudget
<1> QED BY <1>3, <1>4, <1>5, <1>6, <1>9, <1>10 DEF ShipInv

(* The instructions of a new plan are placed on live nodes and fill the    *)
(* node's segments from the first to the last.                             *)
LEMMA NewPlan ==
    ASSUME BooksType,
           NEW live \in SUBSET Nodes, live # {},
           NEW R \in SUBSET Keys, NEW before,
           StartPlan(R, live, before)
    PROVE  LET new == PlanIids(R, live, iidHigh)
           IN /\ DOMAIN table' = DOMAIN table \cup new
              /\ \A i \in DOMAIN table : table'[i] = table[i]
              /\ DOMAIN table \cap new = {}
              /\ \A i \in new : /\ table'[i].plan = shipping' /\ table'[i].seg >= 1
                                /\ table'[i].node \in live
              /\ \A n \in Nodes : \A s \in 1 .. SegmentCount(R, live)[n] :
                    \E i \in new : /\ table'[i].plan = shipping'
                                    /\ table'[i].node = n /\ table'[i].seg = s
<1> DEFINE new == PlanIids(R, live, iidHigh)
<1>1. /\ DOMAIN table' = DOMAIN table \cup new
      /\ DOMAIN table \cap new = {}
      /\ \A i \in DOMAIN table : table'[i] = table[i]
      /\ \A i \in new :
            /\ table'[i].plan = shipping'
            /\ table'[i].key \in R /\ table'[i].step \in Steps
            /\ table'[i].node = Placement(table'[i].key, live)
            /\ table'[i].seg = Segment(table'[i].key, table'[i].step, R, live)
      /\ \A k \in R, s \in Steps : Iid(k, s, R, live, iidHigh) \in new
      /\ \A k \in R, s \in Steps :
            /\ table'[Iid(k, s, R, live, iidHigh)].key = k
            /\ table'[Iid(k, s, R, live, iidHigh)].step = s
  BY NewTable
<1> HIDE DEF new
<1>2. ASSUME NEW i \in new
      PROVE  table'[i].plan = shipping' /\ table'[i].seg >= 1 /\ table'[i].node \in live
  <2>1. table'[i].seg \in Nat \ {0}
    BY <1>1, SegmentPositive
  <2>2. Placement(table'[i].key, live) \in live
    BY <1>1, PlacementLive
  <2> QED BY <1>1, <2>1, <2>2
<1>3. ASSUME NEW n \in Nodes, NEW s \in 1 .. SegmentCount(R, live)[n]
      PROVE  \E i \in new : /\ table'[i].plan = shipping'
                             /\ table'[i].node = n /\ table'[i].seg = s
  <2>1. PICK k \in R : \E t \in Steps : Placement(k, live) = n /\ Segment(k, t, R, live) = s
    BY SegmentFilled
  <2>2. PICK t \in Steps : Placement(k, live) = n /\ Segment(k, t, R, live) = s
    BY <2>1
  <2>3. PICK i \in new : table'[i].key = k /\ table'[i].step = t
    BY <1>1
  <2>4. table'[i].plan = shipping' /\ table'[i].node = n /\ table'[i].seg = s
    BY <1>1, <2>2, <2>3
  <2> QED BY <2>4
<1> QED BY <1>1, <1>2, <1>3 DEF new

(* register_plan and ActivePlan::new: each segment of the new plan has an  *)
(* instruction, and nothing of it is in flight.                            *)
LEMMA StartPlanShips ==
    ASSUME AllTypes, ShipInv,
           NEW live \in SUBSET Nodes, live # {},
           NEW R \in SUBSET Keys,
           NEW before \in Seq(PlanRecord), DOMAIN before = DOMAIN plans,
           StartPlan(R, live, before),
           NEW kept \in SUBSET remaining,
           remaining' = kept \cup PlanIids(R, live, iidHigh),
           downSet \subseteq downSet', live \cap downSet' = {},
           \A i \in remaining : i \notin kept <=> table[i].node \in downSet',
           \A p \in DOMAIN plans :
              /\ before[p].segs = plans[p].segs
              /\ \A n \in Nodes \ downSet' : /\ before[p].next[n] = plans[p].next[n]
                                             /\ before[p].inflight[n] = plans[p].inflight[n],
           issued' = issued
    PROVE  ShipInv'
<1> DEFINE new == PlanIids(R, live, iidHigh)
<1>0. PICK q : q = shipping'
  OBVIOUS
<1>1. /\ DOMAIN table' = DOMAIN table \cup new
      /\ \A i \in DOMAIN table : table'[i] = table[i]
      /\ DOMAIN table \cap new = {}
      /\ \A i \in new : /\ table'[i].plan = q /\ table'[i].seg >= 1
                        /\ table'[i].node \in live
      /\ \A n \in Nodes : \A s \in 1 .. SegmentCount(R, live)[n] :
            \E i \in new : table'[i].plan = q /\ table'[i].node = n /\ table'[i].seg = s
  <2>1. BooksType
    BY DEF AllTypes
  <2>2. DOMAIN table' = DOMAIN table \cup new
    BY <2>1, NewPlan
  <2>3. \A i \in DOMAIN table : table'[i] = table[i]
    BY <2>1, NewPlan
  <2>4. DOMAIN table \cap new = {}
    BY <2>1, NewPlan
  <2>5. \A i \in new : /\ table'[i].plan = shipping' /\ table'[i].seg >= 1
                        /\ table'[i].node \in live
    BY <2>1, NewPlan
  <2>6. \A n \in Nodes : \A s \in 1 .. SegmentCount(R, live)[n] :
            \E i \in new : table'[i].plan = shipping' /\ table'[i].node = n /\ table'[i].seg = s
    BY <2>1, NewPlan
  <2> QED BY <1>0, <2>2, <2>3, <2>4, <2>5, <2>6
<1>2. remaining' = kept \cup new
  OBVIOUS
<1> DEFINE plan == [NoPlan EXCEPT !.segs = SegmentCount(R, live)]
<1>3. /\ plan.segs = SegmentCount(R, live)
      /\ \A n \in Nodes : plan.next[n] = 0 /\ plan.inflight[n] = 0
  BY DEF NoPlan
<1>4. plans' = Append(before, plan)
  BY DEF StartPlan
<1> HIDE DEF plan
<1>5. /\ DOMAIN plans' = DOMAIN plans \cup {q} /\ q \notin DOMAIN plans
      /\ \A p \in DOMAIN plans : plans'[p] = before[p]
      /\ plans'[q] = plan
  <2>1. q = Len(before) + 1
    BY <1>0 DEF StartPlan
  <2> QED BY <1>4, <2>1
<1> HIDE DEF new
<1>6. \A i \in DOMAIN table' \ DOMAIN table :
         table'[i].plan \notin DOMAIN plans /\ table'[i].seg >= 1
  BY <1>1, <1>5
<1>7. \A i \in DOMAIN table :
         table[i].node \notin downSet' => (i \in remaining' <=> i \in remaining)
  BY <1>1, <1>2
<1>8. \A i \in remaining' : table'[i].node \notin downSet'
  <2>1. ASSUME NEW i \in kept PROVE table'[i].node \notin downSet'
    BY <1>1 DEF AllTypes, BooksType
  <2>2. ASSUME NEW i \in new PROVE table'[i].node \notin downSet'
    BY <1>1
  <2> QED BY <1>2, <2>1, <2>2
<1>9. \A p \in DOMAIN plans' \ DOMAIN plans : \A n \in Nodes :
         /\ plans'[p].next[n] = 0 /\ plans'[p].inflight[n] = 0
         /\ \A s \in 1 .. plans'[p].segs[n] : SegIids(p, n, s)' # {}
  <2>1. ASSUME NEW n \in Nodes, NEW s \in 1 .. SegmentCount(R, live)[n]
        PROVE  SegIids(q, n, s)' # {}
    BY <1>1, <2>1 DEF SegIids
  <2> QED BY <1>3, <1>5, <2>1
<1> QED BY <1>1, <1>5, <1>6, <1>7, <1>8, <1>9, ShipOthers

(* mark_down of the nodes given up leaves the others' counters alone.      *)
LEMMA WithoutDownOthers ==
    ASSUME AllTypes, downSet' = downSet \cup down
    PROVE  \A p \in DOMAIN plans :
              /\ WithoutDown[p].segs = plans[p].segs
              /\ \A n \in Nodes \ downSet' :
                    /\ WithoutDown[p].next[n] = plans[p].next[n]
                    /\ WithoutDown[p].inflight[n] = plans[p].inflight[n]
<1> SUFFICES ASSUME NEW p \in DOMAIN plans
             PROVE  /\ WithoutDown[p].segs = plans[p].segs
                    /\ \A n \in Nodes \ downSet' :
                          /\ WithoutDown[p].next[n] = plans[p].next[n]
                          /\ WithoutDown[p].inflight[n] = plans[p].inflight[n]
  OBVIOUS
<1>1. plans[p] \in PlanRecord
  BY DEF AllTypes, BooksType
<1> QED BY <1>1 DEF WithoutDown, NewlyDown, PlanRecord

LEMMA OneMore ==
    ASSUME NEW x \in Int, NEW c \in Int
    PROVE  x * (c + 1) = x * c + x /\ x * (c - 1) = x * c - x
  OBVIOUS

LEMMA CounterTypes ==
    ASSUME AllTypes, NEW p \in DOMAIN plans, NEW n \in Nodes
    PROVE  plans[p].next[n] \in Nat /\ plans[p].inflight[n] \in Int /\ plans[p].segs[n] \in Nat
<1>1. plans[p] \in PlanRecord
  BY DEF AllTypes, BooksType
<1> QED BY <1>1 DEF PlanRecord

LEMMA OpenSegsFinite ==
    ASSUME AllTypes, NEW p \in DOMAIN plans, NEW n \in Nodes
    PROVE  IsFiniteSet(OpenSegs(p, n)) /\ Cardinality(OpenSegs(p, n)) \in Nat
<1>1. plans[p].next[n] \in Nat
  BY CounterTypes
<1>2. IsFiniteSet(1 .. plans[p].next[n])
  BY <1>1, FS_Interval
<1> QED BY <1>2, FS_Subset, FS_CardinalityType DEF OpenSegs

(* An instruction that was not sent is open, unless its node was given up. *)
LEMMA UnsentOpen ==
    ASSUME AllTypes, BookInv, ShipInv,
           NEW p \in DOMAIN plans, NEW n \in Nodes \ downSet,
           NEW s, s > plans[p].next[n], SegIids(p, n, s) # {}
    PROVE  SegRemaining(p, n, s) # {}
<1>1. PICK i \in SegIids(p, n, s) : TRUE
  OBVIOUS
<1>2. i \in DOMAIN table /\ table[i].plan = p /\ table[i].node = n /\ table[i].seg = s
  BY <1>1 DEF SegIids
<1>3. i \notin issued
  <2>1. i \in issued => s <= plans[p].next[n]
    BY <1>2 DEF ShipInv, IssuedShipped
  <2>2. s \in Nat /\ plans[p].next[n] \in Nat
    BY <1>2, CounterTypes DEF AllTypes, BooksType, Entry
  <2> QED BY <2>1, <2>2
<1>4. i \in remaining
  BY <1>2, <1>3 DEF BookInv, StillOpen, Pipe
<1> QED BY <1>1, <1>4 DEF SegRemaining

(* One more segment is in flight: the node's next one, all of it open.     *)
LEMMA ShipSegmentShips ==
    ASSUME AllTypes, BookInv, ShipInv, ShipSegment
    PROVE  ShipInv'
<1> DEFINE n0 == Head(todo)
<1> DEFINE next0 == plans[shipping].next[n0]
<1>1. /\ pc = "ship" /\ Shippable(plans[shipping], n0)
      /\ issued' = issued \cup SegIids(shipping, n0, next0 + 1)
      /\ plans' = Shipped(shipping, n0)
      /\ UNCHANGED <<table, remaining, downSet>>
  BY DEF ShipSegment
<1>2. n0 \in Nodes /\ shipping \in DOMAIN plans
  BY <1>1 DEF AllTypes, ControlType
<1> HIDE DEF n0
<1>3. PICK p0 \in DOMAIN plans : p0 = shipping
  BY <1>2
<1>4. PICK m \in Nodes : m = n0
  BY <1>2
<1>5. \A p \in DOMAIN plans : plans[p] \in PlanRecord
  BY DEF AllTypes, BooksType
<1>6. /\ next0 = plans[p0].next[m]
      /\ plans[p0].next[m] \in Nat /\ plans[p0].inflight[m] \in Int
      /\ plans[p0].segs[m] \in Nat
  BY <1>3, <1>4, <1>5 DEF PlanRecord
<1>7. /\ plans[p0].next[m] < plans[p0].segs[m]
      /\ plans[p0].inflight[m] = 0 \/ plans[p0].inflight[m] + SegBytes <= Budget
      /\ issued' = issued \cup SegIids(p0, m, plans[p0].next[m] + 1)
      /\ plans' = [plans EXCEPT ![p0].inflight[m] = @ + SegBytes, ![p0].next[m] = @ + 1]
  BY <1>1, <1>3, <1>4, <1>6 DEF Shippable, Shipped
<1> HIDE DEF next0
<1>8. /\ DOMAIN plans' = DOMAIN plans
      /\ \A p \in DOMAIN plans :
            /\ plans'[p].segs = plans[p].segs
            /\ \A n \in Nodes :
                  plans'[p].next[n] = IF p = p0 /\ n = m THEN plans[p].next[n] + 1
                                                         ELSE plans[p].next[n]
            /\ \A n \in Nodes :
                  plans'[p].inflight[n] = IF p = p0 /\ n = m THEN plans[p].inflight[n] + SegBytes
                                                             ELSE plans[p].inflight[n]
  BY <1>5, <1>7 DEF PlanRecord
<1>9. \A p, n, s : /\ SegIids(p, n, s)' = SegIids(p, n, s)
                   /\ SegRemaining(p, n, s)' = SegRemaining(p, n, s)
  BY <1>1 DEF SegIids, SegRemaining
<1>10. OpenOnLive' /\ FromOne'
  BY <1>1 DEF ShipInv, OpenOnLive, FromOne
<1>11. Filled'
  BY <1>8, <1>9 DEF ShipInv, Filled
<1>12. IssuedShipped'
  <2> SUFFICES ASSUME NEW i \in issued', table[i].node \notin downSet
               PROVE  table[i].seg <= plans'[table[i].plan].next[table[i].node]
    BY <1>1 DEF IssuedShipped
  <2>1. CASE i \in issued
    <3>1. table[i].seg <= plans[table[i].plan].next[table[i].node]
      BY <2>1 DEF ShipInv, IssuedShipped
    <3>2. /\ table[i].plan \in DOMAIN plans /\ table[i].node \in Nodes
          /\ table[i].seg \in Nat
      BY <2>1 DEF AllTypes, NodeType, BooksType, Entry
    <3>3. plans[table[i].plan].next[table[i].node] \in Nat
      BY <1>5, <3>2 DEF PlanRecord
    <3> QED BY <1>8, <3>1, <3>2, <3>3
  <2>2. CASE i \in SegIids(p0, m, plans[p0].next[m] + 1)
    <3>1. table[i].plan = p0 /\ table[i].node = m /\ table[i].seg = plans[p0].next[m] + 1
      BY <2>2 DEF SegIids
    <3>2. plans'[p0].next[m] = plans[p0].next[m] + 1
      BY <1>8
    <3> QED BY <1>6, <3>1, <3>2
  <2> QED BY <1>7, <2>1, <2>2
<1>13. ASSUME NEW p \in DOMAIN plans, NEW n \in Nodes \ downSet
       PROVE  /\ plans'[p].inflight[n] = SegBytes * Cardinality(OpenSegs(p, n)')
              /\ plans'[p].inflight[n] <= Budget \/ plans'[p].inflight[n] <= SegBytes
  <2>1. /\ plans[p].inflight[n] = SegBytes * Cardinality(OpenSegs(p, n))
        /\ plans[p].inflight[n] <= Budget \/ plans[p].inflight[n] <= SegBytes
    BY InflightByOpen DEF ShipInv, PlanBudget
  <2>2. CASE ~(p = p0 /\ n = m)
    <3>1. plans'[p].next[n] = plans[p].next[n] /\ plans'[p].inflight[n] = plans[p].inflight[n]
      BY <1>8, <2>2
    <3>2. OpenSegs(p, n)' = OpenSegs(p, n)
      BY <1>9, <3>1 DEF OpenSegs
    <3> QED BY <2>1, <3>1, <3>2
  <2>3. CASE p = p0 /\ n = m
    <3> DEFINE t == plans[p].next[n] + 1
    <3>1. /\ plans'[p].next[n] = t
          /\ plans'[p].inflight[n] = plans[p].inflight[n] + SegBytes
      BY <1>8, <2>3
    <3>2. t \in 1 .. plans[p].segs[n] /\ t > plans[p].next[n] /\ plans[p].next[n] \in Nat
      BY <1>6, <1>7, <2>3
    <3>3. SegIids(p, n, t) # {}
      BY <3>2 DEF ShipInv, Filled
    <3>4. SegRemaining(p, n, t) # {}
      BY <3>2, <3>3, UnsentOpen
    <3>5. 1 .. t = (1 .. plans[p].next[n]) \cup {t} /\ t \notin 1 .. plans[p].next[n]
      BY <3>2
    <3> HIDE DEF t
    <3>6. OpenSegs(p, n)' = OpenSegs(p, n) \cup {t} /\ t \notin OpenSegs(p, n)
      BY <1>9, <3>1, <3>4, <3>5 DEF OpenSegs
    <3>7. /\ Cardinality(OpenSegs(p, n)') = Cardinality(OpenSegs(p, n)) + 1
          /\ Cardinality(OpenSegs(p, n)) \in Nat
      BY <3>6, OpenSegsFinite, FS_AddElement
    <3>8. SegBytes * Cardinality(OpenSegs(p, n)') = plans[p].inflight[n] + SegBytes
      BY <2>1, <3>7, OneMore, DispatchAssumption
    <3>9. plans[p].inflight[n] + SegBytes <= Budget \/ plans[p].inflight[n] + SegBytes <= SegBytes
      BY <1>6, <1>7, <2>3, DispatchAssumption
    <3> QED BY <3>1, <3>8, <3>9
  <2> QED BY <2>2, <2>3
<1>14. InflightExact'
  <2>1. InflightExact' <=>
          \A p \in DOMAIN plans' : \A n \in Nodes \ downSet' :
              plans'[p].inflight[n] = SegBytes * Cardinality(OpenSegs(p, n)')
    BY DEF InflightExact, OpenSegs
  <2> QED BY <1>1, <1>8, <1>13, <2>1
<1>15. PlanBudget'
  BY <1>1, <1>8, <1>13 DEF PlanBudget
<1> QED BY <1>10, <1>11, <1>12, <1>14, <1>15 DEF ShipInv

(* retire(): the last open instruction of a segment takes its bytes along. *)
LEMMA RetireShips ==
    ASSUME AllTypes, BookInv, ShipInv, NEW i \in batch, Retire(i)
    PROVE  ShipInv'
<1> DEFINE e == table[i]
<1>1. /\ i \in DOMAIN table /\ e.node \notin downSet
      /\ remaining' = remaining \ {i}
      /\ UNCHANGED <<table, issued, downSet>>
  BY DEF Retire, Known
<1>2. i \in issued /\ i \in remaining
  BY <1>1 DEF BookInv, Pipe, StillOpen
<1>3. e.plan \in DOMAIN plans /\ e.node \in Nodes /\ e.seg \in Nat
  BY <1>1 DEF AllTypes, BooksType, Entry
<1>4. PICK p0 \in DOMAIN plans : p0 = e.plan
  BY <1>3
<1>5. PICK m \in Nodes : m = e.node
  BY <1>3
<1>6. PICK t \in Nat : t = e.seg
  BY <1>3
<1> DEFINE last == SegRemaining(p0, m, t) = {i}
<1>7. /\ last => plans' = [plans EXCEPT ![p0].inflight[m] = @ - SegBytes]
      /\ ~last => plans' = plans
  BY <1>4, <1>5, <1>6 DEF Retire, Settled
<1>8. \A p \in DOMAIN plans : plans[p] \in PlanRecord
  BY DEF AllTypes, BooksType
<1>9. t >= 1 /\ t <= plans[p0].next[m] /\ plans[p0].next[m] \in Nat
  <2>1. t >= 1
    BY <1>1, <1>6 DEF ShipInv, FromOne
  <2>2. t <= plans[p0].next[m]
    BY <1>1, <1>2, <1>4, <1>5, <1>6 DEF ShipInv, IssuedShipped
  <2> QED BY <2>1, <2>2, CounterTypes
<1> HIDE DEF last
<1>10. /\ DOMAIN plans' = DOMAIN plans
       /\ \A p \in DOMAIN plans :
             /\ plans'[p].segs = plans[p].segs
             /\ \A n \in Nodes : plans'[p].next[n] = plans[p].next[n]
             /\ \A n \in Nodes :
                   plans'[p].inflight[n] = IF last /\ p = p0 /\ n = m
                                           THEN plans[p].inflight[n] - SegBytes
                                           ELSE plans[p].inflight[n]
  <2>1. CASE last
    <3>1. plans' = [plans EXCEPT ![p0].inflight[m] = @ - SegBytes]
      BY <1>7, <2>1
    <3>2. DOMAIN plans' = DOMAIN plans
      BY <3>1
    <3>3. \A p \in DOMAIN plans : plans'[p].segs = plans[p].segs
      BY <1>8, <3>1 DEF PlanRecord
    <3>4. \A p \in DOMAIN plans : \A n \in Nodes : plans'[p].next[n] = plans[p].next[n]
      BY <1>8, <3>1 DEF PlanRecord
    <3>5. \A p \in DOMAIN plans : \A n \in Nodes :
             plans'[p].inflight[n] = IF p = p0 /\ n = m THEN plans[p].inflight[n] - SegBytes
                                                        ELSE plans[p].inflight[n]
      BY <1>8, <3>1 DEF PlanRecord
    <3> QED BY <2>1, <3>2, <3>3, <3>4, <3>5
  <2>2. CASE ~last
    BY <1>7, <2>2
  <2> QED BY <2>1, <2>2
<1>11. \A p, n, s : SegIids(p, n, s)' = SegIids(p, n, s)
  BY <1>1 DEF SegIids
<1>12. \A p, n, s : SegRemaining(p, n, s)' = SegRemaining(p, n, s) \ {i}
  BY <1>1, <1>11 DEF SegRemaining
<1>13. i \in SegRemaining(p0, m, t)
  BY <1>1, <1>2, <1>4, <1>5, <1>6 DEF SegRemaining, SegIids
<1>14. \A p, n, s : i \in SegRemaining(p, n, s) => p = p0 /\ n = m /\ s = t
  BY <1>4, <1>5, <1>6 DEF SegRemaining, SegIids
<1>15. /\ last => SegRemaining(p0, m, t)' = {}
       /\ ~last => SegRemaining(p0, m, t)' # {}
  BY <1>12, <1>13 DEF last
<1>16. \A p, n, s : ~(p = p0 /\ n = m /\ s = t) =>
          SegRemaining(p, n, s)' = SegRemaining(p, n, s)
  BY <1>12, <1>14
<1>17. OpenOnLive' /\ FromOne'
  BY <1>1 DEF ShipInv, OpenOnLive, FromOne
<1>18. Filled'
  BY <1>10, <1>11 DEF ShipInv, Filled
<1>19. IssuedShipped'
  <2> SUFFICES ASSUME NEW j \in issued, table[j].node \notin downSet
               PROVE  table[j].seg <= plans'[table[j].plan].next[table[j].node]
    BY <1>1 DEF IssuedShipped
  <2>1. table[j].seg <= plans[table[j].plan].next[table[j].node]
    BY DEF ShipInv, IssuedShipped
  <2>2. table[j].plan \in DOMAIN plans /\ table[j].node \in Nodes
    BY DEF AllTypes, NodeType, BooksType, Entry
  <2> QED BY <1>10, <2>1, <2>2
<1>20. ASSUME NEW p \in DOMAIN plans, NEW n \in Nodes \ downSet
       PROVE  /\ plans'[p].inflight[n] = SegBytes * Cardinality(OpenSegs(p, n)')
              /\ plans'[p].inflight[n] <= Budget \/ plans'[p].inflight[n] <= SegBytes
  <2>1. /\ plans[p].inflight[n] = SegBytes * Cardinality(OpenSegs(p, n))
        /\ plans[p].inflight[n] <= Budget \/ plans[p].inflight[n] <= SegBytes
        /\ plans'[p].next[n] = plans[p].next[n]
    BY <1>10, InflightByOpen DEF ShipInv, PlanBudget
  <2>2. CASE ~(last /\ p = p0 /\ n = m)
    <3>1. plans'[p].inflight[n] = plans[p].inflight[n]
      BY <1>10, <2>2
    <3>2. \A s : SegRemaining(p, n, s)' # {} <=> SegRemaining(p, n, s) # {}
      BY <1>13, <1>15, <1>16, <2>2
    <3>3. OpenSegs(p, n)' = OpenSegs(p, n)
      BY <2>1, <3>2 DEF OpenSegs
    <3> QED BY <2>1, <3>1, <3>3
  <2>3. CASE last /\ p = p0 /\ n = m
    <3>1. plans'[p].inflight[n] = plans[p].inflight[n] - SegBytes
      BY <1>10, <2>3
    <3>2. t \in OpenSegs(p, n)
      BY <1>9, <1>13, <2>3 DEF OpenSegs
    <3>3. OpenSegs(p, n)' = OpenSegs(p, n) \ {t}
      BY <1>15, <1>16, <2>1, <2>3 DEF OpenSegs
    <3>4. /\ Cardinality(OpenSegs(p, n)') = Cardinality(OpenSegs(p, n)) - 1
          /\ Cardinality(OpenSegs(p, n)) \in Nat
      <4>1. IsFiniteSet(OpenSegs(p, n)) /\ Cardinality(OpenSegs(p, n)) \in Nat
        BY OpenSegsFinite
      <4>2. Cardinality(OpenSegs(p, n) \ {t}) = Cardinality(OpenSegs(p, n)) - 1
        BY <3>2, <4>1, FS_RemoveElement
      <4> QED BY <3>3, <4>1, <4>2
    <3>5. SegBytes * Cardinality(OpenSegs(p, n)') = plans[p].inflight[n] - SegBytes
      BY <2>1, <3>4, OneMore, DispatchAssumption
    <3>6. \/ plans[p].inflight[n] - SegBytes <= Budget
          \/ plans[p].inflight[n] - SegBytes <= SegBytes
      BY <2>1, CounterTypes, DispatchAssumption
    <3> QED BY <3>1, <3>5, <3>6
  <2> QED BY <2>2, <2>3
<1>21. InflightExact'
  <2>1. InflightExact' <=>
          \A p \in DOMAIN plans' : \A n \in Nodes \ downSet' :
              plans'[p].inflight[n] = SegBytes * Cardinality(OpenSegs(p, n)')
    BY DEF InflightExact, OpenSegs
  <2> QED BY <1>1, <1>10, <1>20, <2>1
<1>22. PlanBudget'
  BY <1>1, <1>10, <1>20 DEF PlanBudget
<1> QED BY <1>17, <1>18, <1>19, <1>21, <1>22 DEF ShipInv

(* Nothing is planned or given up before the job starts.                   *)
Early == Setting => plans = <<>> /\ downSet = {}

LEMMA EarlyStep ==
    ASSUME Early, [Next]_vars
    PROVE  Early'
<1> USE DEF sharedVars, bookVars, ctlVars, dogVars, execVars, netVars, envVars
<1>1. CASE StartJob \/ EveryNodeDown \/ NothingLost \/ Recover
  <2>1. ~Setting'
    BY <1>1 DEF StartJob, EveryNodeDown, NothingLost, Recover, StartPlan, Setting, Return
  <2> QED BY <2>1 DEF Early
<1>2. CASE \/ ShipSegment \/ \E i \in batch : Retire(i)
  <2>1. ~Setting'
    BY <1>2 DEF ShipSegment, Retire, Setting
  <2> QED BY <2>1 DEF Early
<1>3. CASE \/ AwaitNodes \/ ClearState \/ Setup \/ SetupFail \/ ShipFail \/ ShipNext
           \/ Finish \/ Abort \/ Proceed \/ NoneDown
           \/ Arm \/ TakeNone \/ TakeBatch \/ Wake
           \/ \E i \in batch : Skip(i)
  <2>1. UNCHANGED <<plans, downSet>> /\ (Setting' => Setting)
    BY <1>3 DEF Setting, Return, AwaitNodes, ClearState, Setup, SetupFail, ShipFail, ShipNext,
        Finish, Abort, Proceed, NoneDown, Arm, TakeNone, TakeBatch, Wake, Skip
  <2> QED BY <2>1 DEF Early
<1>4. CASE \/ UNCHANGED vars \/ WatchdogStep \/ \E i \in issued : Run(i) \/ Break(i)
           \/ \E n \in Nodes : AttachStep(n) \/ Fault(n)
  <2>1. UNCHANGED <<plans, downSet, pc>>
    BY <1>4 DEF vars, WatchdogStep, WatchdogScan, WatchdogMark, WatchdogNotify,
        Run, Break, AttachStep, Register, Heartbeat, Deliver, DeliverFailed, StreamEnd, Fault,
        Crash, Stall, Resume
  <2> QED BY <2>1 DEF Early, Setting
<1> QED BY <1>1, <1>2, <1>3, <1>4 DEF Next, DispatchStep, NodeStep

LEMMA ShipStep ==
    ASSUME AllTypes, BookInv, ShipInv, Early, [Next]_vars
    PROVE  ShipInv'
<1> USE DEF sharedVars, bookVars, ctlVars, dogVars, execVars, netVars, envVars
<1>1. CASE StartJob
  <2>1. /\ StartPlan(Keys, Nodes, plans)
        /\ remaining' = remaining \cup PlanIids(Keys, Nodes, iidHigh)
        /\ UNCHANGED <<downSet, issued>> /\ Setting
    BY <1>1 DEF StartJob, Setting
  <2>2. Nodes # {} /\ plans \in Seq(PlanRecord)
    <3>1. 0 \in Nodes
      BY PlanAssumption DEF Nodes
    <3> QED BY <3>1 DEF AllTypes, BooksType
  <2>3. \A i \in remaining : i \notin remaining <=> table[i].node \in downSet'
    BY <2>1 DEF ShipInv, OpenOnLive
  <2>4. Nodes \cap downSet' = {}
    BY <2>1 DEF Early
  <2> QED BY <2>1, <2>2, <2>3, <2>4, StartPlanShips
<1>2. CASE EveryNodeDown \/ NothingLost \/ Recover
  <2> DEFINE kept == remaining \ OpenOn(NewlyDown)
  <2>1. downSet' = downSet \cup down /\ UNCHANGED issued
    BY <1>2 DEF EveryNodeDown, NothingLost, Recover, AbandonDown
  <2>2. \A i \in remaining : i \notin kept <=> table[i].node \in downSet'
    BY <2>1 DEF OpenOn, NewlyDown, ShipInv, OpenOnLive
  <2>3. kept \in SUBSET remaining
    OBVIOUS
  <2> HIDE DEF kept
  <2>4. /\ WithoutDown \in Seq(PlanRecord) /\ DOMAIN WithoutDown = DOMAIN plans
    BY WithoutDownType DEF AllTypes
  <2>5. \A p \in DOMAIN plans :
           /\ WithoutDown[p].segs = plans[p].segs
           /\ \A n \in Nodes \ downSet' : /\ WithoutDown[p].next[n] = plans[p].next[n]
                                          /\ WithoutDown[p].inflight[n] = plans[p].inflight[n]
    BY <2>1, WithoutDownOthers
  <2>6. CASE Recover
    <3>1. /\ StartPlan(LostOutputs, Survivors, WithoutDown) /\ Survivors # {}
          /\ remaining' = kept \cup PlanIids(LostOutputs, Survivors, iidHigh)
      BY <2>6 DEF Recover, kept
    <3>2. /\ Survivors \in SUBSET Nodes /\ LostOutputs \in SUBSET Keys
          /\ Survivors \cap downSet' = {} /\ downSet \subseteq downSet'
      BY <2>1 DEF Survivors, LostOutputs, Lost
    <3> QED BY <2>1, <2>2, <2>3, <2>4, <2>5, <3>1, <3>2, StartPlanShips
  <2>7. CASE EveryNodeDown \/ NothingLost
    <3>1. plans' = WithoutDown /\ remaining' = kept /\ UNCHANGED table
      BY <2>7 DEF EveryNodeDown, NothingLost, kept
    <3>2. downSet \subseteq downSet' /\ DOMAIN plans' = DOMAIN plans
      BY <2>1, <2>4, <3>1
    <3>3. \A i \in remaining' : table'[i].node \notin downSet'
      BY <2>2, <2>3, <3>1
    <3>4. \A i \in DOMAIN table :
             table[i].node \notin downSet' => (i \in remaining' <=> i \in remaining)
      BY <2>2, <2>3, <3>1
    <3> QED BY <2>1, <2>5, <3>1, <3>2, <3>3, <3>4, ShipOthers
  <2> QED BY <1>2, <2>6, <2>7
<1>3. CASE ShipSegment
  BY <1>3, ShipSegmentShips
<1>4. ASSUME NEW i \in batch, Retire(i) PROVE ShipInv'
  BY <1>4, RetireShips
<1>5. CASE \/ AwaitNodes \/ ClearState \/ Setup \/ SetupFail \/ ShipFail \/ ShipNext
           \/ Finish \/ Abort \/ Proceed \/ NoneDown
           \/ Arm \/ TakeNone \/ TakeBatch \/ Wake
           \/ \E i \in batch : Skip(i)
  <2>1. UNCHANGED shipVars
    BY <1>5 DEF shipVars, AwaitNodes, ClearState, Setup, SetupFail, ShipFail, ShipNext,
        Finish, Abort, Proceed, NoneDown, Arm, TakeNone, TakeBatch, Wake, Skip
  <2> QED BY <2>1, ShipStutter
<1>6. CASE \/ UNCHANGED vars \/ WatchdogStep \/ \E i \in issued : Run(i) \/ Break(i)
           \/ \E n \in Nodes : AttachStep(n) \/ Fault(n)
  <2>1. UNCHANGED shipVars
    BY <1>6 DEF shipVars, vars, WatchdogStep, WatchdogScan, WatchdogMark, WatchdogNotify,
        Run, Break, AttachStep, Register, Heartbeat, Deliver, DeliverFailed, StreamEnd, Fault,
        Crash, Stall, Resume
  <2> QED BY <2>1, ShipStutter
<1> QED BY <1>1, <1>2, <1>3, <1>4, <1>5, <1>6 DEF Next, DispatchStep, NodeStep

LEMMA ShipInit == Init => ShipInv
<1> SUFFICES ASSUME Init PROVE ShipInv
  OBVIOUS
<1>1. DOMAIN table = {} /\ DOMAIN plans = {} /\ remaining = {} /\ issued = {}
  BY DEF Init
<1> QED BY <1>1 DEF ShipInv, OpenOnLive, Filled, FromOne, IssuedShipped, InflightExact,
                    PlanBudget

(* A plan's inflight counter is exact on every node not given up, whatever *)
(* fails and in whatever order reports and failures arrive, provided no id *)
(* of an earlier job is still on its way.                                  *)
THEOREM InflightIsExact ==
    ASSUME Stale = {}
    PROVE  Spec => []InflightExact
<1>1. Init => AllTypes /\ BookInv /\ ShipInv /\ Early
  BY TypeInit, BookInvInit, ShipInit DEF Early, Init
<1>2. AllTypes /\ BookInv /\ ShipInv /\ Early /\ [Next]_vars
        => AllTypes' /\ BookInv' /\ ShipInv' /\ Early'
  BY TypeStep, BookInvStep, ShipStep, EarlyStep
<1>3. ShipInv => InflightExact
  BY DEF ShipInv
<1> QED BY <1>1, <1>2, <1>3, PTL DEF Spec

(* A single segment, or no more than the budget holds.                     *)
LEMMA SegmentsInBudget ==
    ASSUME NEW b \in Nat, NEW x \in Nat \ {0}, NEW c \in Nat,
           x * c <= b \/ x * c <= x
    PROVE  c <= 1 \/ c * x <= b
<1> SUFFICES ASSUME c > 1, x * c <= x PROVE FALSE
  <2>1. c * x = x * c
    OBVIOUS
  <2> QED BY <2>1
<1>1. PICK d \in Nat : c = d + 2
  <2>1. c - 2 \in Nat /\ c = (c - 2) + 2
    OBVIOUS
  <2> QED BY <2>1
<1>2. x * c = x * d + x + x
  BY <1>1
<1>3. x * d \in Nat
  OBVIOUS
<1> QED BY <1>2, <1>3

LEMMA OpenWithinBudget ==
    ASSUME AllTypes, BookInv, ShipInv
    PROVE  PlanKeepsBudget
<1> SUFFICES ASSUME NEW p \in DOMAIN plans, NEW n \in Nodes \ downSet
             PROVE  \/ Cardinality(OpenSegs(p, n)) <= 1
                    \/ Cardinality(OpenSegs(p, n)) * SegBytes <= Budget
  BY DEF PlanKeepsBudget
<1>1. Cardinality(OpenSegs(p, n)) \in Nat
  BY OpenSegsFinite
<1>2. \/ SegBytes * Cardinality(OpenSegs(p, n)) <= Budget
      \/ SegBytes * Cardinality(OpenSegs(p, n)) <= SegBytes
  BY InflightByOpen DEF ShipInv, PlanBudget
<1> QED BY <1>1, <1>2, SegmentsInBudget, DispatchAssumption

(* Whatever fails, what a node not given up has open of one plan is within *)
(* the budget, or it is a single segment.                                  *)
THEOREM PlanWithinBudget ==
    ASSUME Stale = {}
    PROVE  Spec => []PlanKeepsBudget
<1>1. Init => AllTypes /\ BookInv /\ ShipInv /\ Early
  BY TypeInit, BookInvInit, ShipInit DEF Early, Init
<1>2. AllTypes /\ BookInv /\ ShipInv /\ Early /\ [Next]_vars
        => AllTypes' /\ BookInv' /\ ShipInv' /\ Early'
  BY TypeStep, BookInvStep, ShipStep, EarlyStep
<1>3. AllTypes /\ BookInv /\ ShipInv => PlanKeepsBudget
  BY OpenWithinBudget
<1> QED BY <1>1, <1>2, <1>3, PTL DEF Spec

-----------------------------------------------------------------------------
(* The budget *)

OnePlan == Len(plans) <= 1

LEMMA OnePlanStep ==
    ASSUME AllTypes, Early, OneSuspect(-1), OnePlan, [Next]_vars
    PROVE  OnePlan'
<1> USE DEF sharedVars, bookVars, ctlVars, dogVars, execVars, netVars, envVars
<1>1. CASE StartJob
  <2>1. /\ plans = <<>>
        /\ plans' = Append(plans, [NoPlan EXCEPT !.segs = SegmentCount(Keys, Nodes)])
    BY <1>1 DEF StartJob, StartPlan, Early, Setting
  <2> QED BY <2>1 DEF OnePlan
<1>2. CASE EveryNodeDown \/ NothingLost \/ Recover
  <2>1. down # {}
    BY <1>2 DEF EveryNodeDown, NothingLost, Recover, AbandonDown, NewlyDown
  <2>2. -1 \in Nodes
    BY <2>1 DEF OneSuspect, AllTypes, SharedType
  <2> QED BY <2>2, PlanAssumption DEF Nodes
<1>3. CASE ShipSegment \/ \E i \in batch : Retire(i)
  <2>1. DOMAIN plans' = DOMAIN plans /\ plans' \in Seq(PlanRecord)
    <3>1. DOMAIN plans' = DOMAIN plans
      BY <1>3 DEF ShipSegment, Shipped, Retire, Settled
    <3>2. plans' \in Seq(PlanRecord)
      BY TypeStep DEF AllTypes, BooksType
    <3> QED BY <3>1, <3>2
  <2> QED BY <2>1 DEF OnePlan, AllTypes, BooksType
<1>4. CASE \/ AwaitNodes \/ ClearState \/ Setup \/ SetupFail \/ ShipFail \/ ShipNext
           \/ Finish \/ Abort \/ Proceed \/ NoneDown
           \/ Arm \/ TakeNone \/ TakeBatch \/ Wake
           \/ \E i \in batch : Skip(i)
  <2>1. UNCHANGED plans
    BY <1>4 DEF AwaitNodes, ClearState, Setup, SetupFail, ShipFail, ShipNext,
        Finish, Abort, Proceed, NoneDown, Arm, TakeNone, TakeBatch, Wake, Skip
  <2> QED BY <2>1 DEF OnePlan
<1>5. CASE \/ UNCHANGED vars \/ WatchdogStep \/ \E i \in issued : Run(i) \/ Break(i)
           \/ \E n \in Nodes : AttachStep(n) \/ Fault(n)
  <2>1. UNCHANGED plans
    BY <1>5 DEF vars, WatchdogStep, WatchdogScan, WatchdogMark, WatchdogNotify,
        Run, Break, AttachStep, Register, Heartbeat, Deliver, DeliverFailed, StreamEnd, Fault,
        Crash, Stall, Resume
  <2> QED BY <2>1 DEF OnePlan
<1> QED BY <1>1, <1>2, <1>3, <1>4, <1>5 DEF Next, DispatchStep, NodeStep

(* With one plan a node's open segments are that plan's.                   *)
LEMMA OpenOfOnePlan ==
    ASSUME AllTypes, BookInv, ShipInv, OnePlan, downSet = {}, NEW n \in Nodes
    PROVE  \/ OpenSegments(n) = {}
           \/ /\ 1 \in DOMAIN plans
              /\ IsFiniteSet(OpenSegments(n))
              /\ Cardinality(OpenSegments(n)) <= Cardinality(OpenSegs(1, n))
<1> SUFFICES ASSUME OpenSegments(n) # {}
             PROVE  /\ 1 \in DOMAIN plans
                    /\ IsFiniteSet(OpenSegments(n))
                    /\ Cardinality(OpenSegments(n)) <= Cardinality(OpenSegs(1, n))
  OBVIOUS
<1>1. DOMAIN plans \subseteq {1}
  BY DEF OnePlan, AllTypes, BooksType
<1>2. ASSUME NEW i \in remaining \cap issued, table[i].node = n
      PROVE  /\ table[i].plan = 1 /\ 1 \in DOMAIN plans
             /\ table[i].seg \in OpenSegs(1, n)
  <2>1. i \in DOMAIN table /\ table[i].plan \in DOMAIN plans /\ table[i].seg \in Nat
    BY DEF AllTypes, BooksType, Entry
  <2>2. table[i].plan = 1 /\ 1 \in DOMAIN plans
    BY <1>1, <2>1
  <2>3. table[i].seg >= 1
    BY <2>1 DEF ShipInv, FromOne
  <2>4. table[i].seg <= plans[1].next[n]
    BY <1>2, <2>2 DEF ShipInv, IssuedShipped
  <2>5. plans[1].next[n] \in Nat
    BY <2>2, CounterTypes
  <2>6. table[i].seg \in 1 .. plans[1].next[n]
    BY <2>1, <2>3, <2>4, <2>5
  <2>7. i \in SegRemaining(1, n, table[i].seg)
    BY <1>2, <2>1, <2>2 DEF SegRemaining, SegIids
  <2> QED BY <2>2, <2>6, <2>7 DEF OpenSegs
<1>3. 1 \in DOMAIN plans
  <2>1. PICK i \in remaining \cap issued : table[i].node = n
    BY DEF OpenSegments
  <2> QED BY <1>2, <2>1
<1> DEFINE all == {1} \X OpenSegs(1, n)
<1>4. OpenSegments(n) \in SUBSET all
  <2> SUFFICES ASSUME NEW x \in OpenSegments(n) PROVE x \in all
    OBVIOUS
  <2>1. PICK i \in remaining \cap issued :
           table[i].node = n /\ x = <<table[i].plan, table[i].seg>>
    BY DEF OpenSegments
  <2>2. table[i].plan = 1 /\ table[i].seg \in OpenSegs(1, n)
    BY <1>2, <2>1
  <2> QED BY <2>1, <2>2
<1>5. IsFiniteSet(OpenSegs(1, n)) /\ Cardinality(OpenSegs(1, n)) \in Nat
  BY <1>3, OpenSegsFinite
<1>6. IsFiniteSet({1}) /\ Cardinality({1}) = 1
  BY FS_Singleton
<1>7. IsFiniteSet(all) /\ Cardinality(all) = 1 * Cardinality(OpenSegs(1, n))
  BY <1>5, <1>6, FS_Product
<1> HIDE DEF all
<1>8. IsFiniteSet(OpenSegments(n)) /\ Cardinality(OpenSegments(n)) <= Cardinality(all)
  BY <1>4, <1>7, FS_Subset
<1> QED BY <1>3, <1>5, <1>7, <1>8

LEMMA WithinBudget ==
    ASSUME AllTypes, BookInv, ShipInv, OnePlan, OneSuspect(-1)
    PROVE  BudgetRespected
<1> SUFFICES ASSUME NEW n \in Nodes
             PROVE  \/ Cardinality(OpenSegments(n)) <= 1
                    \/ Cardinality(OpenSegments(n)) * SegBytes <= Budget
  BY DEF BudgetRespected
<1>1. downSet = {}
  <2>1. -1 \notin Nodes
    BY PlanAssumption DEF Nodes
  <2> QED BY <2>1 DEF OneSuspect, AllTypes, BooksType
<1>2. CASE OpenSegments(n) = {}
  BY <1>2, FS_EmptySet
<1>3. CASE OpenSegments(n) # {}
  <2> DEFINE c == Cardinality(OpenSegments(n))
  <2> DEFINE d == Cardinality(OpenSegs(1, n))
  <2>1. 1 \in DOMAIN plans /\ IsFiniteSet(OpenSegments(n)) /\ c <= d
    BY <1>1, <1>3, OpenOfOnePlan
  <2>2. c \in Nat /\ d \in Nat
    BY <2>1, OpenSegsFinite, FS_CardinalityType
  <2>3. SegBytes * d <= Budget \/ SegBytes * d <= SegBytes
    BY <1>1, <2>1, InflightByOpen DEF ShipInv, PlanBudget
  <2> HIDE DEF c, d
  <2>4. d <= 1 \/ d * SegBytes <= Budget
    BY <2>2, <2>3, SegmentsInBudget, DispatchAssumption
  <2>5. c * SegBytes <= d * SegBytes
    BY <2>1, <2>2, TimesMonotone, DispatchAssumption
  <2>6. c <= 1 \/ c * SegBytes <= Budget
    BY <2>1, <2>2, <2>4, <2>5, DispatchAssumption
  <2> QED BY <2>6 DEF c
<1> QED BY <1>2, <1>3

(* As long as no node is given up, the open segments a node was sent fit   *)
(* its budget, or there is a single one.  A recovery adds a plan with a    *)
(* budget of its own, so the hypothesis is needed.                         *)
THEOREM BudgetKept ==
    ASSUME Stale = {}, MayCrash = {}, MayStall = {}
    PROVE  Spec => []BudgetRespected
<1>1. Init => AllTypes /\ BookInv /\ ShipInv /\ Early /\ OneSuspect(-1) /\ OnePlan
  <2> SUFFICES ASSUME Init
               PROVE  AllTypes /\ BookInv /\ ShipInv /\ Early /\ OneSuspect(-1) /\ OnePlan
    OBVIOUS
  <2>1. AllTypes /\ BookInv /\ ShipInv
    BY TypeInit, BookInvInit, ShipInit
  <2>2. OneSuspect(-1)
    BY DEF Init, OneSuspect
  <2>3. Early /\ OnePlan
    BY DEF Init, Early, OnePlan
  <2> QED BY <2>1, <2>2, <2>3
<1>2. AllTypes /\ BookInv /\ ShipInv /\ Early /\ OneSuspect(-1) /\ OnePlan /\ [Next]_vars
        => AllTypes' /\ BookInv' /\ ShipInv' /\ Early' /\ OneSuspect(-1)' /\ OnePlan'
  BY TypeStep, BookInvStep, ShipStep, EarlyStep, OneSuspectStep, OnePlanStep
<1>3. AllTypes /\ BookInv /\ ShipInv /\ OnePlan /\ OneSuspect(-1) => BudgetRespected
  BY WithinBudget
<1> QED BY <1>1, <1>2, <1>3, PTL DEF Spec
=============================================================================
