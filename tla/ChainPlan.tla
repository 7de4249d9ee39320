------------------------------ MODULE ChainPlan ------------------------------
(***************************************************************************)
(* What the dispatcher needs to know of a plan (phobos-sched/src/lib.rs):  *)
(* which chains it holds, where each chain runs, which instruction ids its *)
(* instructions get and in which segment of its node each one is issued.   *)
(*                                                                         *)
(* An output supertile is a key in 0..NKeys-1, its row-major index `lin`   *)
(* in the one output tensor of the job.  Everything a node does for one    *)
(* output is a chain of ChainLen instructions that depend on one another:  *)
(* the first one reads the inputs, and the output's old contents when it   *)
(* is read-modify-write (ALLOC and LOAD), the last but one writes the      *)
(* output to storage (STORE) and the last one releases the buffer (FREE).  *)
(* Where the memory budget cuts a node's instruction list is not a concern *)
(* of the dispatcher: here the cut falls after every SegLen instructions.  *)
(***************************************************************************)
EXTENDS Integers, FiniteSets

CONSTANTS
    Width,     \* number of nodes the job was planned for, dead ones included
    NKeys,     \* number of output supertiles
    ChainLen,  \* instructions per output
    SegLen     \* instructions per segment

ASSUME PlanAssumption ==
    /\ Width \in Nat \ {0}
    /\ NKeys \in Nat \ {0}
    /\ ChainLen \in Nat /\ ChainLen >= 3
    /\ SegLen \in Nat \ {0}

Nodes == 0 .. Width - 1
Keys == 0 .. NKeys - 1
Steps == 1 .. ChainLen

LoadStep == 1
StoreStep == ChainLen - 1

(* The node that owns a key for as long as the job runs: the placement of  *)
(* the first plan, which recovery goes by whatever happened since.         *)
Owner(k) == k % Width

(* The i-th element of a finite set of numbers, counted from 0.            *)
Nth(S, i) == CHOOSE x \in S : Cardinality({y \in S : y < x}) = i

(* live[lin % live.len()], the live nodes in ascending order.              *)
Placement(k, live) == Nth(live, k % Cardinality(live))

(* The chains of R that the plan lists before k on k's own node ...        *)
Earlier(k, R, live) ==
    {j \in R : Placement(j, live) = Placement(k, live) /\ j < k}

(* ... and on all nodes, which are lowered in ascending order.             *)
Before(k, R, live) ==
    {j \in R : Placement(j, live) < Placement(k, live)} \cup Earlier(k, R, live)

(* Ids count up from base + 1, node by node and chain by chain.            *)
Iid(k, step, R, live, base) ==
    base + Cardinality(Before(k, R, live)) * ChainLen + step

(* The segment of its node, from 1, that holds a step of k's chain.        *)
Segment(k, step, R, live) ==
    (Cardinality(Earlier(k, R, live)) * ChainLen + step - 1) \div SegLen + 1

PlanIids(R, live, base) ==
    {Iid(slot[1], slot[2], R, live, base) : slot \in R \X Steps}

(* The plan's instructions by id.                                          *)
PlanTable(R, live, base) ==
    [i \in PlanIids(R, live, base) |->
        LET slot == CHOOSE s \in R \X Steps : Iid(s[1], s[2], R, live, base) = i
        IN [key  |-> slot[1],
            step |-> slot[2],
            node |-> Placement(slot[1], live),
            seg  |-> Segment(slot[1], slot[2], R, live)]]

(* The number of segments of each node: its last instruction's segment.    *)
SegmentCount(R, live) ==
    [n \in Nodes |->
        LET mine == {k \in R : Placement(k, live) = n}
        IN (Cardinality(mine) * ChainLen + SegLen - 1) \div SegLen]

(* The outputs recovery re-plans: owned by a dead node and not excluded.   *)
Lost(dead, exclude) == {k \in Keys : Owner(k) \in dead /\ k \notin exclude}

=============================================================================
