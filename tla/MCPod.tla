------------------------------- MODULE MCPod -------------------------------
(***************************************************************************)
(* Small jobs for PodEngine: the cluster program of phobos-sched's tests,  *)
(* C = A x B tile by tile (tests.rs:7), in small shapes.                   *)
(***************************************************************************)
EXTENDS PodEngine

(* Leaf 1 clears a tile of C, leaf 0 adds A[i,k] x B[k,j] to it.           *)
Matmul(M, N, K) ==
    FlattenSeq([ij \in 1 .. M * N |->
        LET i == (ij - 1) \div N
            j == (ij - 1) % N
            c == <<"C", ij - 1>>
        IN <<[leaf |-> 1, args |-> <<[tile |-> c, mode |-> "write"]>>]>> \o
           [k \in 1 .. K |->
               [leaf |-> 0,
                args |-> <<[tile |-> <<"A", i * K + k - 1>>, mode |-> "read"],
                           [tile |-> <<"B", (k - 1) * N + j>>, mode |-> "read"],
                           [tile |-> c, mode |-> "rmw"]>>]]])

MatmulJob(M, N, K, width, fetch) ==
    [computes  |-> Matmul(M, N, K),
     mode      |-> [t \in {"A", "B", "C"} |-> IF t = "C" THEN "write" ELSE "read"],
     bytes     |-> [t \in {"A", "B", "C"} |-> 256],
     width     |-> width,
     live      |-> [i \in 1 .. width |-> i - 1],
     outputs   |-> {<<"C", lin>> : lin \in 0 .. M * N - 1},
     homeFetch |-> fetch,
     budget    |-> 100000,
     arena     |-> 100000,
     withheld  |-> {}]

(* An arena of the plan's highest resident bytes, and a tile less.         *)
Tight(j)   == [j EXCEPT !.arena = PeakResident(j)]
Starved(j) == [j EXCEPT !.arena = PeakResident(j) - 256]

(* The arena and the budget of phobos-pod's cluster_correctness example:   *)
(* the highest resident bytes and a fifth of them.                         *)
Headroom(j) ==
    LET arena == PeakResident(j) + PeakResident(j) \div 5
    IN [j EXCEPT !.arena = arena, !.budget = arena]

Local(M, N, K) == MatmulJob(M, N, K, 1, FALSE)
Pair           == MatmulJob(1, 2, 1, 2, TRUE)

(* C = C + A x B: the tiles of C are loaded, and no leaf clears them.      *)
Update ==
    LET adds(k) == Local(1, 1, 2).computes[k].leaf = 0
        kept    == SelectSeq(<<1, 2, 3>>, adds)
    IN [Local(1, 1, 2) EXCEPT !.mode["C"] = "rmw",
            !.computes = [k \in DOMAIN kept |-> @[kept[k]]]]

WithPlans(jobs) == [j \in DOMAIN jobs |-> Planned(jobs[j])] @@ <<>>

(* Inputs twice as large as outputs: slabs of two sizes.                   *)
TwoClasses(M, N, K) == [Local(M, N, K) EXCEPT !.bytes["A"] = 512, !.bytes["B"] = 512]

PassingJobs ==
    LET jobs == [update   |-> Update,
                 tight    |-> Tight(Local(2, 2, 1)),
                 sums     |-> Tight(Local(1, 1, 2)),
                 pieces   |-> Tight([Local(1, 2, 1) EXCEPT !.budget = 512]),
                 sizes    |-> [Local(2, 1, 1) EXCEPT !.bytes["A"] = 300],
                 classes  |-> Tight([TwoClasses(2, 2, 1) EXCEPT !.budget = 1024]),
                 starved  |-> Starved(Local(1, 2, 1)),
                 fetch    |-> Pair,
                 withheld |-> [Pair EXCEPT !.withheld = {<<1, 0>>}],
                 orphan   |-> [MatmulJob(1, 2, 1, 2, FALSE) EXCEPT !.withheld = {<<1, 0>>}]]
    IN WithPlans(jobs)

TightFetch ==
    LET jobs == [tightFetch |-> Headroom(MatmulJob(2, 3, 1, 2, TRUE))] IN WithPlans(jobs)

TwoSizes == LET jobs == [twoSizes |-> Headroom(TwoClasses(2, 3, 1))] IN WithPlans(jobs)
=============================================================================
