------------------------------ MODULE MCRace ------------------------------
(* Kernels for RaceCheck: two lanes of one warp and one of another.          *)
EXTENDS RaceCheck, TLC

At(even, odd) == [exact |-> TRUE, at |-> (0 :> even @@ 1 :> odd)]
Anywhere == [exact |-> FALSE, at |-> (0 :> Bytes @@ 1 :> Bytes)]

Op(kind, n) == [kind |-> kind, n |-> n]

Everyone == {Threads}
Singles == {{t} : t \in Threads}

\* Loads and stores of one byte, by thread and by warp.
Sharing ==
  [code |-> [ld |-> Op("load", 0), st |-> Op("store", 0), st2 |-> Op("store", 0),
             frag |-> Op("mmaLoad", 0), put |-> Op("mmaStore", 0), rows |-> Op("ldMatrix", 1),
             sync |-> Op("warpSync", 0), bar |-> Op("barrier", 0)],
   masks |-> Singles \cup Everyone \cup {{0, 1}}, views |-> {At({0}, {0})}, maxOps |-> 4, loops |-> FALSE]

\* Copies in groups, with waits that leave one group pending or none.
Staging ==
  [code |-> [cp |-> Op("copy", 0), grp |-> Op("group", 0), all |-> Op("wait", 0),
             most |-> Op("wait", 1), ld |-> Op("load", 0), bar |-> Op("barrier", 0)],
   masks |-> {{0}, {2}} \cup Everyone, views |-> {At({0}, {0})}, maxOps |-> 6, loops |-> FALSE]

\* Accesses of unknown address among exact ones.
Gathering ==
  [code |-> [ld |-> Op("load", 0), st |-> Op("store", 0), bar |-> Op("barrier", 0)],
   masks |-> Singles \cup Everyone, views |-> {At({0}, {0}), At({1}, {1}), Anywhere},
   maxOps |-> 3, loops |-> FALSE]

\* A loop over two slots, one of which a turn may use for the next turn.
Buffering ==
  [code |-> [ld |-> Op("load", 0), st |-> Op("store", 0), st2 |-> Op("store", 0),
             bar |-> Op("barrier", 0)],
   masks |-> {{0}} \cup Everyone, views |-> {At({0}, {0}), At({0}, {1}), At({1}, {0})},
   maxOps |-> 3, loops |-> TRUE]

MCKernels == {Sharing, Staging, Gathering, Buffering}
===========================================================================
