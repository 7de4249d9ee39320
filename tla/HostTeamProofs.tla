---------------------------- MODULE HostTeamProofs ----------------------------
(***************************************************************************)
(* Theorems about HostTeam, for every size of team, every number of steps, *)
(* blocks, misses and chunks, and every kernel that fails, member that     *)
(* panics and pass that ends early.                                        *)
(***************************************************************************)
EXTENDS HostTeam, FiniteSetTheorems, SequenceTheorems, TLAPS

-----------------------------------------------------------------------------
(* The invariants.                                                         *)

Places == {"out", "spin", "park", "asleep", "report", "claim", "write", "enter", "arrive",
           "open", "held", "leave", "sum", "raise"}
Launches == [op : {"send", "add"}, of : Jobs]

(* Rows of m misses: the buffers are as long as the misses ask for.        *)
RowsOf(m) == [misses : {m}, to : {"flag", "caller"}, first : Nat, second : Nat, left : Nat,
              gu : [0..(m * UpChunks - 1) -> Chunk], hs : [0..(m - 1) -> Chunk],
              ys : [0..(m * DownChunks - 1) -> Chunk],
              failed : BOOLEAN, outcome : {"ok", "err"}, panicked : BOOLEAN]
Rows == UNION {RowsOf(m) : m \in Nat}

HostTypes ==
    /\ size \in Sizes
    /\ host \in {"record", "sync", "join", "start", "publish", "notify", "run", "alone",
                 "hits", "last", "end"}
    /\ step \in 1..(Steps + 1)
    /\ row \in Jobs \cup {NoJob}
    /\ told \in [Jobs -> {"nothing", "ok", "err"}]
JobTypes ==
    /\ job \in Jobs \cup {NoJob} /\ started \in Jobs \cup {NoJob}
    /\ live \subseteq Jobs
    /\ epoch \in Nat /\ finished \in Nat
    /\ withCaller \in BOOLEAN
BarrierTypes ==
    arrived \in Nat /\ generation \in Nat /\ turn \in [Members -> Nat]
MemberTypes ==
    /\ pc \in [Members -> Places] /\ phase \in [Members -> 1..3]
    /\ seen \in [Members -> Nat] /\ at \in [Members -> Nat]
    /\ mine \in [Members -> [job : Jobs \cup {NoJob}, index : Nat, size : Nat]]
    /\ \A m \in Members : pc[m] \in {"enter", "arrive", "open", "held"} => phase[m] < 3
WorkTypes == work \in [Jobs -> Rows]
DeviceTypes ==
    /\ queue \in Seq(Launches) /\ recorded \in Seq(Launches) /\ adding \in BOOLEAN
    /\ adding => queue # <<>> /\ Head(queue).op = "add"
HandTypes ==
    /\ flag \in [BlockSet -> {0, 1}]
    /\ y \in [BlockSet -> [of : Jobs \cup {NoJob}, whole : BOOLEAN]]
FaultTypes == fails \in Nat /\ panics \in Nat /\ aborts \in Nat

Types == HostTypes /\ JobTypes /\ BarrierTypes /\ MemberTypes /\ WorkTypes /\ DeviceTypes
         /\ HandTypes /\ FaultTypes

Workers == 1..(size - 1)
Quiet(m) == pc[m] \in {"spin", "park", "asleep"}

(* What the recording thread has in hand at each of its places.            *)
HostHolds ==
    /\ host \in {"sync", "join", "start", "publish", "notify", "run", "alone", "hits"} =>
          step \in Jobs
    /\ host \in {"start", "publish", "notify", "run", "alone"} => row = NoJob
    /\ host \in {"join", "last"} => row # NoJob
    /\ row = NoJob => started = NoJob
    /\ row # NoJob => row < step \/ (host = "hits" /\ row = step)
    /\ started # NoJob => started = row

(* The job that is set: it is held for the caller while the caller runs    *)
(* it, in the team afterwards.                                             *)
JobHeld ==
    /\ host \in {"publish", "notify", "run"} => job = step
    /\ host = "run" => withCaller
    /\ host = "alone" => job = NoJob /\ size = 1
    /\ job # NoJob /\ host \notin {"publish", "notify", "run"} => started = job /\ ~withCaller
    /\ job # NoJob => withCaller \/ size > 1
    /\ started # NoJob => job = started
    /\ live = IF job # NoJob THEN {job} ELSE IF host = "alone" THEN {step} ELSE {}

(* A worker between jobs has been through all of them or is late for the   *)
(* last; one in a job is in the one that is set.                           *)
WorkersKeepUp ==
    \A m \in Workers :
        /\ pc[m] # "out"
        /\ Quiet(m) => mine[m] = Idle /\ phase[m] = 1
        /\ Quiet(m) /\ (job = NoJob \/ host = "publish") => seen[m] = epoch
        /\ Quiet(m) => seen[m] \in {epoch, epoch - 1}
        /\ ~Quiet(m) => /\ job # NoJob /\ host # "publish" /\ seen[m] = epoch
                        /\ mine[m] = [job |-> job,
                                      index |-> IF withCaller THEN m ELSE m - 1,
                                      size |-> IF withCaller THEN size ELSE size - 1]

(* Member 0 is the caller, who is in a job only while it runs one.         *)
CallerRuns ==
    /\ pc[0] = "out" => mine[0] = Idle /\ phase[0] = 1
    /\ pc[0] # "out" => /\ ~Quiet(0)
                        /\ host \in {"run", "alone"}
                        /\ mine[0] = [job |-> step, index |-> 0,
                                      size |-> IF host = "run" THEN size ELSE 1]

Strangers == \A m \in Members : m >= size => pc[m] = "out"

(* Team.finished counts the workers that are through the job.              *)
ThroughJob(m) == Quiet(m) /\ seen[m] = epoch /\ host # "publish"
DoneWorkers == {m \in Workers : ThroughJob(m)}
FinishedCounts == job # NoJob => finished = Cardinality(DoneWorkers)

TeamInv == HostHolds /\ JobHeld /\ WorkersKeepUp /\ CallerRuns /\ Strangers /\ FinishedCounts

-----------------------------------------------------------------------------
(* The crew of the job that runs, and where its members are.               *)

Active == job # NoJob \/ host = "alone"
Cur == IF host = "alone" THEN step ELSE job
CallerIn == host # "alone" /\ withCaller
Crew == IF host = "alone" THEN {0} ELSE IF withCaller THEN 0..(size - 1) ELSE Workers
CrewSize == IF host = "alone" THEN 1 ELSE IF withCaller THEN size ELSE size - 1
Index(m) == IF host = "alone" \/ withCaller THEN m ELSE m - 1

(* A member that is through its share or has yet to see the job.           *)
Done(m) == IF m = 0 THEN pc[0] = "out" /\ host \in {"run", "alone"} ELSE ThroughJob(m)
Gone(m) == pc[m] \in {"leave", "sum", "raise", "report"} \/ Done(m)
Late(m) == ~Busy(m) /\ pc[m] # "report" /\ ~Done(m)

(* The barrier: it counts the members that wait in it, and opens when the  *)
(* whole crew does.                                                        *)
Waiting(m) == pc[m] = "open" \/ (pc[m] = "held" /\ turn[m] = generation)
AtBarrier == {m \in Members : Waiting(m)}

BarrierCounts ==
    /\ arrived = Cardinality(AtBarrier)
    /\ \A m \in Members :
          /\ pc[m] = "arrive" => turn[m] = generation
          /\ pc[m] = "held" => turn[m] = generation \/ turn[m] + 1 = generation
          /\ pc[m] = "open" => /\ \A k \in Crew : Waiting(k)
                               /\ \A k \in Members : pc[k] = "open" => k = m

(* The row of the crew's job.                                              *)
Task == work[Cur]

(* The crew is in phase p.  A member may have been let through the barrier *)
(* before and not have moved; one that is gone is through phase 3, or died.*)
MemberIn(m, p) ==
    /\ Late(m) => p = 1
    /\ pc[m] \in {"claim", "write"} => phase[m] = p
    /\ pc[m] \in {"enter", "arrive", "open"} => phase[m] = p /\ p < 3
    /\ pc[m] = "held" => IF turn[m] = generation THEN phase[m] = p /\ p < 3
                                                 ELSE phase[m] + 1 = p
    /\ Gone(m) => p = 3 \/ Task.panicked
InPhase(p) == \A m \in Crew : MemberIn(m, p)

(* What is claimed is written, or being written by one member.             *)
Writes(m, p, c) == pc[m] = "write" /\ phase[m] = p /\ at[m] = c
Lost == \E m \in Crew : Gone(m)
HasToQuantize(m, k) ==
    /\ k % CrewSize = Index(m)
    /\ \/ pc[m] = "held" /\ phase[m] = 1
       \/ pc[m] \in {"claim", "write"} /\ at[m] <= k

UpFresh == \A c \in DOMAIN Task.gu : c >= Task.first => Task.gu[c] = "raw"
UpHeld == \A c \in DOMAIN Task.gu :
    Task.gu[c] = "raw" => c >= Task.first \/ Lost \/ \E m \in Crew : Writes(m, 1, c)
UpSpent(m) == Waiting(m) \/ pc[m] \in {"enter", "arrive"} => Task.first >= Task.misses * UpChunks
UpMine(m) ==
    pc[m] = "write" => at[m] < Task.first /\ at[m] \in DOMAIN Task.gu /\ Task.gu[at[m]] = "raw"
UpApart(m, k) == pc[m] = "write" /\ pc[k] = "write" /\ at[m] = at[k] => m = k
UpWritten(p) ==
    /\ p = 1 => /\ UpFresh /\ UpHeld
                /\ \A m \in Crew : UpSpent(m) /\ UpMine(m)
                /\ \A m, k \in Crew : UpApart(m, k)
    /\ p > 1 => \A c \in DOMAIN Task.gu : Task.gu[c] # "raw"

HsHeld == \A k \in DOMAIN Task.hs :
    Task.hs[k] = "raw" => Lost \/ \E m \in Crew : HasToQuantize(m, k)
HsMine(m) ==
    /\ pc[m] \in {"claim", "write"} => at[m] % CrewSize = Index(m)
    /\ pc[m] = "write" => at[m] < Task.misses
Quantized(p) ==
    /\ p = 2 => HsHeld /\ \A m \in Crew : HsMine(m)
    /\ p > 2 => \A k \in DOMAIN Task.hs : Task.hs[k] # "raw"

YsHeld == \A c \in DOMAIN Task.ys :
    Task.ys[c] = "raw" => c >= Task.second \/ Task.panicked \/ \E m \in Crew : Writes(m, 3, c)
YsMine(m) ==
    /\ Gone(m) => Task.panicked \/ Task.second >= Task.misses * DownChunks
    /\ pc[m] = "write" => at[m] \in DOMAIN Task.ys
DownWritten(p) ==
    /\ p < 3 => Task.second = 0
    /\ p = 3 => YsHeld /\ \A m \in Crew : YsMine(m)

RowInPhase == Active => \E p \in 1..3 : InPhase(p) /\ UpWritten(p) /\ Quantized(p) /\ DownWritten(p)

(* A buffer has something wrong in it only if that was noted.              *)
Clean(w) == /\ \A c \in DOMAIN w.gu : w.gu[c] # "bad"
            /\ \A k \in DOMAIN w.hs : w.hs[k] # "bad"
            /\ \A c \in DOMAIN w.ys : w.ys[c] # "bad"
BadIsNoted == \A j \in Jobs : Clean(work[j]) \/ work[j].failed \/ work[j].outcome = "err"

RowInv == RowInPhase /\ BadIsNoted

-----------------------------------------------------------------------------
(* How a row ends.                                                         *)

Left(m) == pc[m] \in {"sum", "raise", "report"} \/ Done(m)
LeftCrew == {m \in Crew : Left(m)}

(* A started row counts the members that have left.  The last one sums,    *)
(* and after it no error waits to be handed over.                          *)
LeftCounts ==
    Active =>
        LET w == work[Cur] IN
        /\ w.to = IF CallerIn THEN "caller" ELSE "flag"
        /\ w.to = "flag" => w.left = Cardinality(LeftCrew)
        /\ w.to = "caller" => (\A m \in Crew : pc[m] \notin {"leave", "sum", "raise"}) /\ w.outcome = "ok"
        /\ w.to = "flag" /\ w.left # CrewSize => w.outcome = "ok"

OneSums ==
    Active =>
        LET w == work[Cur] IN
        /\ \A m \in Crew : pc[m] \in {"sum", "raise"} =>
              /\ w.left = CrewSize
              /\ \A k \in Crew : pc[k] \in {"sum", "raise"} => k = m
        /\ \A m \in Crew : pc[m] = "sum" => w.outcome = "ok"
        /\ w.to = "flag" /\ w.left = CrewSize => (\E m \in Crew : pc[m] = "sum") \/ ~w.failed

CrewInv == BarrierCounts /\ LeftCounts /\ OneSums

Accounted(w) == w.panicked \/ w.outcome = "err" \/ Whole(w)
ToldInv ==
    /\ \A s \in Jobs : told[s] # "nothing" => s < step /\ s # row /\ s # job
    /\ \A s \in Jobs : RowOk(s) \/ work[s].panicked
    /\ row # NoJob /\ started = NoJob => Accounted(work[row])


-----------------------------------------------------------------------------
(* What the device adds, as long as no pass was cut off.                   *)

(* The step whose row the device is still to add, if there is one.         *)
Add(s) == [op |-> "add", of |-> s]
Send(s) == [op |-> "send", of |-> s]
Owed ==
    IF host \in {"publish", "notify", "alone"} THEN {s \in {step} : work[s].to = "flag"}
    ELSE IF host = "hits" THEN {step}
    ELSE IF recorded # <<>> \/ (queue # <<>> /\ Head(queue).op = "add") THEN {step - 1}
    ELSE {}

StreamInv ==
    aborts = 0 =>
        /\ recorded # <<>> => host = "record" /\ recorded = <<Add(step - 1)>>
        /\ host \notin {"sync", "last", "end"} => queue = <<>>
        /\ host = "sync" =>
              queue \in {<<>>, <<Send(step)>>, <<Add(step - 1), Send(step)>>}
        /\ host \in {"last", "end"} => queue \in {<<>>, <<Add(step - 1)>>}

Unraised == Active /\ Task.to = "flag" /\
            (Task.left < CrewSize \/ \E m \in Crew : pc[m] \in {"sum", "raise"})

(* A row still to be raised is still to be added; a flag that is up is     *)
(* that of the one row still to be added, which is in its place.           *)
FlagIsOwed(b) == \E s \in Owed : b = Block(s) /\ y[b].of = s /\ (Unraised => Cur # s)
HandInv ==
    aborts = 0 =>
        /\ Unraised => Cur \in Owed
        /\ \A b \in BlockSet : flag[b] = 1 => FlagIsOwed(b)
        /\ \A m \in Members : pc[m] = "raise" => y[Block(Cur)].of = Cur
SeenRaised == adding => flag[Block(Head(queue).of)] = 1

-----------------------------------------------------------------------------
(* Types.                                                                  *)

(* The team is among the members: what 1..(size - 1) and 0 rely on.        *)
LEMMA TeamIsMembers ==
    ASSUME NEW n \in Sizes
    PROVE  /\ n \in Nat \ {0}
           /\ 0..(n - 1) \subseteq Members
           /\ Members \subseteq Nat
           /\ 0 \in Members
           /\ \E k \in Nat \ {0} : Members = 0..(k - 1)
<1> DEFINE P(k) == k \in Sizes /\ \A i \in Sizes : i <= k
           most == CHOOSE k \in Sizes : \A i \in Sizes : i <= k
<1>1. most \in Sizes /\ \A i \in Sizes : i <= most
  BY TeamAssumption
<1>2. Members = 0..(most - 1)
  BY DEF Members
<1>3. most \in Nat \ {0} /\ n \in Nat \ {0} /\ n <= most
  BY <1>1, TeamAssumption
<1> HIDE DEF most
<1> QED BY <1>2, <1>3

(* A row is a row of its own misses.                                       *)
LEMMA RowShape ==
    ASSUME NEW w \in Rows
    PROVE  w.misses \in Nat /\ w \in RowsOf(w.misses)
<1>1. PICK m \in Nat : w \in RowsOf(m)
  BY DEF Rows
<1>2. w.misses = m
  BY <1>1 DEF RowsOf
<1> QED BY <1>1, <1>2

(* A new row.                                                              *)
LEMMA NewRow ==
    ASSUME NEW m \in Nat, NEW to \in {"flag", "caller"}
    PROVE  Row(m, to) \in RowsOf(m) /\ Row(m, to) \in Rows
<1>1. Row(m, to) \in RowsOf(m)
  BY DEF Row, RowsOf, Chunk
<1> QED BY <1>1 DEF Rows

(* What the actions change of a row leaves it one.                         *)
LEMMA RowChanges ==
    ASSUME NEW w \in Rows, NEW n \in Nat, NEW v \in Chunk, NEW i \in Nat, NEW o \in {"ok", "err"},
           NEW b \in BOOLEAN
    PROVE  /\ [w EXCEPT !.first = n] \in Rows
           /\ [w EXCEPT !.second = n] \in Rows
           /\ [w EXCEPT !.left = n] \in Rows
           /\ [w EXCEPT !.gu[i] = v] \in Rows
           /\ [w EXCEPT !.hs[i] = v] \in Rows
           /\ [w EXCEPT !.ys[i] = v] \in Rows
           /\ [w EXCEPT !.failed = b] \in Rows
           /\ [w EXCEPT !.panicked = b] \in Rows
           /\ [w EXCEPT !.outcome = o, !.failed = b] \in Rows
<1>1. PICK m \in Nat : w \in RowsOf(m)
  BY DEF Rows
<1>2. \A u \in RowsOf(m) : u \in Rows
  BY DEF Rows
<1>3. [w EXCEPT !.first = n] \in RowsOf(m) /\ [w EXCEPT !.second = n] \in RowsOf(m)
      /\ [w EXCEPT !.left = n] \in RowsOf(m)
  BY <1>1 DEF RowsOf
<1>4. [w EXCEPT !.gu[i] = v] \in RowsOf(m) /\ [w EXCEPT !.hs[i] = v] \in RowsOf(m)
      /\ [w EXCEPT !.ys[i] = v] \in RowsOf(m)
  BY <1>1 DEF RowsOf
<1>5. [w EXCEPT !.failed = b] \in RowsOf(m) /\ [w EXCEPT !.panicked = b] \in RowsOf(m)
      /\ [w EXCEPT !.outcome = o, !.failed = b] \in RowsOf(m)
  BY <1>1 DEF RowsOf
<1> QED BY <1>2, <1>3, <1>4, <1>5

(* A block's number is one of the hand-offs'.                              *)
LEMMA BlockTyped ==
    ASSUME NEW s \in Nat
    PROVE  Block(s) \in BlockSet
BY TeamAssumption DEF Block, BlockSet

(* Launches put on the stream and taken off it.                            *)
LEMMA StreamTyped ==
    ASSUME NEW q \in Seq(Launches), NEW r \in Seq(Launches), NEW l \in Launches
    PROVE  /\ q \o r \in Seq(Launches)
           /\ q \o r \o <<l>> \in Seq(Launches)
           /\ Append(r, l) \in Seq(Launches)
           /\ q # <<>> => /\ Tail(q) \in Seq(Launches) /\ Head(q) \in Launches
                          /\ q \o r # <<>> /\ Head(q \o r) = Head(q)
                          /\ q \o r \o <<l>> # <<>> /\ Head(q \o r \o <<l>>) = Head(q)
<1>1. q \o r \in Seq(Launches) /\ <<l>> \in Seq(Launches)
  BY ConcatProperties
<1>2. q \o r \o <<l>> \in Seq(Launches) /\ Append(r, l) \in Seq(Launches)
  BY <1>1, ConcatProperties, AppendProperties
<1>3. ASSUME q # <<>>
      PROVE  /\ Tail(q) \in Seq(Launches) /\ Head(q) \in Launches
             /\ q \o r # <<>> /\ Head(q \o r) = Head(q)
             /\ q \o r \o <<l>> # <<>> /\ Head(q \o r \o <<l>>) = Head(q)
  BY <1>1, <1>2, <1>3
<1> QED BY <1>1, <1>2, <1>3

(* A busy member is of the crew, in the job the crew runs.                 *)
LEMMA BusyInJob ==
    ASSUME Types, TeamInv, NEW m \in Members, Busy(m) \/ pc[m] = "report"
    PROVE  /\ Active /\ Cur \in Jobs /\ m \in Crew
           /\ mine[m] = [job |-> Cur, index |-> Index(m), size |-> CrewSize]
<1>0. size \in Nat \ {0} /\ Members \subseteq Nat
  BY TeamIsMembers DEF Types, HostTypes
<1>1. pc[m] # "out" /\ ~Quiet(m)
  BY DEF Busy, Quiet
<1>2. m \in 0..(size - 1)
  BY <1>0, <1>1 DEF TeamInv, Strangers
<1>3. CASE m = 0
  BY <1>0, <1>1, <1>2, <1>3
     DEF Types, HostTypes, TeamInv, CallerRuns, JobHeld, HostHolds, Active, Cur, Crew, Index, CrewSize, NoJob, Jobs
<1>4. CASE m # 0
  <2>1. m \in Workers
    BY <1>0, <1>2, <1>4 DEF Workers
  <2>2. /\ job # NoJob
        /\ mine[m] = [job |-> job, index |-> IF withCaller THEN m ELSE m - 1,
                      size |-> IF withCaller THEN size ELSE size - 1]
    BY <2>1, <1>1 DEF TeamInv, WorkersKeepUp
  <2>3. host # "alone" /\ job \in Jobs
    BY <2>2 DEF Types, JobTypes, TeamInv, JobHeld
  <2> QED BY <2>1, <2>2, <2>3, <1>2 DEF Active, Cur, Crew, Index, CrewSize
<1> QED BY <1>3, <1>4

(* The same of all of them, for the state a step leads to as well.         *)
LEMMA BusyAreCrew ==
    Types /\ TeamInv => \A m \in Members : Busy(m) \/ pc[m] = "report" => Active /\ m \in Crew
BY BusyInJob

(* Every variable starts with its type.                                    *)
LEMMA TypesInit == Init => Types
<1> SUFFICES ASSUME Init PROVE Types
  OBVIOUS
<1>1. 1 \in 1..(Steps + 1) /\ Steps \in Nat
  BY TeamAssumption
<1>2. work \in [Jobs -> Rows]
  BY NewRow DEF Init
<1>3. /\ pc \in [Members -> Places] /\ phase \in [Members -> 1..3]
      /\ seen \in [Members -> Nat] /\ at \in [Members -> Nat] /\ turn \in [Members -> Nat]
      /\ \A m \in Members : pc[m] \in {"spin", "out"}
  BY DEF Init, Places
<1>4. mine \in [Members -> [job : Jobs \cup {NoJob}, index : Nat, size : Nat]]
  BY DEF Init, Idle
<1>5. /\ queue \in Seq(Launches) /\ recorded \in Seq(Launches)
      /\ flag \in [BlockSet -> {0, 1}]
      /\ y \in [BlockSet -> [of : Jobs \cup {NoJob}, whole : BOOLEAN]]
      /\ told \in [Jobs -> {"nothing", "ok", "err"}]
  BY DEF Init, NoRow
<1> QED BY <1>1, <1>2, <1>3, <1>4, <1>5 DEF Init, Types, HostTypes, JobTypes, BarrierTypes, MemberTypes, WorkTypes,
        DeviceTypes, HandTypes, FaultTypes

(* Each step leaves the variables typed.                                   *)
LEMMA TypesHost ==
    ASSUME Types, TeamInv, Host \/ Abort
    PROVE  Types'
<1> USE DEF Types, HostTypes, JobTypes, DeviceTypes, FaultTypes
<1>0. /\ size \in Nat \ {0} /\ 0 \in Members /\ step \in Nat /\ Steps \in Nat
      /\ \A s \in Nat : Block(s) \in BlockSet
  BY TeamIsMembers, BlockTyped, TeamAssumption
<1> USE DEF hostVars, teamVars, jobVars, barrierVars, memberVars, deviceVars, handVars, faultVars,
            BarrierTypes, MemberTypes, WorkTypes, HandTypes, HostHolds
<1>1. CASE Record
  <2>1. step \in Jobs /\ [op |-> "send", of |-> step] \in Launches
    BY <1>0, <1>1 DEF Record, Jobs, Launches
  <2>2. queue' \in Seq(Launches) /\ recorded' \in Seq(Launches)
        /\ (adding' => queue' # <<>> /\ Head(queue').op = "add")
    BY <2>1, <1>1, StreamTyped DEF Record
  <2> QED BY <2>2, <1>1 DEF Record
<1>2. CASE Sync
  BY <1>2 DEF Sync
<1>3. CASE Join
  <2>1. row \in Jobs /\ work[row].outcome \in {"ok", "err"}
    BY <1>3 DEF Join, Rows, RowsOf
  <2>2. step' \in 1..(Steps + 1)
    BY <1>0, <1>3 DEF Join, EndPass, TeamInv, Jobs
  <2>3. HostTypes'
    BY <2>1, <2>2, <1>3 DEF Join, EndPass
  <2>4. JobTypes'
    BY <1>3 DEF Join, Clear
  <2>5. DeviceTypes'
    <3>1. queue' = queue /\ adding' = adding /\ (recorded' = <<>> \/ recorded' = recorded)
      BY <1>3 DEF Join, EndPass
    <3>2. <<>> \in Seq(Launches)
      OBVIOUS
    <3> QED BY <3>1, <3>2
  <2> QED BY <2>3, <2>4, <2>5, <1>3 DEF Join
<1>4. CASE RaiseZeros
  BY <1>0, <1>4 DEF RaiseZeros, TeamInv
<1>5. ASSUME NEW caller \in BOOLEAN, Dispatch(caller) PROVE Types'
  <2>0. PICK m \in MissCounts \ {0} :
            work' = [work EXCEPT ![step] = Row(m, IF caller THEN "caller" ELSE "flag")]
    BY <1>5 DEF Dispatch
  <2>1. WorkTypes'
    BY <2>0, NewRow, TeamAssumption
  <2>2. HostTypes' /\ JobTypes'
    BY <1>5 DEF Dispatch, TeamInv
  <2> QED BY <2>1, <2>2, <1>5 DEF Dispatch
<1>6. CASE Publish
  BY <1>0, <1>6 DEF Publish
<1>7. CASE Notify
  <2>1. Woken \in [Members -> Places]
    BY DEF Woken, Places
  <2>2. MemberTypes'
    <3>1. CASE withCaller
      <4>1. /\ pc' = [Woken EXCEPT ![0] = "claim"] /\ phase' = [phase EXCEPT ![0] = 1]
            /\ mine' = [mine EXCEPT ![0] = [job |-> step, index |-> 0, size |-> size]]
            /\ UNCHANGED <<seen, at>> /\ step \in Jobs
        BY <1>7, <3>1 DEF Notify, Share, TeamInv
      <4>2. \A m \in Members : m # 0 => phase'[m] = phase[m] /\ (pc'[m] = pc[m] \/ pc'[m] = "park")
        BY <4>1 DEF Woken
      <4>3. pc' \in [Members -> Places] /\ phase' \in [Members -> 1..3]
        <5>1. phase \in [Members -> 1..3] /\ 0 \in Members /\ "claim" \in Places
          BY <1>0 DEF Places
        <5> HIDE DEF Types, HostTypes, JobTypes, DeviceTypes, FaultTypes, BarrierTypes,
                     MemberTypes, WorkTypes, HandTypes, HostHolds
        <5> QED BY <2>1, <4>1, <5>1
      <4>4. mine' \in [Members -> [job : Jobs \cup {NoJob}, index : Nat, size : Nat]]
        BY <1>0, <4>1
      <4> QED BY <1>0, <4>1, <4>2, <4>3, <4>4
    <3>2. CASE ~withCaller
      <4>1. pc' = Woken /\ UNCHANGED <<mine, phase, seen, at>>
        BY <1>7, <3>2 DEF Notify
      <4>2. \A m \in Members : pc'[m] = pc[m] \/ pc'[m] = "park"
        BY <4>1 DEF Woken
      <4> QED BY <2>1, <4>1, <4>2
    <3> QED BY <3>1, <3>2
  <2>3. HostTypes' /\ JobTypes'
    BY <1>7 DEF Notify, TeamInv
  <2> QED BY <2>2, <2>3, <1>7 DEF Notify
<1>8. CASE Ran
  <2>1. HostTypes'
    <3>1. step \in Jobs
      BY <1>8 DEF Ran, TeamInv
    <3>2. told' \in [Jobs -> {"nothing", "ok", "err"}]
      BY <1>8, <3>1 DEF Ran, Verdict
    <3>3. /\ step' = step + 1 /\ host' = "record" /\ UNCHANGED <<size, row>>
      BY <1>8 DEF Ran, EndPass
    <3>4. step' \in 1..(Steps + 1)
      BY <1>0, <3>1, <3>3 DEF Jobs
    <3> QED BY <3>2, <3>3, <3>4
  <2>3. DeviceTypes'
    <3>1. queue' = queue /\ adding' = adding /\ (recorded' = <<>> \/ recorded' = recorded)
      BY <1>8 DEF Ran, EndPass
    <3>2. <<>> \in Seq(Launches)
      OBVIOUS
    <3> QED BY <3>1, <3>2
  <2>2. JobTypes'
    BY <1>8 DEF Ran, Clear
  <2> QED BY <2>1, <2>2, <2>3, <1>8 DEF Ran
<1>9. CASE StartAlone
  <2>0. PICK m \in MissCounts \ {0} : work' = [work EXCEPT ![step] = Row(m, "flag")]
    BY <1>9 DEF StartAlone
  <2>1. WorkTypes'
    BY <2>0, NewRow, TeamAssumption
  <2>2. MemberTypes'
    BY <1>0, <1>9 DEF StartAlone, Share, Places, TeamInv
  <2>3. HostTypes' /\ JobTypes'
    BY <1>9 DEF StartAlone, TeamInv
  <2> QED BY <2>1, <2>2, <2>3, <1>9 DEF StartAlone
<1>10. CASE RanAlone
  BY <1>0, <1>10 DEF RanAlone, TeamInv
<1>11. CASE Hits
  <2>1. [op |-> "add", of |-> step] \in Launches /\ step \in Jobs
    BY <1>11 DEF Hits, TeamInv, Launches
  <2>2. recorded' \in Seq(Launches)
    BY <2>1, <1>11, StreamTyped DEF Hits
  <2>3. HostTypes' /\ JobTypes'
    BY <2>1, <1>0, <1>11 DEF Hits, Jobs
  <2>4. BarrierTypes' /\ MemberTypes' /\ WorkTypes' /\ FaultTypes'
    BY <1>0, <1>11 DEF Hits
  <2>5. DeviceTypes' /\ HandTypes'
    BY <2>2, <1>0, <1>11 DEF Hits
  <2> QED BY <2>3, <2>4, <2>5
<1>12. CASE Abort
  <2>1. HostTypes' /\ JobTypes'
    BY <1>0, <1>12 DEF Abort, EndPass, Jobs, TeamInv
  <2>2. BarrierTypes' /\ MemberTypes' /\ WorkTypes' /\ FaultTypes'
    BY <1>0, <1>12 DEF Abort, EndPass
  <2>3. DeviceTypes' /\ HandTypes'
    BY <1>0, <1>12 DEF Abort, EndPass
  <2> QED BY <2>1, <2>2, <2>3
<1>13. CASE Last
  <2>1. queue' \in Seq(Launches) /\ recorded' \in Seq(Launches)
        /\ (adding' => queue' # <<>> /\ Head(queue').op = "add")
    BY <1>13, StreamTyped DEF Last
  <2> QED BY <2>1, <1>13 DEF Last
<1> QED BY <1>1, <1>2, <1>3, <1>4, <1>5, <1>6, <1>7, <1>8, <1>9, <1>10, <1>11, <1>12, <1>13 DEF Host

(* The row of a busy member.                                               *)
LEMMA BusyRow ==
    ASSUME Types, TeamInv, NEW m \in Members, Busy(m)
    PROVE  /\ mine[m].job = Cur /\ Cur \in Jobs /\ W(m) = work[Cur] /\ work[Cur] \in Rows
           /\ {W(m).misses, W(m).first, W(m).second, W(m).left} \subseteq Nat
           /\ W(m).to \in {"flag", "caller"}
           /\ W(m).failed \in BOOLEAN /\ W(m).panicked \in BOOLEAN
           /\ mine[m].size = CrewSize /\ mine[m].index = Index(m)
<1>1. mine[m].job = Cur /\ Cur \in Jobs /\ mine[m].size = CrewSize /\ mine[m].index = Index(m)
  <2>1. Cur \in Jobs /\ mine[m] = [job |-> Cur, index |-> Index(m), size |-> CrewSize]
    BY BusyInJob
  <2> QED BY <2>1
<1>2. W(m) = work[Cur] /\ work[Cur] \in Rows
  BY <1>1 DEF W, Types, WorkTypes
<1>3. W(m).misses \in Nat /\ W(m) \in RowsOf(W(m).misses)
  BY <1>2, RowShape
<1> QED BY <1>1, <1>2, <1>3 DEF RowsOf

(* A step of a member keeps every type.                                    *)
LEMMA TypesMember ==
    ASSUME Types, TeamInv, NEW m \in Members, Member(m) \/ Doze(m)
    PROVE  Types'
<1>0. /\ size \in Nat \ {0} /\ m \in Nat
      /\ \A s \in Nat : Block(s) \in BlockSet
  BY TeamIsMembers, BlockTyped DEF Types, HostTypes
<1> USE DEF Types
<1>a. ASSUME NEW to \in Places, Go(m, to), to \in {"enter", "arrive", "open", "held"} => phase'[m] < 3,
             phase' \in [Members -> 1..3], \A k \in Members : k # m => phase'[k] = phase[k],
             seen' \in [Members -> Nat], at' \in [Members -> Nat],
             mine' \in [Members -> [job : Jobs \cup {NoJob}, index : Nat, size : Nat]]
      PROVE  MemberTypes'
  BY <1>a DEF MemberTypes, Go
<1>b. ASSUME NEW u \in Rows, work' = [work EXCEPT ![Cur] = u] PROVE WorkTypes'
  BY <1>b DEF WorkTypes
<1> USE DEF hostVars, jobVars, barrierVars, memberVars, deviceVars, handVars, faultVars
<1>1. CASE Take(m)
  <2>1. [job |-> job, index |-> IF withCaller THEN m ELSE m - 1,
         size |-> IF withCaller THEN size ELSE size - 1]
          \in [job : Jobs \cup {NoJob}, index : Nat, size : Nat]
    <3>1. m \in Workers
      BY <1>0, <1>1 DEF Take, TeamInv, CallerRuns, Strangers, Workers, Quiet
    <3> QED BY <1>0, <3>1 DEF Workers, JobTypes
  <2>2. MemberTypes'
    BY <1>1, <2>1, <1>a DEF Take, Places, MemberTypes, JobTypes
  <2> QED BY <1>1, <2>2 DEF Take, HostTypes, JobTypes, BarrierTypes, WorkTypes, DeviceTypes, HandTypes, FaultTypes
<1>2. CASE Park(m) \/ Doze(m)
  <2>1. MemberTypes'
    BY <1>2, <1>a DEF Park, Doze, Places, MemberTypes
  <2>2. UNCHANGED <<hostVars, jobVars, barrierVars, deviceVars, handVars, faultVars, work>>
    BY <1>2 DEF Park, Doze
  <2>3. UNCHANGED <<size, withCaller, epoch, job, finished, started, live>>
    BY <1>2 DEF Park, Doze
  <2> QED BY <2>1, <2>2, <2>3 DEF HostTypes, JobTypes, BarrierTypes, WorkTypes, DeviceTypes, HandTypes, FaultTypes
<1>3. CASE Report(m)
  <2>1. MemberTypes'
    BY <1>3, <1>a DEF Report, Places, Idle, MemberTypes
  <2>2. JobTypes'
    BY <1>3 DEF Report, JobTypes
  <2> QED BY <2>1, <2>2, <1>3 DEF Report, HostTypes, BarrierTypes, WorkTypes, DeviceTypes, HandTypes, FaultTypes
<1>4. CASE Claim(m)
  <2> DEFINE i == CASE phase[m] = 1 -> W(m).first [] phase[m] = 2 -> at[m] [] phase[m] = 3 -> W(m).second
  <2>0. Busy(m)
    BY <1>4 DEF Claim, Busy
  <2>1. i \in Nat
    BY <2>0, BusyRow DEF MemberTypes
  <2>2. WorkTypes'
    <3>1. W(m) \in Rows /\ mine[m].job = Cur
      BY <2>0, BusyRow
    <3>2. [W(m) EXCEPT !.first = i + 1] \in Rows /\ [W(m) EXCEPT !.second = i + 1] \in Rows
      <4>1. \A n \in Nat : [W(m) EXCEPT !.first = n] \in Rows /\ [W(m) EXCEPT !.second = n] \in Rows
        BY <3>1, RowChanges DEF Chunk
      <4> HIDE DEF i
      <4>2. i + 1 \in Nat
        BY <2>1
      <4> QED BY <4>1, <4>2
    <3>3. \/ phase[m] = 1 /\ work' = [work EXCEPT ![Cur] = [W(m) EXCEPT !.first = i + 1]]
          \/ phase[m] = 2 /\ work' = [work EXCEPT ![Cur] = W(m)]
          \/ phase[m] = 3 /\ work' = [work EXCEPT ![Cur] = [W(m) EXCEPT !.second = i + 1]]
      <4>1. phase[m] \in 1..3
        BY DEF MemberTypes
      <4>2. CASE phase[m] = 1
        BY <1>4, <3>1, <4>2 DEF Claim, SetWork
      <4>3. CASE phase[m] = 2
        BY <1>4, <3>1, <4>3 DEF Claim, SetWork
      <4>4. CASE phase[m] = 3
        BY <1>4, <3>1, <4>4 DEF Claim, SetWork
      <4> QED BY <4>1, <4>2, <4>3, <4>4
    <3> QED BY <3>1, <3>2, <3>3, <1>b
  <2>3. at' \in [Members -> Nat] /\ UNCHANGED <<phase, seen, mine>>
    BY <1>4, <2>1 DEF Claim, MemberTypes
  <2>4. \E to \in {"write", "enter", "leave", "report"} : Go(m, to) /\ (to = "enter" => phase[m] < 3)
    BY <1>4 DEF Claim
  <2>5. MemberTypes'
    BY <2>3, <2>4, <1>a DEF Places, MemberTypes
  <2> QED BY <1>4, <2>2, <2>5 DEF Claim, HostTypes, JobTypes, BarrierTypes, DeviceTypes, HandTypes, FaultTypes
<1>5. CASE Write(m)
  <2>0. Busy(m)
    BY <1>5 DEF Write, Busy
  <2>1. WorkTypes'
    <3>1. W(m) \in Rows /\ mine[m].job = Cur /\ at[m] \in Nat
      BY <2>0, BusyRow DEF MemberTypes
    <3>2. \A v \in Chunk : /\ [W(m) EXCEPT !.gu[at[m]] = v] \in Rows
                            /\ [W(m) EXCEPT !.hs[at[m]] = v] \in Rows
                            /\ [W(m) EXCEPT !.ys[at[m]] = v] \in Rows
      BY <3>1, RowChanges
    <3>3. \A u \in Rows : [u EXCEPT !.failed = TRUE] \in Rows /\ [u EXCEPT !.panicked = TRUE] \in Rows
      BY RowChanges DEF Chunk
    <3>5. \E u \in Rows : work' = [work EXCEPT ![Cur] = u]
      <4>1. phase[m] \in 1..3
        BY DEF MemberTypes
      <4>2. CASE phase[m] = 1
        BY <1>5, <3>1, <3>2, <3>3, <4>2 DEF Write, SetWork, Chunk
      <4>3. CASE phase[m] = 2
        BY <1>5, <3>1, <3>2, <3>3, <4>3 DEF Write, SetWork, Chunk
      <4>4. CASE phase[m] = 3
        BY <1>5, <3>1, <3>2, <3>3, <4>4 DEF Write, SetWork, Chunk
      <4> QED BY <4>1, <4>2, <4>3, <4>4
    <3> QED BY <3>5, <1>b
  <2>2. at' \in [Members -> Nat] /\ UNCHANGED <<phase, seen, mine>>
    <3>1. mine[m].size \in Nat /\ at[m] \in Nat
      BY DEF MemberTypes
    <3> QED BY <1>5, <3>1 DEF Write, MemberTypes
  <2>3. \E to \in {"claim", "leave", "report"} : Go(m, to)
    BY <1>5 DEF Write
  <2>4. MemberTypes'
    BY <2>2, <2>3, <1>a DEF Places, MemberTypes
  <2>5. FaultTypes'
    BY <1>5 DEF Write, FaultTypes
  <2> QED BY <1>5, <2>1, <2>4, <2>5 DEF Write, HostTypes, JobTypes, BarrierTypes, DeviceTypes, HandTypes
<1>6. CASE Enter(m) \/ Arrive(m)
  <2>1. phase[m] < 3 /\ UNCHANGED <<phase, seen, mine, at>>
    BY <1>6 DEF Enter, Arrive, MemberTypes
  <2>2. \E to \in {"arrive", "open", "held"} : Go(m, to)
    BY <1>6 DEF Enter, Arrive
  <2>3. MemberTypes'
    BY <2>1, <2>2, <1>a DEF Places, MemberTypes
  <2>4. BarrierTypes'
    BY <1>6 DEF Enter, Arrive, BarrierTypes
  <2> QED BY <1>6, <2>3, <2>4 DEF Enter, Arrive, HostTypes, JobTypes, WorkTypes, DeviceTypes, HandTypes, FaultTypes
<1>7. CASE Open(m) \/ Held(m)
  <2>1. phase[m] < 3 /\ UNCHANGED <<seen, mine>> /\ Go(m, "claim")
        /\ phase' = [phase EXCEPT ![m] = @ + 1]
    BY <1>7 DEF Open, Held, Through, MemberTypes
  <2>2. at' \in [Members -> Nat]
    <3>1. mine[m].index \in Nat
      BY DEF MemberTypes
    <3> QED BY <1>7, <3>1 DEF Open, Held, Through, MemberTypes
  <2>3. MemberTypes'
    <3>1. phase' \in [Members -> 1..3] /\ \A k \in Members : k # m => phase'[k] = phase[k]
      BY <2>1 DEF MemberTypes
    <3> QED BY <2>1, <2>2, <3>1, <1>a DEF Places, MemberTypes
  <2>4. BarrierTypes'
    BY <1>7 DEF Open, Held, Through, BarrierTypes
  <2> QED BY <1>7, <2>3, <2>4 DEF Open, Held, HostTypes, JobTypes, WorkTypes, DeviceTypes, HandTypes, FaultTypes
<1>8. CASE Leave(m)
  <2>0. Busy(m)
    BY <1>8 DEF Leave, Busy
  <2>1. WorkTypes'
    <3>1. W(m) \in Rows /\ mine[m].job = Cur /\ W(m).left + 1 \in Nat
      BY <2>0, BusyRow
    <3>2. [W(m) EXCEPT !.left = @ + 1] \in Rows
      BY <3>1, RowChanges DEF Chunk
    <3> QED BY <1>8, <3>1, <3>2, <1>b DEF Leave, SetWork
  <2>2. MemberTypes'
    BY <1>8, <1>a DEF Leave, Places, MemberTypes
  <2> QED BY <1>8, <2>1, <2>2 DEF Leave, HostTypes, JobTypes, BarrierTypes, DeviceTypes, HandTypes, FaultTypes
<1>9. CASE Sum(m)
  <2>0. Busy(m)
    BY <1>9 DEF Sum, Busy
  <2>1. WorkTypes'
    <3>1. W(m) \in Rows /\ mine[m].job = Cur
      BY <2>0, BusyRow
    <3>2. [W(m) EXCEPT !.outcome = Verdict(W(m).failed), !.failed = FALSE] \in Rows
      BY <3>1, RowChanges DEF Chunk, Verdict
    <3> QED BY <1>9, <3>1, <3>2, <1>b DEF Sum, SetWork
  <2>2. MemberTypes'
    BY <1>9, <1>a DEF Sum, Places, MemberTypes
  <2>3. HandTypes'
    BY <1>0, <1>9, <2>0, BusyRow DEF Sum, Jobs, Whole, HandTypes
  <2> QED BY <1>9, <2>1, <2>2, <2>3 DEF Sum, HostTypes, JobTypes, BarrierTypes, DeviceTypes, FaultTypes
<1>10. CASE Raise(m)
  <2>0. Busy(m)
    BY <1>10 DEF Raise, Busy
  <2>1. HandTypes'
    BY <1>0, <1>10, <2>0, BusyRow DEF Raise, Jobs, HandTypes
  <2>2. MemberTypes'
    BY <1>10, <1>a DEF Raise, Places, MemberTypes
  <2> QED BY <1>10, <2>1, <2>2 DEF Raise, HostTypes, JobTypes, BarrierTypes, WorkTypes, DeviceTypes, FaultTypes
<1> QED BY <1>1, <1>2, <1>3, <1>4, <1>5, <1>6, <1>7, <1>8, <1>9, <1>10 DEF Member

(* The device's steps and an ending pass keep every type.                  *)
LEMMA TypesDevice ==
    ASSUME Types, Device
    PROVE  Types'
<1> USE DEF Types, DeviceTypes, HandTypes
<1>1. queue # <<>>
  BY DEF Device, SendRow, SeeFlag, LowerFlag
<1>2. Tail(queue) \in Seq(Launches) /\ Head(queue) \in Launches
  BY <1>1
<1>2a. Head(queue).of \in Nat
  BY <1>2 DEF Launches, Jobs
<1> USE DEF hostVars, teamVars, jobVars, barrierVars, memberVars, deviceVars, handVars, faultVars,
            HostTypes, JobTypes, BarrierTypes, MemberTypes, WorkTypes, FaultTypes
<1>3. CASE SendRow
  <2>1. ~adding
    BY <1>3 DEF SendRow
  <2> QED BY <1>2, <1>3, <2>1 DEF SendRow
<1>4. CASE SeeFlag
  BY <1>4 DEF SeeFlag
<1>5. CASE LowerFlag
  BY <1>2, <1>2a, <1>5, BlockTyped DEF LowerFlag
<1> QED BY <1>3, <1>4, <1>5 DEF Device

-----------------------------------------------------------------------------
(* The team between jobs and in them.                                      *)

(* Nobody is in a job when the program starts.                             *)
LEMMA TeamInit == Init => TeamInv
<1> SUFFICES ASSUME Init PROVE TeamInv
  OBVIOUS
<1>1. size \in Nat \ {0} /\ 0..(size - 1) \subseteq Members /\ Members \subseteq Nat
  BY TeamIsMembers DEF Init
<1>2. HostHolds /\ JobHeld /\ FinishedCounts
  BY DEF Init, HostHolds, JobHeld, FinishedCounts, NoJob
<1>3. \A m \in Members : /\ pc[m] = IF m \in 1..(size - 1) THEN "spin" ELSE "out"
                        /\ mine[m] = Idle /\ phase[m] = 1 /\ seen[m] = 0 /\ epoch = 0
  BY DEF Init
<1>4. WorkersKeepUp /\ CallerRuns /\ Strangers
  BY <1>1, <1>3 DEF WorkersKeepUp, CallerRuns, Strangers, Workers, Quiet
<1> QED BY <1>2, <1>4 DEF TeamInv

(* Team::wait returns when every worker is through the job.                *)
LEMMA WaitedForAll ==
    ASSUME Types, TeamInv, job # NoJob, Waited
    PROVE  \A m \in Workers : ThroughJob(m)
<1>1. size \in Nat \ {0}
  BY TeamIsMembers DEF Types, HostTypes
<1>2. IsFiniteSet(Workers) /\ Cardinality(Workers) = size - 1
  BY <1>1, FS_Interval DEF Workers
<1>3. DoneWorkers \in SUBSET Workers
  BY DEF DoneWorkers
<1>4. Cardinality(DoneWorkers) \in Nat /\ Cardinality(DoneWorkers) <= size - 1
  BY <1>2, <1>3, FS_Subset, FS_CardinalityType
<1>5. Cardinality(DoneWorkers) = Cardinality(Workers)
  BY <1>1, <1>2, <1>4 DEF Waited, TeamInv, FinishedCounts
<1>6. DoneWorkers = Workers
  BY <1>2, <1>3, <1>5, FS_Subset
<1> QED BY <1>6 DEF DoneWorkers

(* No worker is in the job while the caller publishes it, and the count of *)
(* those through it starts at none.                                        *)
LEMMA NoneDoneYet ==
    ASSUME TeamInv, host = "publish", job # NoJob
    PROVE  DoneWorkers = {} /\ finished = 0
<1>1. DoneWorkers = {}
  BY DEF DoneWorkers, ThroughJob
<1>2. Cardinality({}) = 0
  BY FS_EmptySet
<1> QED BY <1>1, <1>2 DEF TeamInv, FinishedCounts

(* What the host does keeps the epochs, the members out and `finished` in  *)
(* step.                                                                   *)
LEMMA TeamHost ==
    ASSUME Types, TeamInv, Host \/ Abort
    PROVE  TeamInv'
<1>0. /\ size \in Nat \ {0} /\ 0..(size - 1) \subseteq Members /\ Members \subseteq Nat
      /\ step \in Nat /\ step >= 1 /\ Steps \in Nat
  BY TeamIsMembers, TeamAssumption DEF Types, HostTypes
<1>a. HostHolds /\ JobHeld /\ WorkersKeepUp /\ CallerRuns /\ Strangers /\ FinishedCounts
  BY DEF TeamInv
<1> USE DEF hostVars, teamVars, jobVars, barrierVars, memberVars, deviceVars, handVars, faultVars
<1>b. ASSUME host # "publish", host' # "publish", pc[0] = "out",
             job' = job \/ (job' = NoJob /\ \A m \in Workers : ThroughJob(m)),
             UNCHANGED <<size, epoch, withCaller, finished, memberVars>>
      PROVE  WorkersKeepUp' /\ CallerRuns' /\ Strangers' /\ FinishedCounts'
  <2>1. \A m \in Workers : ThroughJob(m)' <=> ThroughJob(m)
    BY <1>b DEF ThroughJob, Quiet, Workers
  <2>2. DoneWorkers' = DoneWorkers
    BY <2>1, <1>b DEF DoneWorkers, Workers
  <2>3. FinishedCounts'
    BY <2>2, <1>a, <1>b DEF FinishedCounts
  <2>4. WorkersKeepUp'
    BY <1>a, <1>b DEF WorkersKeepUp, Workers, Quiet, ThroughJob
  <2> QED BY <2>3, <2>4, <1>a, <1>b DEF CallerRuns, Strangers
<1>c. host \notin {"run", "alone"} => pc[0] = "out"
  BY <1>a DEF CallerRuns
<1>1. CASE Record \/ Sync \/ RaiseZeros \/ Hits \/ Abort \/ Last
  <2>1. HostHolds' /\ JobHeld'
    BY <1>0, <1>a, <1>1 DEF HostHolds, JobHeld, Record, Sync, RaiseZeros, Hits, Abort, Last, EndPass, Types, HostTypes, Jobs, NoJob
  <2>2. host # "publish" /\ host' # "publish" /\ pc[0] = "out"
    BY <1>c, <1>1 DEF Record, Sync, RaiseZeros, Hits, Abort, Last, EndPass
  <2>3. UNCHANGED <<job, size, epoch, withCaller, finished, memberVars>>
    BY <1>1 DEF Record, Sync, RaiseZeros, Hits, Abort, Last
  <2> QED BY <2>1, <2>2, <2>3, <1>b DEF TeamInv
<1>2. CASE Join
  <2>1. host # "publish" /\ host' # "publish" /\ pc[0] = "out"
    BY <1>c, <1>2 DEF Join, EndPass
  <2>2. job' = NoJob /\ started' = NoJob /\ (job # NoJob => \A m \in Workers : ThroughJob(m))
    BY <1>a, <1>2, WaitedForAll DEF Join, Clear, JobHeld
  <2>3. HostHolds'
    BY <1>0, <1>a, <1>2, <2>2 DEF Join, EndPass, HostHolds, Types, HostTypes, Jobs, NoJob
  <2>4. JobHeld'
    BY <1>0, <1>a, <1>2, <2>2 DEF Join, EndPass, Clear, JobHeld, HostHolds
  <2> QED BY <2>1, <2>2, <2>3, <2>4, <1>2, <1>b DEF TeamInv, Join
<1>3. ASSUME NEW caller \in BOOLEAN, Dispatch(caller) PROVE TeamInv'
  <2>1. host = "start" /\ host' = "publish" /\ job' = step /\ job = NoJob /\ pc[0] = "out" /\ step \in Jobs
        /\ step # NoJob /\ row = NoJob /\ started = NoJob
    BY <1>3, <1>a, <1>c DEF Dispatch, JobHeld, HostHolds, Jobs, NoJob
  <2>2. UNCHANGED <<size, step, row, told, epoch, started, memberVars>> /\ live' = live \cup {step} /\ finished' = 0
        /\ withCaller' = caller /\ (caller \/ size > 1)
    BY <1>3 DEF Dispatch
  <2>3. HostHolds' /\ JobHeld'
    BY <2>1, <2>2, <1>a DEF HostHolds, JobHeld
  <2>4. \A m \in Workers : Quiet(m) /\ seen[m] = epoch
    BY <2>1, <1>a DEF WorkersKeepUp
  <2>5. WorkersKeepUp' /\ CallerRuns' /\ Strangers'
    BY <2>1, <2>2, <2>4, <1>a DEF WorkersKeepUp, CallerRuns, Strangers, Quiet, Workers
  <2>6. DoneWorkers' = {} /\ Cardinality({}) = 0
    BY <2>1, FS_EmptySet DEF DoneWorkers, ThroughJob
  <2> QED BY <2>2, <2>3, <2>5, <2>6 DEF TeamInv, FinishedCounts
<1>4. CASE Publish
  <2>1. host = "publish" /\ host' = "notify" /\ job = step /\ job # NoJob /\ epoch' = epoch + 1 /\ pc[0] = "out"
    BY <1>4, <1>a, <1>c DEF Publish, JobHeld, HostHolds, Jobs, NoJob
  <2>2. UNCHANGED <<size, step, row, job, started, withCaller, finished, live, memberVars>>
    BY <1>4 DEF Publish
  <2>3. HostHolds' /\ JobHeld'
    BY <2>1, <2>2, <1>a DEF HostHolds, JobHeld
  <2>4. \A m \in Workers : Quiet(m) /\ seen[m] = epoch
    BY <2>1, <1>a DEF WorkersKeepUp
  <2>5. epoch \in Nat
    BY DEF Types, JobTypes
  <2>6. WorkersKeepUp' /\ CallerRuns' /\ Strangers'
    BY <2>1, <2>2, <2>4, <2>5, <1>a DEF WorkersKeepUp, CallerRuns, Strangers, Quiet, Workers
  <2>7. DoneWorkers' = {}
    BY <2>1, <2>2, <2>4, <2>5 DEF DoneWorkers, ThroughJob, Workers, Quiet
  <2>8. DoneWorkers = {} /\ finished = 0 /\ Cardinality({}) = 0
    BY <2>1, NoneDoneYet, FS_EmptySet
  <2> QED BY <2>2, <2>3, <2>6, <2>7, <2>8 DEF TeamInv, FinishedCounts
<1>5. CASE Notify
  <2>1. host = "notify" /\ job = step /\ job # NoJob /\ pc[0] = "out" /\ row = NoJob /\ started = NoJob
        /\ step \in Jobs
    BY <1>5, <1>a, <1>c DEF Notify, JobHeld, HostHolds, Jobs, NoJob
  <2>2. UNCHANGED <<size, step, epoch, job, withCaller, finished, live, seen>>
    BY <1>5 DEF Notify
  <2>3. \A m \in Members : m # 0 => /\ pc'[m] = (IF pc[m] = "asleep" THEN "park" ELSE pc[m])
                                   /\ mine'[m] = mine[m] /\ phase'[m] = phase[m]
    BY <1>5 DEF Notify, Share, Woken, Types, MemberTypes
  <2>4. \/ /\ withCaller /\ pc'[0] = "claim" /\ host' = "run" /\ UNCHANGED <<started, row>>
           /\ mine'[0] = [job |-> step, index |-> 0, size |-> size]
        \/ /\ ~withCaller /\ pc'[0] = "out" /\ host' = "hits" /\ started' = step /\ row' = step
           /\ mine'[0] = mine[0] /\ phase'[0] = phase[0]
    BY <1>0, <1>5, <2>1 DEF Notify, Share, Woken, Types, MemberTypes
  <2>5. HostHolds' /\ JobHeld'
    BY <2>1, <2>2, <2>4, <1>a DEF HostHolds, JobHeld, NoJob, Jobs
  <2>6. \A m \in Workers : m # 0 /\ m \in Members
    BY <1>0 DEF Workers
  <2>7. WorkersKeepUp'
    BY <2>1, <2>2, <2>3, <2>4, <2>6, <1>a DEF WorkersKeepUp, Quiet, Workers
  <2>8. CallerRuns'
    BY <2>1, <2>2, <2>4, <1>a DEF CallerRuns, Quiet
  <2>9. Strangers'
    <3>1. \A m \in Members : m >= size => m # 0 /\ pc[m] = "out"
      BY <1>0, <1>a DEF Strangers
    <3> QED BY <2>2, <2>3, <3>1 DEF Strangers
  <2>10. \A m \in Workers : ThroughJob(m)' <=> ThroughJob(m)
    BY <2>1, <2>2, <2>3, <2>4, <2>6 DEF ThroughJob, Quiet
  <2>11. DoneWorkers' = DoneWorkers
    BY <2>2, <2>10 DEF DoneWorkers, Workers
  <2> QED BY <2>2, <2>5, <2>7, <2>8, <2>9, <2>11, <1>a DEF TeamInv, FinishedCounts
<1>6. CASE Ran
  <2>1. host = "run" /\ host' = "record" /\ pc[0] = "out" /\ job = step /\ job # NoJob /\ step \in Jobs
        /\ row = NoJob /\ started = NoJob /\ job' = NoJob /\ step' = step + 1 /\ live' = live \ {step}
    BY <1>6, <1>a DEF Ran, Clear, EndPass, JobHeld, HostHolds, Jobs, NoJob
  <2>2. UNCHANGED <<size, row, epoch, withCaller, finished, started, memberVars>> /\ Waited
    BY <1>6 DEF Ran
  <2>3. HostHolds' /\ JobHeld'
    BY <2>1, <2>2, <1>a DEF HostHolds, JobHeld
  <2> QED BY <2>1, <2>2, <2>3, <1>b, WaitedForAll DEF TeamInv
<1>7. CASE StartAlone
  <2>1. host = "start" /\ host' = "alone" /\ job = NoJob /\ row = NoJob /\ started = NoJob /\ size = 1
        /\ step \in Jobs /\ live' = live \cup {step}
    BY <1>7, <1>a DEF StartAlone, JobHeld, HostHolds
  <2>2. UNCHANGED <<size, step, row, epoch, job, withCaller, finished, started, seen>>
    BY <1>7 DEF StartAlone
  <2>3. /\ pc'[0] = "claim" /\ mine'[0] = [job |-> step, index |-> 0, size |-> 1]
        /\ \A m \in Members : m # 0 => pc'[m] = pc[m]
    BY <1>0, <1>7 DEF StartAlone, Share, Types, MemberTypes
  <2>4. HostHolds' /\ JobHeld'
    BY <2>1, <2>2, <1>a DEF HostHolds, JobHeld
  <2>5. Workers = {} /\ Workers' = {}
    BY <2>1, <2>2 DEF Workers
  <2>6. WorkersKeepUp' /\ CallerRuns' /\ Strangers' /\ FinishedCounts'
    BY <1>0, <2>1, <2>2, <2>3, <2>5, <1>a DEF WorkersKeepUp, CallerRuns, Strangers, FinishedCounts, Quiet
  <2> QED BY <2>4, <2>6 DEF TeamInv
<1>8. CASE RanAlone
  <2>1. host = "alone" /\ host' = "hits" /\ pc[0] = "out" /\ job = NoJob /\ row' = step /\ started = NoJob
        /\ step \in Jobs /\ live' = live \ {step}
    BY <1>8, <1>a DEF RanAlone, JobHeld, HostHolds
  <2>2. UNCHANGED <<size, step, epoch, job, withCaller, finished, started, memberVars>>
    BY <1>8 DEF RanAlone
  <2>3. HostHolds' /\ JobHeld'
    BY <2>1, <2>2, <1>a DEF HostHolds, JobHeld, NoJob, Jobs
  <2> QED BY <2>1, <2>2, <2>3, <1>b DEF TeamInv
<1> QED BY <1>1, <1>2, <1>3, <1>4, <1>5, <1>6, <1>7, <1>8 DEF Host

(* What a member does keeps the epochs, the members out and `finished` in  *)
(* step.                                                                   *)
LEMMA TeamMember ==
    ASSUME Types, TeamInv, NEW m \in Members, Member(m) \/ Doze(m)
    PROVE  TeamInv'
<1>0. /\ size \in Nat \ {0} /\ 0..(size - 1) \subseteq Members /\ Members \subseteq Nat /\ m \in Nat
      /\ epoch \in Nat
  BY TeamIsMembers DEF Types, HostTypes, JobTypes
<1>a. HostHolds /\ JobHeld /\ WorkersKeepUp /\ CallerRuns /\ Strangers /\ FinishedCounts
  BY DEF TeamInv
<1> USE DEF hostVars, teamVars, jobVars, barrierVars, memberVars, deviceVars, handVars, faultVars
<1>b. UNCHANGED <<size, host, step, row, epoch, job, withCaller, started, live>>
  BY DEF Member, Take, Park, Doze, Report, Claim, Write, Enter, Arrive, Open, Held, Leave, Sum, Raise
<1>c. HostHolds' /\ JobHeld'
  BY <1>a, <1>b DEF HostHolds, JobHeld
<1>d. \A k \in Members : k # m => UNCHANGED <<pc[k], phase[k], seen[k], mine[k]>>
  BY DEF Member, Take, Park, Doze, Report, Claim, Write, Enter, Arrive, Open, Held, Leave, Sum, Raise, Go, Through, Types, MemberTypes
<1>e. Workers' = Workers /\ \A k \in Workers : k \in Members /\ k # 0
  BY <1>0, <1>b DEF Workers
<1>1. CASE Take(m)
  <2>1. m \in Workers
    BY <1>0, <1>1, <1>a DEF Take, CallerRuns, Strangers, Workers, Quiet
  <2>2. Quiet(m) /\ seen[m] # epoch /\ job # NoJob /\ host # "publish"
    BY <2>1, <1>1, <1>a DEF Take, WorkersKeepUp, Quiet
  <2>3. /\ pc'[m] = "claim" /\ seen'[m] = epoch
        /\ mine'[m] = [job |-> job, index |-> IF withCaller THEN m ELSE m - 1,
                       size |-> IF withCaller THEN size ELSE size - 1]
    BY <2>2, <1>1 DEF Take, Go, Types, MemberTypes
  <2>4. WorkersKeepUp'
    BY <2>2, <2>3, <1>a, <1>b, <1>d, <1>e DEF WorkersKeepUp, Quiet
  <2>5. CallerRuns' /\ Strangers'
    BY <2>1, <1>0, <1>a, <1>b, <1>d, <1>e DEF CallerRuns, Strangers, Quiet, Workers
  <2>6. \A k \in Workers : ThroughJob(k)' <=> ThroughJob(k)
    BY <2>2, <2>3, <1>b, <1>d, <1>e DEF ThroughJob, Quiet
  <2>7. DoneWorkers' = DoneWorkers /\ finished' = finished
    BY <2>6, <1>e, <1>1 DEF DoneWorkers, Take
  <2> QED BY <1>b, <1>c, <2>4, <2>5, <2>7, <1>a DEF TeamInv, FinishedCounts
<1>2. CASE Park(m) \/ Doze(m)
  <2>1. Quiet(m) /\ Quiet(m)' /\ UNCHANGED <<phase, seen, mine, finished>>
    BY <1>2 DEF Park, Doze, Go, Quiet, Types, MemberTypes
  <2>2. m \in Workers
    BY <1>0, <2>1, <1>a DEF CallerRuns, Strangers, Workers, Quiet
  <2>3. WorkersKeepUp' /\ CallerRuns' /\ Strangers'
    BY <2>1, <2>2, <1>0, <1>a, <1>b, <1>d, <1>e DEF WorkersKeepUp, CallerRuns, Strangers, Quiet, Workers
  <2>4. \A k \in Workers : ThroughJob(k)' <=> ThroughJob(k)
    BY <2>1, <1>b, <1>d, <1>e DEF ThroughJob, Quiet
  <2>5. DoneWorkers' = DoneWorkers
    BY <2>4, <1>e DEF DoneWorkers
  <2> QED BY <1>b, <1>c, <2>1, <2>3, <2>5, <1>a DEF TeamInv, FinishedCounts
<1>3. CASE Report(m)
  <2>1. pc[m] = "report" /\ mine'[m] = Idle /\ phase'[m] = 1 /\ seen' = seen
    BY <1>3 DEF Report, Types, MemberTypes
  <2>2. CASE m = 0
    <3>1. pc'[0] = "out" /\ finished' = finished
      BY <1>3, <2>2 DEF Report, Go, Types, MemberTypes
    <3>2. WorkersKeepUp' /\ CallerRuns' /\ Strangers'
      BY <2>1, <2>2, <3>1, <1>0, <1>a, <1>b, <1>d, <1>e DEF WorkersKeepUp, CallerRuns, Strangers, Quiet, Workers
    <3>3. \A k \in Workers : ThroughJob(k)' <=> ThroughJob(k)
      BY <2>1, <2>2, <1>b, <1>d, <1>e DEF ThroughJob, Quiet
    <3>4. DoneWorkers' = DoneWorkers
      BY <3>3, <1>e DEF DoneWorkers
    <3> QED BY <1>b, <1>c, <3>1, <3>2, <3>4, <1>a DEF TeamInv, FinishedCounts
  <2>3. CASE m # 0
    <3>1. pc'[m] = "spin" /\ finished' = finished + 1
      BY <1>3, <2>3 DEF Report, Go, Types, MemberTypes
    <3>2. m \in Workers
      BY <1>0, <2>1, <2>3, <1>a DEF Strangers, Workers
    <3>3. job # NoJob /\ host # "publish" /\ seen[m] = epoch
      BY <2>1, <3>2, <1>a DEF WorkersKeepUp, Quiet
    <3>4. /\ CallerRuns' /\ Strangers'
          /\ WorkersKeepUp'
      <4>1. CallerRuns' /\ Strangers'
        BY <3>2, <1>0, <1>a, <1>b, <1>d, <1>e DEF CallerRuns, Strangers, Quiet, Workers
      <4>2. \A k \in Workers \ {m} : UNCHANGED <<pc[k], phase[k], seen[k], mine[k]>>
        BY <1>d, <1>e
      <4>3. Quiet(m)' /\ pc'[m] # "out" /\ seen'[m] = epoch
        BY <2>1, <3>1, <3>3 DEF Quiet
      <4>4. WorkersKeepUp'
        BY <2>1, <3>3, <4>2, <4>3, <1>a, <1>b, <1>e DEF WorkersKeepUp, Quiet
      <4> QED BY <4>1, <4>4
    <3>5. \A k \in Workers : k # m => (ThroughJob(k)' <=> ThroughJob(k))
      BY <2>1, <1>b, <1>d, <1>e DEF ThroughJob, Quiet
    <3>6. ThroughJob(m)' /\ ~ThroughJob(m)
      BY <2>1, <3>1, <3>3, <1>b DEF ThroughJob, Quiet
    <3>7. DoneWorkers' = DoneWorkers \cup {m} /\ m \notin DoneWorkers
      BY <3>2, <3>5, <3>6, <1>e DEF DoneWorkers
    <3>8. IsFiniteSet(DoneWorkers)
      <4>1. IsFiniteSet(Workers)
        BY <1>0, FS_Interval DEF Workers
      <4>2. DoneWorkers \in SUBSET Workers
        BY DEF DoneWorkers
      <4> QED BY <4>1, <4>2, FS_Subset
    <3>9. FinishedCounts'
      BY <3>1, <3>3, <3>7, <3>8, <1>a, <1>b, FS_AddElement DEF FinishedCounts
    <3> QED BY <1>c, <3>4, <3>9 DEF TeamInv
  <2> QED BY <2>2, <2>3
<1>4. CASE Claim(m) \/ Write(m) \/ Enter(m) \/ Arrive(m) \/ Open(m) \/ Held(m) \/ Leave(m) \/ Sum(m) \/ Raise(m)
  <2>1. /\ pc[m] \notin {"out", "spin", "park", "asleep"} /\ pc'[m] \notin {"out", "spin", "park", "asleep"}
        /\ UNCHANGED <<finished, seen, mine>>
    BY <1>4 DEF Claim, Write, Enter, Arrive, Open, Held, Leave, Sum, Raise, Go, Through, Types, MemberTypes
  <2>2. WorkersKeepUp' /\ CallerRuns' /\ Strangers'
    BY <2>1, <1>0, <1>a, <1>b, <1>d, <1>e DEF WorkersKeepUp, CallerRuns, Strangers, Quiet, Workers
  <2>3. \A k \in Workers : ThroughJob(k)' <=> ThroughJob(k)
    BY <2>1, <1>b, <1>d, <1>e DEF ThroughJob, Quiet
  <2>4. DoneWorkers' = DoneWorkers
    BY <2>3, <1>e DEF DoneWorkers
  <2> QED BY <1>b, <1>c, <2>1, <2>2, <2>4, <1>a DEF TeamInv, FinishedCounts
<1> QED BY <1>1, <1>2, <1>3, <1>4 DEF Member

(* The device and an ending pass do not touch the team.                    *)
LEMMA TeamDevice ==
    ASSUME TeamInv, UNCHANGED <<size, hostVars, teamVars>>
    PROVE  TeamInv'
<1>1. HostHolds' /\ JobHeld'
  BY DEF TeamInv, HostHolds, JobHeld, hostVars, teamVars, jobVars
<1>2. \A m : Quiet(m)' <=> Quiet(m)
  BY DEF Quiet, teamVars, memberVars
<1>3. WorkersKeepUp' /\ CallerRuns' /\ Strangers'
  BY <1>2 DEF TeamInv, WorkersKeepUp, CallerRuns, Strangers, Workers, hostVars, teamVars, jobVars, memberVars
<1>4. DoneWorkers' = DoneWorkers
  BY <1>2 DEF DoneWorkers, ThroughJob, Workers, hostVars, teamVars, jobVars, memberVars
<1> QED BY <1>1, <1>3, <1>4 DEF TeamInv, FinishedCounts, hostVars, teamVars, jobVars

(* What a team is in between jobs and in them is kept by every step.       *)
(* Types and team invariant are inductive together.                        *)
LEMMA TeamStep == Types /\ TeamInv /\ [Next]_vars => (Types /\ TeamInv)'
<1> SUFFICES ASSUME Types, TeamInv, [Next]_vars PROVE Types' /\ TeamInv'
  OBVIOUS
<1>1. CASE Host \/ Abort
  BY <1>1, TypesHost, TeamHost
<1>2. CASE Device
  BY <1>2, TypesDevice, TeamDevice DEF Device, SendRow, SeeFlag, LowerFlag
<1>3. CASE \E m \in Members : Member(m) \/ Doze(m)
  BY <1>3, TypesMember, TeamMember
<1>4. CASE UNCHANGED vars
  <2>1. UNCHANGED <<size, hostVars, teamVars>>
    BY <1>4 DEF vars
  <2>2. Types'
    BY <1>4 DEF vars, hostVars, teamVars, jobVars, barrierVars, memberVars, deviceVars, handVars, faultVars,
       Types, HostTypes, JobTypes, BarrierTypes, MemberTypes, WorkTypes, DeviceTypes, HandTypes, FaultTypes
  <2> QED BY <2>1, <2>2, TeamDevice
<1> QED BY <1>1, <1>2, <1>3, <1>4 DEF Next

(* Types and team invariant hold in every state.                           *)
LEMMA TeamAlways == Spec => [](Types /\ TeamInv)
<1>1. Init => Types /\ TeamInv
  BY TypesInit, TeamInit
<1> QED BY <1>1, TeamStep, PTL DEF Spec

(* Types of the state of team.rs, decode.rs and handoff.rs.                *)
THEOREM TeamTypes == Spec => []TypeOK
<1>1. Types => TypeOK
  BY DEF Types, HostTypes, JobTypes, BarrierTypes, MemberTypes, DeviceTypes, HandTypes, TypeOK,
         Places, Busy
<1> QED BY <1>1, TeamAlways, PTL

(* A member works on a job only while its closure and buffers exist, and   *)
(* the next job is set when no worker is in the last and all have seen it. *)
THEOREM JobsNeverOverlap == Spec => []JobsApart
<1>1. Types /\ TeamInv => JobsApart
  <2> SUFFICES ASSUME Types, TeamInv PROVE JobOutlivesMembers /\ QuietBetweenJobs
    BY DEF JobsApart
  <2>1. ASSUME NEW m \in Members, Busy(m) PROVE mine[m].job \in live
    <3>1. mine[m].job = Cur /\ Active
      BY <2>1, BusyRow, BusyInJob
    <3> QED BY <3>1 DEF TeamInv, JobHeld, Cur, Active
  <2>2. ASSUME host \in {"record", "sync", "start"}, started = NoJob, NEW m \in 1..(size - 1)
        PROVE  pc[m] \in {"spin", "park", "asleep"} /\ seen[m] = epoch
    <3>1. job = NoJob
      BY <2>2 DEF TeamInv, JobHeld
    <3> QED BY <3>1, <2>2 DEF TeamInv, WorkersKeepUp, Workers, Quiet
  <2> QED BY <2>1, <2>2 DEF JobOutlivesMembers, QuietBetweenJobs
<1> QED BY <1>1, TeamAlways, PTL

-----------------------------------------------------------------------------
(* The crew.                                                               *)

(* The crew of a job is a set of members, numbered by their indices from   *)
(* 0 up.                                                                   *)
LEMMA CrewFacts ==
    ASSUME Types, TeamInv
    PROVE  /\ Crew \subseteq Members /\ IsFiniteSet(Crew) /\ IsFiniteSet(Members)
           /\ Active => /\ CrewSize \in Nat \ {0} /\ Cardinality(Crew) = CrewSize
                        /\ \A m \in Crew : Index(m) \in 0..(CrewSize - 1)
                        /\ \A i \in 0..(CrewSize - 1) : \E m \in Crew : Index(m) = i
<1>0. /\ size \in Nat \ {0} /\ 0..(size - 1) \subseteq Members /\ withCaller \in BOOLEAN
      /\ \E k \in Nat \ {0} : Members = 0..(k - 1)
  BY TeamIsMembers DEF Types, HostTypes, JobTypes
<1>1. IsFiniteSet(Members)
  BY <1>0, FS_Interval
<1>2. Crew \subseteq Members
  BY <1>0 DEF Crew, Workers
<1>3. ASSUME Active
      PROVE  /\ CrewSize \in Nat \ {0} /\ Cardinality(Crew) = CrewSize
             /\ \A m \in Crew : Index(m) \in 0..(CrewSize - 1)
             /\ \A i \in 0..(CrewSize - 1) : \E m \in Crew : Index(m) = i
  <2>1. CASE host = "alone"
    BY <2>1, FS_Singleton DEF Crew, CrewSize, Index
  <2>2. CASE host # "alone" /\ withCaller
    <3>1. Crew = 0..(size - 1) /\ CrewSize = size /\ \A m : Index(m) = m
      BY <2>2 DEF Crew, CrewSize, Index
    <3>2. Cardinality(0..(size - 1)) = size
      BY <1>0, FS_Interval
    <3> QED BY <1>0, <3>1, <3>2
  <2>3. CASE host # "alone" /\ ~withCaller
    <3>1. Crew = 1..(size - 1) /\ CrewSize = size - 1 /\ \A m : Index(m) = m - 1
      BY <2>3 DEF Crew, CrewSize, Index, Workers
    <3>2. size > 1
      BY <1>3, <2>3 DEF TeamInv, JobHeld, Active
    <3>3. Cardinality(1..(size - 1)) = size - 1
      BY <1>0, <3>2, FS_Interval
    <3>4. CrewSize \in Nat \ {0}
      BY <1>0, <3>1, <3>2
    <3>5. \A m \in Crew : Index(m) \in 0..(CrewSize - 1)
      BY <1>0, <3>1
    <3>6. ASSUME NEW i \in 0..(CrewSize - 1) PROVE \E m \in Crew : Index(m) = i
      <4>1. i + 1 \in Crew /\ Index(i + 1) = i
        BY <1>0, <3>1
      <4> QED BY <4>1
    <3> QED BY <3>1, <3>3, <3>4, <3>5, <3>6
  <2> QED BY <1>0, <2>1, <2>2, <2>3
<1> QED BY <1>1, <1>2, <1>3, FS_Subset

(* A set of crew members as large as the crew is the crew.                 *)
LEMMA WholeCrew ==
    ASSUME Types, TeamInv, Active, NEW S \in SUBSET Crew, Cardinality(S) = CrewSize
    PROVE  S = Crew
<1>1. IsFiniteSet(Crew) /\ Cardinality(Crew) = CrewSize
  BY CrewFacts
<1> QED BY <1>1, FS_Subset

(* What a step that leaves the crew, its rows and the barrier alone keeps. *)
LEMMA CrewFrame ==
    ASSUME Types, TeamInv, CrewInv, RowInv, Types', TeamInv',
           UNCHANGED <<work, arrived, generation>>,
           \A k \in Members : Busy(k) \/ Busy(k)' => UNCHANGED <<pc[k], turn[k], phase[k], at[k]>>,
           Active' => /\ Active /\ UNCHANGED <<Cur, Crew, CrewSize, CallerIn>>
                      /\ \A k \in Crew : UNCHANGED <<Done(k), Index(k)>>
                      /\ \A k \in Crew : pc[k] = "report" <=> pc'[k] = "report"
    PROVE  CrewInv' /\ RowInv'
<1>0. Crew \subseteq Members
  BY CrewFacts
<1>1. \A k \in Members : UNCHANGED <<Busy(k), Waiting(k)>>
  BY DEF Busy, Waiting
<1>2. AtBarrier' = AtBarrier
  BY <1>1 DEF AtBarrier
<1>3. ASSUME Active' PROVE \A k \in Crew : UNCHANGED <<Late(k), Gone(k), Left(k)>>
  BY <1>0, <1>1, <1>3 DEF Late, Gone, Left, Busy
<1>4. BarrierCounts'
  <2>1. (Types /\ TeamInv => \A m \in Members : Busy(m) \/ pc[m] = "report" => Active /\ m \in Crew)'
    BY BusyAreCrew, PTL
  <2>2. \A m \in Members : pc'[m] = "open" => pc[m] = "open" /\ Active'
    BY <1>1, <2>1 DEF Busy
  <2>3. \A m \in Members : Busy(m)' => turn'[m] = turn[m] /\ pc'[m] = pc[m]
    OBVIOUS
  <2>4. ASSUME NEW m \in Members, pc'[m] = "open"
        PROVE  (\A k \in Crew' : Waiting(k)') /\ (\A k \in Members : pc'[k] = "open" => k = m)
    BY <1>0, <1>1, <2>2, <2>4 DEF CrewInv, BarrierCounts
  <2> QED BY <1>2, <2>2, <2>3, <2>4 DEF CrewInv, BarrierCounts, Busy
<1>5. LeftCounts' /\ OneSums'
  <2> SUFFICES ASSUME Active' PROVE LeftCounts' /\ OneSums'
    BY DEF LeftCounts, OneSums
  <2>1. Active /\ UNCHANGED <<Cur, Crew, CrewSize, CallerIn, work>>
    OBVIOUS
  <2>2. LeftCrew' = LeftCrew
    BY <1>3, <2>1 DEF LeftCrew
  <2>3. \A m \in Crew : pc'[m] = pc[m] \/ {pc[m], pc'[m]} \cap {"leave", "sum", "raise"} = {}
    BY <1>0, <1>1 DEF Busy
  <2>4. LeftCounts'
    BY <2>1, <2>2, <2>3 DEF CrewInv, LeftCounts
  <2>5. OneSums'
    <3>1. \A m \in Crew : /\ pc'[m] \in {"sum", "raise"} <=> pc[m] \in {"sum", "raise"}
                          /\ pc'[m] = "sum" <=> pc[m] = "sum"
      BY <2>3
    <3>2. OneSums
      BY DEF CrewInv
    <3>3. work' = work /\ Crew' = Crew /\ CrewSize' = CrewSize /\ Cur' = Cur /\ Active
      BY <2>1
    <3>4. \A m \in Crew : pc'[m] \in {"sum", "raise"} =>
              /\ pc[m] \in {"sum", "raise"}
              /\ pc'[m] = "sum" => pc[m] = "sum"
      BY <3>1
    <3>5. (\E m \in Crew : pc[m] = "sum") => \E m \in Crew : pc'[m] = "sum"
      BY <3>1
    <3> QED BY <3>2, <3>3, <3>4, <3>5 DEF OneSums
  <2> QED BY <2>4, <2>5
<1>6. RowInPhase'
  <2> SUFFICES ASSUME Active' PROVE RowInPhase'
    BY DEF RowInPhase
  <2>1. Active /\ UNCHANGED <<Cur, Crew, CrewSize, Task>>
    BY DEF Task
  <2>2. \A m \in Crew : UNCHANGED <<Late(m), Gone(m), Waiting(m), Busy(m), Index(m)>>
    BY <1>0, <1>1, <1>3
  <2>3. \A m \in Crew : Busy(m) => UNCHANGED <<pc[m], turn[m], phase[m], at[m]>>
    BY <1>0
  <2>4. \A m \in Crew : ~Busy(m) =>
            {pc[m], pc'[m]} \cap {"claim", "write", "enter", "arrive", "open", "held"} = {}
    BY <2>2 DEF Busy
  <2>5. PICK p \in 1..3 : InPhase(p) /\ UpWritten(p) /\ Quantized(p) /\ DownWritten(p)
    BY <2>1 DEF RowInv, RowInPhase
  <2>6. UNCHANGED Lost /\ \A m \in Crew : \A q, c : UNCHANGED <<Writes(m, q, c), HasToQuantize(m, c)>>
    BY <2>1, <2>2, <2>3, <2>4 DEF Lost, Writes, HasToQuantize
  <2>7. \A m \in Crew : MemberIn(m, p)'
    <3> SUFFICES ASSUME NEW m \in Crew PROVE MemberIn(m, p)'
      OBVIOUS
    <3>1. MemberIn(m, p)
      BY <2>5 DEF InPhase
    <3>2. UNCHANGED <<Late(m), Gone(m), Task, generation>>
      BY <2>1, <2>2
    <3>3. CASE Busy(m)
      BY <2>3, <3>1, <3>2, <3>3 DEF MemberIn
    <3>4. CASE ~Busy(m)
      BY <2>4, <3>1, <3>2, <3>4 DEF MemberIn
    <3> QED BY <3>3, <3>4
  <2>8. \A m \in Crew : UNCHANGED <<UpSpent(m), UpMine(m), HsMine(m), YsMine(m)>>
    <3> SUFFICES ASSUME NEW m \in Crew PROVE UNCHANGED <<UpSpent(m), UpMine(m), HsMine(m), YsMine(m)>>
      OBVIOUS
    <3>1. UNCHANGED <<Gone(m), Waiting(m), Index(m), Task, CrewSize>>
      BY <2>1, <2>2
    <3>2. CASE Busy(m)
      BY <2>3, <3>1, <3>2 DEF UpSpent, UpMine, HsMine, YsMine
    <3>3. CASE ~Busy(m)
      BY <2>4, <3>1, <3>3 DEF UpSpent, UpMine, HsMine, YsMine
    <3> QED BY <3>2, <3>3
  <2>9. \A m, k \in Crew : UNCHANGED UpApart(m, k)
    BY <2>3, <2>4 DEF UpApart
  <2>10. UNCHANGED <<UpFresh, UpHeld, HsHeld, YsHeld>>
    BY <2>1, <2>6 DEF UpFresh, UpHeld, HsHeld, YsHeld
  <2>11. UpWritten(p)'
    BY <2>1, <2>5, <2>8, <2>9, <2>10 DEF UpWritten
  <2>12. Quantized(p)' /\ DownWritten(p)'
    BY <2>1, <2>5, <2>8, <2>10 DEF Quantized, DownWritten
  <2> QED BY <2>1, <2>7, <2>11, <2>12 DEF RowInPhase, InPhase
<1>7. BadIsNoted'
  BY DEF RowInv, BadIsNoted, Clean
<1> QED BY <1>4, <1>5, <1>6, <1>7 DEF CrewInv, RowInv

(* A row just set: the crew is late for it, or its one member claims.      *)
LEMMA FreshRow ==
    ASSUME Types, TeamInv, CrewInv, RowInv, Types', TeamInv',
           NEW n \in Nat, NEW to \in {"flag", "caller"}, step \in Jobs,
           work' = [work EXCEPT ![step] = Row(n, to)],
           UNCHANGED <<arrived, generation, turn>>,
           \A k \in Members : ~Busy(k) /\ pc'[k] # "report",
           \A k \in Members : Busy(k)' => pc'[k] = "claim" /\ phase'[k] = 1,
           Active', Cur' = step, to = IF CallerIn' THEN "caller" ELSE "flag",
           \A k \in Crew' : ~Done(k)'
    PROVE  CrewInv' /\ RowInv'
<1>0. (Types /\ TeamInv => /\ Crew \subseteq Members
                           /\ Active => CrewSize \in Nat \ {0})'
  BY CrewFacts, PTL
<1>1. Crew' \subseteq Members /\ CrewSize' \in Nat \ {0}
  BY <1>0 DEF Members
<1>2. \A k \in Members : ~Waiting(k) /\ ~Waiting(k)'
  BY DEF Busy, Waiting
<1>3. BarrierCounts'
  <2>1. AtBarrier' = AtBarrier
    BY <1>2 DEF AtBarrier
  <2>2. \A k \in Members : pc'[k] \notin {"arrive", "held", "open"}
    BY DEF Busy
  <2> QED BY <2>1, <2>2 DEF CrewInv, BarrierCounts
<1>4. Task' = Row(n, to) /\ DOMAIN work = Jobs
  BY DEF Task, Types, WorkTypes
<1>5. /\ Task'.to = to /\ Task'.left = 0 /\ Task'.first = 0 /\ Task'.second = 0
      /\ Task'.outcome = "ok" /\ Task'.failed = FALSE /\ Task'.panicked = FALSE
      /\ Task'.misses = n
      /\ Task'.gu = [c \in 0..(n * UpChunks - 1) |-> "raw"]
      /\ Task'.hs = [k \in 0..(n - 1) |-> "raw"]
      /\ Task'.ys = [c \in 0..(n * DownChunks - 1) |-> "raw"]
  BY <1>4 DEF Row
<1>6. \A k \in Crew' : ~Gone(k)' /\ ~Left(k)' /\ pc'[k] \notin {"leave", "sum", "raise"}
  BY <1>1 DEF Gone, Left, Busy
<1>7. LeftCounts' /\ OneSums'
  <2>1. LeftCrew' = {}
    BY <1>6 DEF LeftCrew
  <2>2. Cardinality(LeftCrew') = 0
    BY <2>1, FS_EmptySet
  <2>3. LeftCounts'
    BY <2>2, <1>4, <1>5, <1>6 DEF LeftCounts, Task
  <2>4. OneSums'
    BY <1>1, <1>4, <1>5, <1>6 DEF OneSums, Task
  <2> QED BY <2>3, <2>4
<1>8. RowInPhase'
  <2>1. \A k \in Crew' : MemberIn(k, 1)'
    BY <1>1, <1>6 DEF MemberIn, Busy
  <2>2. \A k \in Crew' : UpSpent(k)' /\ UpMine(k)'
    BY <1>1, <1>2 DEF UpSpent, UpMine, Busy
  <2>3. \A k, l \in Crew' : UpApart(k, l)'
    BY <1>1 DEF UpApart, Busy
  <2>4. \A c \in 0..(n * UpChunks - 1) : c >= 0
    OBVIOUS
  <2>5. UpFresh' /\ UpHeld'
    BY <1>5, <2>4 DEF UpFresh, UpHeld
  <2>6. UpWritten(1)' /\ Quantized(1)' /\ DownWritten(1)'
    BY <1>5, <2>2, <2>3, <2>5 DEF UpWritten, Quantized, DownWritten
  <2> QED BY <2>1, <2>6 DEF RowInPhase, InPhase
<1>9. BadIsNoted'
  <2> SUFFICES ASSUME NEW j \in Jobs PROVE Clean(work'[j]) \/ work'[j].failed \/ work'[j].outcome = "err"
    BY DEF BadIsNoted
  <2>1. CASE j = step
    BY <2>1, <1>4 DEF Clean, Row
  <2>2. CASE j # step
    BY <2>2, <1>4 DEF RowInv, BadIsNoted
  <2> QED BY <2>1, <2>2
<1> QED BY <1>3, <1>7, <1>8, <1>9 DEF CrewInv, RowInv

(* Nobody is in a job when the recording thread may set one.               *)
LEMMA NobodyBusy ==
    ASSUME Types, TeamInv, host = "start"
    PROVE  /\ job = NoJob /\ started = NoJob /\ step \in Jobs
           /\ \A k \in Members : ~Busy(k) /\ pc[k] # "report"
           /\ \A k \in Workers : seen[k] = epoch /\ Quiet(k)
           /\ pc[0] = "out"
<1>1. job = NoJob /\ started = NoJob /\ step \in Jobs
  BY DEF TeamInv, HostHolds, JobHeld
<1>2. ~Active
  BY <1>1 DEF Active
<1>3. \A k \in Members : ~Busy(k) /\ pc[k] # "report"
  BY <1>2, BusyAreCrew
<1>4. \A k \in Workers : seen[k] = epoch /\ Quiet(k)
  BY <1>1 DEF TeamInv, WorkersKeepUp
<1>5. pc[0] = "out"
  BY DEF TeamInv, CallerRuns
<1> QED BY <1>1, <1>3, <1>4, <1>5

(* A step of member m of the crew leaves the others where they are, but    *)
(* for a worker that sleeps or wakes between jobs.                         *)
OthersStay(m) ==
    /\ Active /\ Active' /\ UNCHANGED <<Cur, Crew, CrewSize, CallerIn>>
    /\ \A k \in Members : k # m /\ (Busy(k) \/ Busy(k)') =>
           UNCHANGED <<pc[k], turn[k], phase[k], at[k]>>
    /\ \A k \in Crew : UNCHANGED Index(k)
    /\ \A k \in Crew : k # m => UNCHANGED Done(k) /\ (pc[k] = "report" <=> pc'[k] = "report")

(* What such a step keeps of the others.                                   *)
LEMMA OthersKept ==
    ASSUME NEW m, Crew \subseteq Members, OthersStay(m), NEW k \in Crew, k # m
    PROVE  /\ UNCHANGED <<Busy(k), Late(k), Gone(k), Left(k)>>
           /\ \A q, c : UNCHANGED <<Writes(k, q, c), HasToQuantize(k, c)>>
           /\ Busy(k) => UNCHANGED <<pc[k], turn[k], phase[k], at[k]>>
           /\ ~Busy(k) => {pc[k], pc'[k]} \cap {"claim", "write", "enter", "arrive", "open", "held",
                                                "leave", "sum", "raise"} = {}
           /\ pc'[k] \in {"claim", "write", "enter", "arrive"} => pc[k] = pc'[k] /\ at'[k] = at[k]
<1>1. k \in Members
  OBVIOUS
<1>2. UNCHANGED <<Index(k), Done(k), CrewSize>> /\ (pc[k] = "report" <=> pc'[k] = "report")
      /\ (Busy(k) \/ Busy(k)' => UNCHANGED <<pc[k], turn[k], phase[k], at[k]>>)
  BY <1>1 DEF OthersStay
<1>3. UNCHANGED Busy(k)
  BY <1>2 DEF Busy
<1>4. CASE Busy(k)
  BY <1>2, <1>3, <1>4 DEF Late, Gone, Left, Writes, HasToQuantize
<1>5. CASE ~Busy(k)
  <2>1. {pc[k], pc'[k]} \cap {"claim", "write", "enter", "arrive", "open", "held", "leave", "sum", "raise"} = {}
    BY <1>3, <1>5 DEF Busy
  <2>2. UNCHANGED <<Late(k), Gone(k), Left(k)>>
    BY <1>2, <1>3, <1>5, <2>1 DEF Late, Gone, Left
  <2>3. \A q, c : UNCHANGED <<Writes(k, q, c), HasToQuantize(k, c)>>
    BY <2>1 DEF Writes, HasToQuantize
  <2> QED BY <1>3, <1>5, <2>1, <2>2, <2>3
<1> QED BY <1>2, <1>3, <1>4, <1>5

(* While the barrier stays shut, they stay in it or out of it.             *)
LEMMA OthersWait ==
    ASSUME NEW m, OthersStay(m), generation' = generation, NEW k \in Members, k # m
    PROVE  UNCHANGED Waiting(k)
<1>1. Busy(k) \/ Busy(k)' => UNCHANGED <<pc[k], turn[k]>>
  BY DEF OthersStay
<1> QED BY <1>1 DEF Busy, Waiting

(* A member that a step leaves alone stays in its phase.                   *)
LEMMA OthersInPhase ==
    ASSUME NEW m, Crew \subseteq Members, OthersStay(m), NEW k \in Crew, k # m, NEW p,
           generation' = generation, MemberIn(k, p), Task.panicked => Task'.panicked
    PROVE  MemberIn(k, p)'
<1>1. /\ UNCHANGED <<Busy(k), Late(k), Gone(k)>>
      /\ Busy(k) => UNCHANGED <<pc[k], turn[k], phase[k], at[k]>>
      /\ ~Busy(k) => {pc[k], pc'[k]} \cap {"claim", "write", "enter", "arrive", "open", "held",
                                           "leave", "sum", "raise"} = {}
  BY OthersKept
<1>2. CASE Busy(k)
  BY <1>1, <1>2 DEF MemberIn
<1>3. CASE ~Busy(k)
  BY <1>1, <1>3 DEF MemberIn
<1> QED BY <1>2, <1>3

(* A step of a member that neither was nor is in the barrier.              *)
LEMMA BarrierKept ==
    ASSUME NEW m \in Members, Crew \subseteq Members, BarrierCounts, OthersStay(m),
           UNCHANGED <<arrived, generation>>, ~Waiting(m), ~Waiting(m)',
           pc'[m] \notin {"open", "held"}, pc'[m] = "arrive" => turn'[m] = generation
    PROVE  BarrierCounts'
<1>1. \A k \in Members : Waiting(k)' <=> Waiting(k)
  BY OthersWait
<1>2. AtBarrier' = AtBarrier
  BY <1>1 DEF AtBarrier
<1>3. \A k \in Members : k # m /\ pc'[k] \in {"arrive", "held", "open"} => UNCHANGED <<pc[k], turn[k]>>
  BY DEF OthersStay, Busy
<1>4. Crew' = Crew
  BY DEF OthersStay
<1>5. ASSUME NEW k \in Members
      PROVE  /\ pc'[k] = "arrive" => turn'[k] = generation'
             /\ pc'[k] = "held" => turn'[k] = generation' \/ turn'[k] + 1 = generation'
             /\ pc'[k] = "open" => /\ \A l \in Crew' : Waiting(l)'
                                   /\ \A l \in Members : pc'[l] = "open" => l = k
  BY <1>1, <1>3, <1>4 DEF BarrierCounts
<1> QED BY <1>2, <1>5 DEF BarrierCounts

(* A step that neither claims nor writes nor opens the barrier.            *)
LEMMA PhaseKept ==
    ASSUME NEW m \in Crew, Crew \subseteq Members, OthersStay(m), generation' = generation,
           NEW p \in 1..3, InPhase(p), UpWritten(p), Quantized(p), DownWritten(p),
           /\ Task'.misses = Task.misses /\ Task'.first = Task.first /\ Task'.second = Task.second
           /\ Task'.gu = Task.gu /\ Task'.hs = Task.hs /\ Task'.ys = Task.ys,
           Task.panicked => Task'.panicked,
           MemberIn(m, p)', Gone(m) => Gone(m)', pc'[m] # "write",
           pc[m] = "write" => Gone(m)' /\ Task'.panicked,
           Waiting(m)' \/ pc'[m] \in {"enter", "arrive"} => Waiting(m) \/ pc[m] \in {"enter", "arrive"},
           p = 2 => \A c \in DOMAIN Task.hs : HasToQuantize(m, c) => HasToQuantize(m, c)' \/ Gone(m)',
           p = 2 /\ pc'[m] = "claim" => at'[m] % CrewSize = Index(m),
           Gone(m)' => Gone(m) \/ Task'.panicked
    PROVE  RowInPhase'
<1>1. Active' /\ UNCHANGED <<Cur, Crew, CrewSize>> /\ \A k \in Crew : UNCHANGED Index(k)
  BY DEF OthersStay
<1>2. \A k \in Crew : MemberIn(k, p)'
  BY OthersInPhase DEF InPhase
<1>3. \A k \in Crew : k # m => UNCHANGED <<Gone(k), Waiting(k)>>
  BY OthersKept, OthersWait
<1>4. \A k \in Crew : k # m => UNCHANGED <<UpSpent(k), UpMine(k), HsMine(k)>>
  <2> SUFFICES ASSUME NEW k \in Crew, k # m PROVE UNCHANGED <<UpSpent(k), UpMine(k), HsMine(k)>>
    OBVIOUS
  <2>1. UNCHANGED <<Busy(k), Waiting(k), Index(k), CrewSize>>
    BY OthersKept, <1>1, <1>3
  <2>2. CASE Busy(k)
    <3>1. UNCHANGED <<pc[k], at[k]>>
      BY OthersKept, <2>2
    <3> QED BY <2>1, <3>1 DEF UpSpent, UpMine, HsMine
  <2>3. CASE ~Busy(k)
    <3>1. {pc[k], pc'[k]} \cap {"claim", "write", "enter", "arrive"} = {}
      BY OthersKept, <2>3
    <3> QED BY <2>1, <3>1 DEF UpSpent, UpMine, HsMine
  <2> QED BY <2>2, <2>3
<1>5. \A k \in Crew : \A q, c : Writes(k, q, c) => Writes(k, q, c)' \/ (Lost' /\ Task'.panicked)
  <2> SUFFICES ASSUME NEW k \in Crew, NEW q, NEW c, Writes(k, q, c)
               PROVE  Writes(k, q, c)' \/ (Lost' /\ Task'.panicked)
    OBVIOUS
  <2>1. CASE k # m
    BY <2>1, OthersKept
  <2>2. CASE k = m
    BY <2>2, <1>1 DEF Writes, Lost
  <2> QED BY <2>1, <2>2
<1>6. Lost => Lost'
  BY <1>1, <1>3 DEF Lost
<1>7. UpWritten(p)'
  <2>1. CASE p = 1
    <3>1. UpFresh' /\ UpHeld'
      BY <2>1, <1>1, <1>5, <1>6 DEF UpWritten, UpFresh, UpHeld
    <3>2. \A k \in Crew : UpSpent(k)' /\ UpMine(k)'
      <4>1. UpSpent(m)' /\ UpMine(m)'
        BY <2>1 DEF UpWritten, UpSpent, UpMine
      <4> QED BY <4>1, <2>1, <1>4 DEF UpWritten
    <3>3. \A k, l \in Crew : UpApart(k, l)'
      <4>1. \A k \in Crew : pc'[k] = "write" => k # m /\ pc[k] = "write" /\ at'[k] = at[k]
        BY OthersKept
      <4> QED BY <4>1, <2>1 DEF UpWritten, UpApart
    <3> QED BY <2>1, <3>1, <3>2, <3>3, <1>1 DEF UpWritten
  <2>2. CASE p > 1
    BY <2>2 DEF UpWritten
  <2> QED BY <2>1, <2>2
<1>8. Quantized(p)'
  <2>1. CASE p = 2
    <3>1. \A k \in Crew : \A c \in DOMAIN Task.hs : HasToQuantize(k, c) => HasToQuantize(k, c)' \/ Lost'
      <4> SUFFICES ASSUME NEW k \in Crew, NEW c \in DOMAIN Task.hs, HasToQuantize(k, c) PROVE HasToQuantize(k, c)' \/ Lost'
        OBVIOUS
      <4>1. CASE k # m
        BY <4>1, OthersKept
      <4>2. CASE k = m
        BY <4>2, <2>1, <1>1 DEF Lost
      <4> QED BY <4>1, <4>2
    <3>2. HsHeld'
      BY <2>1, <3>1, <1>1, <1>6 DEF Quantized, HsHeld
    <3>3. HsMine(m)'
      BY <2>1, <1>1 DEF HsMine
    <3>4. \A k \in Crew : HsMine(k)'
      BY <2>1, <3>3, <1>4 DEF Quantized
    <3> QED BY <2>1, <3>2, <3>4, <1>1 DEF Quantized
  <2>2. CASE p # 2
    BY <2>2 DEF Quantized
  <2> QED BY <2>1, <2>2
<1>9. DownWritten(p)'
  <2>1. CASE p = 3
    <3>1. YsHeld'
      BY <2>1, <1>1, <1>5 DEF DownWritten, YsHeld
    <3>2. YsMine(m)'
      BY <2>1 DEF DownWritten, YsMine
    <3>3. \A k \in Crew : k # m => YsMine(k)'
      <4> SUFFICES ASSUME NEW k \in Crew, k # m PROVE YsMine(k)'
        OBVIOUS
      <4>1. YsMine(k) /\ UNCHANGED Gone(k)
        BY <2>1, <1>3 DEF DownWritten
      <4>2. pc'[k] = "write" => pc[k] = "write" /\ at'[k] = at[k]
        BY OthersKept
      <4> QED BY <4>1, <4>2 DEF YsMine
    <3> QED BY <2>1, <3>1, <3>2, <3>3, <1>1 DEF DownWritten
  <2>2. CASE p # 3
    BY <2>2 DEF DownWritten
  <2> QED BY <2>1, <2>2
<1> QED BY <1>1, <1>2, <1>7, <1>8, <1>9 DEF RowInPhase, InPhase

(* A member that sees the job takes up its share.                          *)
LEMMA MemberJoins ==
    ASSUME Types, TeamInv, CrewInv, RowInv, NEW m \in Crew, Late(m), OthersStay(m),
           pc'[m] = "claim", phase'[m] = 1, UNCHANGED <<work, arrived, generation>>
    PROVE  CrewInv' /\ RowInv'
<1>0. Crew \subseteq Members /\ m \in Members /\ Active /\ UNCHANGED <<Cur, Crew, CrewSize, CallerIn, Task>>
  BY CrewFacts DEF OthersStay, Task
<1>1. /\ ~Gone(m) /\ ~Left(m) /\ ~Waiting(m) /\ ~Busy(m)
      /\ ~Gone(m)' /\ ~Left(m)' /\ ~Waiting(m)' /\ ~Late(m)'
  BY DEF Late, Busy, Gone, Left, Waiting, Done, ThroughJob, Quiet
<1>2. BarrierCounts'
  BY <1>0, <1>1, BarrierKept DEF CrewInv
<1>3. LeftCounts' /\ OneSums'
  <2>1. \A k \in Crew : Left(k)' <=> Left(k)
    BY <1>0, <1>1, OthersKept
  <2>2. LeftCrew' = LeftCrew
    BY <2>1, <1>0 DEF LeftCrew
  <2>3. \A k \in Crew : pc'[k] = pc[k] \/ {pc[k], pc'[k]} \cap {"leave", "sum", "raise"} = {}
    <3> SUFFICES ASSUME NEW k \in Crew
                 PROVE  pc'[k] = pc[k] \/ {pc[k], pc'[k]} \cap {"leave", "sum", "raise"} = {}
      OBVIOUS
    <3>1. CASE k = m
      BY <3>1, <1>1 DEF Busy
    <3>2. CASE k # m
      BY <3>2, <1>0, OthersKept
    <3> QED BY <3>1, <3>2
  <2>4. LeftCounts'
    BY <2>2, <2>3, <1>0 DEF CrewInv, LeftCounts, Task
  <2>5. OneSums'
    BY <2>3, <1>0 DEF CrewInv, OneSums, Task
  <2> QED BY <2>4, <2>5
<1>4. RowInPhase'
  <2>1. PICK p \in 1..3 : InPhase(p) /\ UpWritten(p) /\ Quantized(p) /\ DownWritten(p)
    BY <1>0 DEF RowInv, RowInPhase
  <2>2. MemberIn(m, p)
    BY <2>1 DEF InPhase
  <2>3. p = 1
    BY <2>2 DEF MemberIn
  <2>4. MemberIn(m, p)'
    BY <2>3, <1>1 DEF MemberIn
  <2> QED BY <2>1, <2>3, <2>4, <1>0, <1>1, PhaseKept DEF Busy
<1>5. BadIsNoted'
  BY DEF RowInv, BadIsNoted
<1> QED BY <1>2, <1>3, <1>4, <1>5 DEF CrewInv, RowInv

(* What the host does keeps the barrier, the leaving count and the row.    *)
LEMMA CrewHost ==
    ASSUME Types, TeamInv, CrewInv, RowInv, Types', TeamInv', Host \/ Abort
    PROVE  CrewInv' /\ RowInv'
<1>0. /\ size \in Nat \ {0} /\ 0..(size - 1) \subseteq Members /\ Members \subseteq Nat
      /\ 0 \in Members /\ epoch \in Nat /\ Crew \subseteq Members
  BY TeamIsMembers, CrewFacts DEF Types, HostTypes, JobTypes
<1>a. HostHolds /\ JobHeld /\ WorkersKeepUp /\ CallerRuns
  BY DEF TeamInv
<1> USE DEF hostVars, teamVars, jobVars, barrierVars, memberVars, deviceVars, handVars, faultVars
<1>1. CASE Record \/ Sync \/ RaiseZeros \/ Hits \/ Abort \/ Last
  <2>1. UNCHANGED <<size, epoch, job, withCaller, arrived, generation, turn, pc, phase, seen, at, work>>
    BY <1>1 DEF Record, Sync, RaiseZeros, Hits, Abort, Last
  <2>2. host \notin {"run", "alone", "publish"} /\ host' \notin {"run", "alone", "publish"}
    BY <1>1 DEF Record, Sync, RaiseZeros, Hits, Abort, Last, EndPass
  <2>3. UNCHANGED <<Active, Cur, Crew, CrewSize, CallerIn>> /\ \A k \in Crew : UNCHANGED <<Done(k), Index(k)>>
    BY <2>1, <2>2 DEF Active, Cur, Crew, CrewSize, CallerIn, Done, Index, ThroughJob, Quiet, Workers
  <2> QED BY <2>1, <2>3, CrewFrame
<1>2. CASE Join \/ Ran \/ RanAlone
  <2>1. UNCHANGED <<arrived, generation, turn, pc, phase, at, work>>
    BY <1>2 DEF Join, Ran, RanAlone
  <2>2. CASE Join
    <3>1. job' = NoJob
      BY <2>2, <1>a DEF Join, Clear, JobHeld
    <3>2. host' # "alone"
      BY <2>2 DEF Join, EndPass
    <3> QED BY <2>1, <3>1, <3>2, CrewFrame DEF Active
  <2>3. CASE Ran
    <3>1. job' = NoJob /\ host' # "alone"
      BY <2>3 DEF Ran, Clear, EndPass
    <3> QED BY <2>1, <3>1, CrewFrame DEF Active
  <2>4. CASE RanAlone
    <3>1. job' = NoJob /\ host' # "alone"
      BY <2>4, <1>a DEF RanAlone, JobHeld
    <3> QED BY <2>1, <3>1, CrewFrame DEF Active
  <2> QED BY <1>2, <2>2, <2>3, <2>4
<1>3. CASE Publish
  <2>1. UNCHANGED <<size, job, withCaller, arrived, generation, turn, pc, phase, seen, at, work>>
        /\ epoch' = epoch + 1 /\ host = "publish" /\ host' = "notify"
    BY <1>3 DEF Publish
  <2>2. \A k \in Workers : Quiet(k) => seen[k] = epoch
    BY <2>1, <1>a DEF WorkersKeepUp
  <2>3. \A k \in Workers : ~ThroughJob(k) /\ ~ThroughJob(k)'
    BY <2>1, <2>2, <1>0 DEF ThroughJob, Quiet
  <2>4. \A k \in Crew : k # 0 => k \in Workers
    BY <1>0, <2>1 DEF Crew, Workers
  <2>5. \A k \in Crew : UNCHANGED Done(k)
    BY <2>1, <2>3, <2>4 DEF Done, ThroughJob
  <2>6. UNCHANGED <<Active, Cur, Crew, CrewSize, CallerIn>> /\ \A k : UNCHANGED Index(k)
    BY <2>1 DEF Active, Cur, Crew, CrewSize, CallerIn, Index, Workers
  <2> QED BY <2>1, <2>5, <2>6, CrewFrame
<1>4. CASE Notify /\ ~withCaller
  <2>1. UNCHANGED <<size, epoch, job, withCaller, arrived, generation, turn, phase, seen, at, work>>
        /\ pc' = Woken /\ host = "notify" /\ host' = "hits"
    BY <1>4 DEF Notify
  <2>2. \A k \in Members : pc'[k] = IF pc[k] = "asleep" THEN "park" ELSE pc[k]
    BY <2>1 DEF Woken
  <2>3. \A k \in Members : (Busy(k) \/ Busy(k)' => pc'[k] = pc[k]) /\ UNCHANGED Quiet(k)
                           /\ (pc[k] = "report" <=> pc'[k] = "report")
    BY <2>2 DEF Busy, Quiet
  <2>4. UNCHANGED <<Active, Cur, Crew, CrewSize, CallerIn>> /\ \A k : UNCHANGED Index(k)
    BY <2>1 DEF Active, Cur, Crew, CrewSize, CallerIn, Index, Workers
  <2>5. \A k \in Crew : k # 0 /\ k \in Members
    BY <1>0, <1>4, <2>1 DEF Crew, Workers
  <2>6. \A k \in Crew : UNCHANGED Done(k)
    BY <2>1, <2>3, <2>5 DEF Done, ThroughJob
  <2> QED BY <1>0, <2>1, <2>3, <2>4, <2>6, CrewFrame
<1>5. CASE \E caller \in BOOLEAN : Dispatch(caller)
  <2>1. PICK caller \in BOOLEAN : Dispatch(caller)
    BY <1>5
  <2>2. PICK n \in MissCounts \ {0} : work' = [work EXCEPT ![step] = Row(n, IF caller THEN "caller" ELSE "flag")]
    BY <2>1 DEF Dispatch
  <2>3. UNCHANGED <<size, step, arrived, generation, turn, pc, phase>> /\ host = "start" /\ host' = "publish"
        /\ job' = step /\ withCaller' = caller
    BY <2>1 DEF Dispatch
  <2>4. n \in Nat /\ job' # NoJob
    BY <2>3, NobodyBusy, TeamAssumption DEF Jobs, NoJob
  <2>5. Active' /\ Cur' = step /\ CallerIn' = caller
    BY <2>3, <2>4 DEF Active, Cur, CallerIn
  <2>6. \A k : ~Done(k)'
    BY <2>3 DEF Done, ThroughJob
  <2>7. \A k \in Members : ~Busy(k) /\ ~Busy(k)' /\ pc'[k] # "report"
    BY <2>3, NobodyBusy DEF Busy
  <2> QED BY <2>2, <2>3, <2>4, <2>5, <2>6, <2>7, NobodyBusy, FreshRow
<1>6. CASE StartAlone
  <2>1. PICK n \in MissCounts \ {0} : work' = [work EXCEPT ![step] = Row(n, "flag")]
    BY <1>6 DEF StartAlone
  <2>2. /\ UNCHANGED <<size, step, arrived, generation, turn, job>> /\ host = "start" /\ host' = "alone"
        /\ pc' = [pc EXCEPT ![0] = "claim"] /\ phase' = [phase EXCEPT ![0] = 1]
    BY <1>6 DEF StartAlone, Share
  <2>3. n \in Nat
    BY TeamAssumption
  <2>4. Active' /\ Cur' = step /\ ~CallerIn' /\ Crew' = {0}
    BY <2>2 DEF Active, Cur, CallerIn, Crew
  <2>5. pc'[0] = "claim" /\ phase'[0] = 1 /\ \A k \in Members \ {0} : pc'[k] = pc[k]
    BY <1>0, <2>2 DEF Types, MemberTypes
  <2>6. \A k \in Crew' : ~Done(k)'
    BY <2>4, <2>5 DEF Done
  <2>7. \A k \in Members : /\ ~Busy(k) /\ pc'[k] # "report"
                           /\ Busy(k)' => pc'[k] = "claim" /\ phase'[k] = 1
    BY <2>2, <2>5, NobodyBusy DEF Busy
  <2> QED BY <2>1, <2>2, <2>3, <2>4, <2>6, <2>7, NobodyBusy, FreshRow
<1>7. CASE Notify /\ withCaller
  <2>1. /\ UNCHANGED <<size, step, epoch, job, withCaller, finished, seen, work, arrived, generation, turn, at>>
        /\ pc' = [Woken EXCEPT ![0] = "claim"] /\ host = "notify" /\ host' = "run"
        /\ phase' = [phase EXCEPT ![0] = 1]
    BY <1>7 DEF Notify, Share
  <2>2. pc'[0] = "claim" /\ phase'[0] = 1
        /\ \A k \in Members \ {0} : /\ pc'[k] = IF pc[k] = "asleep" THEN "park" ELSE pc[k]
                                   /\ phase'[k] = phase[k]
    BY <1>0, <2>1 DEF Woken, Types, MemberTypes
  <2>3. job \in Jobs /\ 0 \in Crew /\ pc[0] = "out" /\ Late(0)
    BY <1>7, <1>a, <2>1, <1>0 DEF JobHeld, HostHolds, Crew, CallerRuns, Late, Busy, Done
  <2>4. /\ Active /\ Active' /\ UNCHANGED <<Cur, Crew, CrewSize, CallerIn>>
        /\ \A k : UNCHANGED Index(k)
    BY <2>1, <2>3 DEF Active, Cur, Crew, CrewSize, CallerIn, Index, Workers, Jobs, NoJob
  <2>5. OthersStay(0)
    <3>1. \A k \in Members \ {0} : /\ Busy(k) \/ Busy(k)' => pc'[k] = pc[k]
                                  /\ (pc[k] = "report" <=> pc'[k] = "report")
                                  /\ UNCHANGED Quiet(k)
      BY <2>2 DEF Busy, Quiet
    <3>2. \A k \in Members \ {0} : UNCHANGED Done(k)
      BY <2>1, <3>1 DEF Done, ThroughJob
    <3> QED BY <1>0, <2>1, <2>2, <2>4, <3>1, <3>2 DEF OthersStay
  <2> QED BY <2>1, <2>2, <2>3, <2>4, <2>5, MemberJoins
<1> QED BY <1>1, <1>2, <1>3, <1>4, <1>5, <1>6, <1>7 DEF Host

(* What a member's steps within a job are about.                           *)
Step(m) == Report(m) \/ Claim(m) \/ Write(m) \/ Enter(m) \/ Arrive(m) \/ Open(m) \/ Held(m)
           \/ Leave(m) \/ Sum(m) \/ Raise(m)

(* What a step of one member in a job leaves alone.                        *)
LEMMA StepFrame ==
    ASSUME Types, TeamInv, NEW m \in Members, Step(m)
    PROVE  /\ m \in Crew /\ OthersStay(m) /\ Crew \subseteq Members
           /\ Cur \in Jobs /\ W(m) = Task /\ mine[m].job = Cur
           /\ mine[m].size = CrewSize /\ mine[m].index = Index(m)
           /\ \A w : SetWork(m, w) => Task' = w /\ \A j \in Jobs \ {Cur} : work'[j] = work[j]
           /\ ~Late(m) /\ ~Done(m)
<1>0. Members \subseteq Nat /\ 0 \in Members
  BY TeamIsMembers DEF Types, HostTypes
<1>1. Busy(m) \/ pc[m] = "report"
  BY DEF Step, Report, Claim, Write, Enter, Arrive, Open, Held, Leave, Sum, Raise, Busy
<1>2. /\ Active /\ Cur \in Jobs /\ m \in Crew
      /\ mine[m] = [job |-> Cur, index |-> Index(m), size |-> CrewSize]
  BY <1>1, BusyInJob
<1> USE DEF hostVars, teamVars, jobVars, barrierVars, memberVars, deviceVars, handVars, faultVars
<1>3. UNCHANGED <<size, host, step, epoch, job, withCaller, seen>>
  BY DEF Step, Report, Claim, Write, Enter, Arrive, Open, Held, Leave, Sum, Raise
<1>4. \A k \in Members : k # m => UNCHANGED <<pc[k], phase[k], at[k], turn[k]>>
  BY DEF Step, Report, Claim, Write, Enter, Arrive, Open, Held, Leave, Sum, Raise, Go, Through,
     Types, MemberTypes, BarrierTypes
<1>5. Active' /\ UNCHANGED <<Cur, Crew, CrewSize, CallerIn>> /\ \A k : UNCHANGED Index(k)
  BY <1>2, <1>3 DEF Active, Cur, Crew, CrewSize, CallerIn, Index, Workers
<1>6. Crew \subseteq Members
  BY CrewFacts
<1>7. \A k \in Members : k # m => UNCHANGED Done(k)
  BY <1>0, <1>3, <1>4 DEF Done, ThroughJob, Quiet
<1>8. OthersStay(m)
  BY <1>2, <1>4, <1>5, <1>6, <1>7 DEF OthersStay
<1>9. \A w : SetWork(m, w) => Task' = w /\ \A j \in Jobs \ {Cur} : work'[j] = work[j]
  BY <1>2, <1>5 DEF SetWork, Task, Types, WorkTypes
<1>10. W(m) = Task
  BY <1>2 DEF W, Task
<1>11. ~Late(m) /\ ~Done(m)
  BY <1>1 DEF Late, Busy, Done, ThroughJob, Quiet
<1> QED BY <1>2, <1>6, <1>8, <1>9, <1>10, <1>11

(* The task's shape.                                                       *)
LEMMA TaskShape ==
    ASSUME Types, Cur \in Jobs
    PROVE  Task \in Rows /\ Task.misses \in Nat /\ Task \in RowsOf(Task.misses)
BY RowShape DEF Types, WorkTypes, Task

(* The barrier counts who waits in it, and opens to a whole crew.          *)
LEMMA BarrierStep ==
    ASSUME Types, TeamInv, CrewInv, RowInv, Types', NEW m \in Members, Step(m)
    PROVE  BarrierCounts'
<1>0. /\ m \in Crew /\ OthersStay(m) /\ Crew \subseteq Members /\ Active /\ UNCHANGED <<Crew, CrewSize>>
      /\ mine[m].size = CrewSize
  BY StepFrame DEF OthersStay
<1>1. BarrierCounts /\ generation \in Nat /\ IsFiniteSet(AtBarrier)
  <2>1. AtBarrier \in SUBSET Members
    BY DEF AtBarrier
  <2> QED BY <2>1, CrewFacts, FS_Subset DEF CrewInv, Types, BarrierTypes
<1>2. \A k \in Members : k # m /\ pc'[k] \in {"arrive", "held", "open"} => UNCHANGED <<pc[k], turn[k]>>
  BY <1>0 DEF OthersStay, Busy
<1> USE DEF hostVars, teamVars, jobVars, barrierVars, memberVars, deviceVars, handVars, faultVars
<1>3. CASE Report(m) \/ Claim(m) \/ Write(m) \/ Enter(m) \/ Leave(m) \/ Sum(m) \/ Raise(m)
  <2>1. UNCHANGED <<arrived, generation>>
    BY <1>3 DEF Report, Claim, Write, Enter, Leave, Sum, Raise
  <2>2. /\ pc[m] \notin {"open", "held"} /\ pc'[m] \notin {"open", "held"}
        /\ pc'[m] = "arrive" => turn'[m] = generation
    BY <1>3 DEF Report, Claim, Write, Enter, Leave, Sum, Raise, Go, Types, MemberTypes, BarrierTypes
  <2> QED BY <1>0, <1>1, <2>1, <2>2, BarrierKept DEF Waiting
<1>4. CASE Arrive(m)
  <2>1. /\ arrived' = arrived + 1 /\ generation' = generation /\ turn' = turn /\ pc[m] = "arrive"
        /\ pc'[m] = IF arrived' = CrewSize THEN "open" ELSE "held"
    BY <1>0, <1>4 DEF Arrive, Go, Types, MemberTypes
  <2>2. turn[m] = generation /\ ~Waiting(m) /\ Waiting(m)'
    BY <1>1, <2>1 DEF BarrierCounts, Waiting
  <2>3. \A k \in Members : k # m => (Waiting(k)' <=> Waiting(k))
    BY <1>0, <2>1, OthersWait
  <2>4. AtBarrier' = AtBarrier \cup {m} /\ m \notin AtBarrier
    BY <2>2, <2>3 DEF AtBarrier
  <2>5. arrived' = Cardinality(AtBarrier')
    BY <1>1, <2>1, <2>4, FS_AddElement DEF BarrierCounts
  <2>6. \A k \in Members : k # m => pc'[k] # "open"
    BY <1>0, <1>1, <1>2, <2>2 DEF BarrierCounts
  <2>7. ASSUME pc'[m] = "open" PROVE \A k \in Crew : Waiting(k)'
    <3>1. arrived' = CrewSize
      BY <2>1, <2>7
    <3>2. \A k \in Members : Waiting(k) => k \in Crew
      BY BusyAreCrew DEF Waiting, Busy
    <3>3. AtBarrier' \in SUBSET Crew
      BY <1>0, <2>4, <3>2 DEF AtBarrier
    <3>4. AtBarrier' = Crew
      BY <1>0, <2>5, <3>1, <3>3, WholeCrew
    <3> QED BY <3>4 DEF AtBarrier
  <2>8. ASSUME NEW k \in Members
        PROVE  /\ pc'[k] = "arrive" => turn'[k] = generation'
               /\ pc'[k] = "held" => turn'[k] = generation' \/ turn'[k] + 1 = generation'
    BY <1>1, <1>2, <2>1, <2>2 DEF BarrierCounts
  <2>9. ASSUME NEW k \in Members, pc'[k] = "open"
        PROVE  (\A l \in Crew' : Waiting(l)') /\ (\A l \in Members : pc'[l] = "open" => l = k)
    BY <1>0, <2>6, <2>7, <2>9
  <2> QED BY <2>5, <2>8, <2>9 DEF BarrierCounts
<1>5. CASE Open(m)
  <2>1. arrived' = 0 /\ generation' = generation + 1 /\ pc[m] = "open" /\ pc'[m] = "claim"
    BY <1>5 DEF Open, Through, Go, Types, MemberTypes
  <2>2. \A k \in Crew : Waiting(k)
    BY <1>1, <2>1 DEF BarrierCounts
  <2>3. \A k \in Members : pc[k] = "open" => k = m
    BY <1>1, <2>1 DEF BarrierCounts
  <2>4. \A k \in Members : k # m /\ pc'[k] \in {"arrive", "held", "open"} =>
            pc'[k] = "held" /\ turn'[k] + 1 = generation'
    <3> SUFFICES ASSUME NEW k \in Members, k # m, pc'[k] \in {"arrive", "held", "open"}
                 PROVE  pc'[k] = "held" /\ turn'[k] + 1 = generation'
      OBVIOUS
    <3>1. pc'[k] = pc[k] /\ turn'[k] = turn[k]
      BY <1>2
    <3>2. k \in Crew
      BY <3>1, BusyAreCrew DEF Busy
    <3> QED BY <2>1, <2>2, <2>3, <3>1, <3>2 DEF Waiting
  <2>5. AtBarrier' = {}
    <3> SUFFICES ASSUME NEW k \in Members, Waiting(k)' PROVE FALSE
      BY DEF AtBarrier
    <3>1. pc'[k] \in {"open", "held"} /\ (pc'[k] = "held" => turn'[k] = generation')
      BY DEF Waiting
    <3>2. k # m
      BY <2>1, <3>1
    <3> QED BY <1>1, <2>1, <2>4, <3>1, <3>2 DEF Types, BarrierTypes
  <2>6. arrived' = Cardinality(AtBarrier')
    BY <2>1, <2>5, FS_EmptySet
  <2> QED BY <2>1, <2>4, <2>6 DEF BarrierCounts
<1>6. CASE Held(m)
  <2>1. UNCHANGED <<arrived, generation>> /\ pc[m] = "held" /\ generation # turn[m] /\ pc'[m] = "claim"
    BY <1>6 DEF Held, Through, Go, Types, MemberTypes
  <2> QED BY <1>0, <1>1, <2>1, BarrierKept DEF Waiting
<1> QED BY <1>3, <1>4, <1>5, <1>6 DEF Step

(* A member that reports is through the job.                               *)
LEMMA ReportIsDone ==
    ASSUME Types, TeamInv, NEW m \in Members, Report(m)
    PROVE  /\ Done(m)' /\ pc[m] = "report" /\ ~Busy(m)'
           /\ UNCHANGED <<work, arrived, generation>>
<1>0. Members \subseteq Nat /\ size \in Nat \ {0}
  BY TeamIsMembers DEF Types, HostTypes
<1> USE DEF hostVars, barrierVars
<1>1. /\ UNCHANGED <<size, host, epoch, seen, work, arrived, generation>> /\ pc[m] = "report"
      /\ pc'[m] = IF m = 0 THEN "out" ELSE "spin"
  BY DEF Report, Go, Types, MemberTypes
<1>2. CASE m = 0
  BY <1>1, <1>2 DEF Done, Busy, TeamInv, CallerRuns
<1>3. CASE m # 0
  <2>1. m \in Workers
    BY <1>0, <1>1, <1>3 DEF TeamInv, Strangers, Workers
  <2>2. host # "publish" /\ seen[m] = epoch
    BY <1>1, <2>1 DEF TeamInv, WorkersKeepUp, Quiet
  <2> QED BY <1>1, <1>3, <2>2 DEF Done, ThroughJob, Quiet, Busy
<1> QED BY <1>1, <1>2, <1>3

(* Steps before a member leaves, as the guard sees them.                   *)
LEMMA BeforeLeaving ==
    ASSUME Types, TeamInv, NEW m \in Members, Claim(m) \/ Write(m) \/ Enter(m) \/ Arrive(m) \/ Open(m) \/ Held(m)
    PROVE  /\ ~Left(m) /\ pc[m] \notin {"leave", "sum", "raise"}
           /\ pc'[m] \in {"claim", "write", "enter", "arrive", "open", "held", "leave", "report"}
           /\ pc'[m] = "leave" => Task.to = "flag"
           /\ pc'[m] = "report" => Task.to # "flag"
           /\ UNCHANGED <<Task.to, Task.left, Task.outcome>>
<1>1. /\ W(m) = Task /\ Cur \in Jobs /\ ~Done(m)
      /\ \A w : SetWork(m, w) => Task' = w
      /\ OthersStay(m)
  BY StepFrame DEF Step
<1>2. Task \in RowsOf(Task.misses) /\ UNCHANGED Cur
  BY <1>1, TaskShape DEF OthersStay
<1>3. CASE Claim(m)
  <2>1. Task' \in {[Task EXCEPT !.first = Task.first + 1], Task, [Task EXCEPT !.second = Task.second + 1]}
    <3>1. phase[m] \in {1, 2, 3}
      BY DEF Types, MemberTypes
    <3> QED BY <1>1, <1>3, <3>1 DEF Claim
  <2>2. UNCHANGED <<Task.to, Task.left, Task.outcome>>
    BY <1>2, <2>1 DEF RowsOf
  <2>3. /\ pc[m] = "claim"
        /\ pc'[m] \in {"write", "enter"} \/ pc'[m] = (IF Task.to = "flag" THEN "leave" ELSE "report")
    BY <1>1, <1>3 DEF Claim, Go, Types, MemberTypes
  <2> QED BY <1>1, <2>2, <2>3 DEF Left
<1>4. CASE Write(m)
  <2> DEFINE i == at[m]
             Put(v) == CASE phase[m] = 1 -> [Task EXCEPT !.gu[i] = v]
                         [] phase[m] = 2 -> [Task EXCEPT !.hs[i] = v]
                         [] phase[m] = 3 -> [Task EXCEPT !.ys[i] = v]
  <2>1. \A v : Put(v) \in {[Task EXCEPT !.gu[i] = v], [Task EXCEPT !.hs[i] = v], [Task EXCEPT !.ys[i] = v]}
    <3>1. phase[m] \in {1, 2, 3}
      BY DEF Types, MemberTypes
    <3> QED BY <3>1
  <2>2. /\ pc[m] = "write"
        /\ \/ pc'[m] = "claim" /\ \E v : Task' = Put(v) \/ Task' = [Put(v) EXCEPT !.failed = TRUE]
           \/ /\ pc'[m] = IF Task.to = "flag" THEN "leave" ELSE "report"
              /\ Task' = [Task EXCEPT !.panicked = TRUE]
    BY <1>1, <1>4 DEF Write, Go, Types, MemberTypes
  <2> HIDE DEF Put
  <2>3. UNCHANGED <<Task.to, Task.left, Task.outcome>>
    BY <1>2, <2>1, <2>2 DEF RowsOf
  <2> QED BY <1>1, <2>2, <2>3 DEF Left
<1>5. CASE Enter(m) \/ Arrive(m) \/ Open(m) \/ Held(m)
  <2>1. UNCHANGED work /\ pc[m] \in {"enter", "arrive", "open", "held"}
        /\ pc'[m] \in {"claim", "arrive", "open", "held"}
    BY <1>5 DEF Enter, Arrive, Open, Held, Through, Go, Types, MemberTypes
  <2> QED BY <1>1, <1>2, <2>1 DEF Left, Task
<1> QED BY <1>3, <1>4, <1>5

(* The members that leave a started row are counted, and the last sums.    *)
LEMMA LeavingStep ==
    ASSUME Types, TeamInv, CrewInv, RowInv, NEW m \in Members, Step(m)
    PROVE  LeftCounts' /\ OneSums'
<1>0. /\ m \in Crew /\ OthersStay(m) /\ Crew \subseteq Members
      /\ Active /\ Active' /\ UNCHANGED <<Crew, CrewSize, Cur, CallerIn>> /\ Cur \in Jobs
      /\ mine[m].size = CrewSize /\ W(m) = Task /\ ~Done(m)
      /\ \A w : SetWork(m, w) => Task' = w
  BY StepFrame DEF OthersStay
<1>a. LeftCounts /\ OneSums /\ Task \in RowsOf(Task.misses) /\ IsFiniteSet(LeftCrew)
      /\ CrewSize \in Nat
  <2>1. LeftCrew \in SUBSET Crew
    BY DEF LeftCrew
  <2> QED BY <1>0, <2>1, TaskShape, CrewFacts, FS_Subset DEF CrewInv
<1>b. \A k \in Crew : k # m => /\ Left(k)' <=> Left(k)
                               /\ \/ pc'[k] = pc[k]
                                  \/ {pc[k], pc'[k]} \cap {"leave", "sum", "raise"} = {}
  <2> SUFFICES ASSUME NEW k \in Crew, k # m
               PROVE  /\ Left(k)' <=> Left(k)
                      /\ pc'[k] = pc[k] \/ {pc[k], pc'[k]} \cap {"leave", "sum", "raise"} = {}
    OBVIOUS
  <2>1. UNCHANGED Left(k)
    BY <1>0, OthersKept
  <2>2. CASE Busy(k)
    BY <2>1, <2>2, <1>0, OthersKept
  <2>3. CASE ~Busy(k)
    BY <2>1, <2>3, <1>0, OthersKept
  <2> QED BY <2>2, <2>3
<1>c. ~Left(m) => Cardinality(LeftCrew) # CrewSize
  <2>1. LeftCrew \in SUBSET Crew /\ (~Left(m) => m \notin LeftCrew)
    BY DEF LeftCrew
  <2> QED BY <1>0, <2>1, WholeCrew
<1>d. (Left(m)' <=> Left(m)) => LeftCrew' = LeftCrew
  BY <1>0, <1>b DEF LeftCrew
<1>1. CASE Report(m) \/ Raise(m)
  <2>1. /\ work' = work /\ pc[m] \in {"report", "raise"} /\ pc'[m] \notin {"leave", "sum", "raise"}
        /\ Left(m) /\ Left(m)'
    <3>1. CASE Report(m)
      BY <3>1, ReportIsDone DEF Left, Busy
    <3>2. CASE Raise(m)
      BY <3>2 DEF Raise, Go, Left, Types, MemberTypes
    <3> QED BY <1>1, <3>1, <3>2
  <2>2. LeftCrew' = LeftCrew /\ Task' = Task
    BY <1>0, <1>d, <2>1 DEF Task
  <2>3. LeftCounts'
    BY <1>0, <1>a, <1>b, <2>1, <2>2 DEF LeftCounts, Task
  <2>4. OneSums'
    <3>1. \A k \in Crew : k # m => /\ pc'[k] \in {"sum", "raise"} <=> pc[k] \in {"sum", "raise"}
                                   /\ pc'[k] = "sum" <=> pc[k] = "sum"
      <4> SUFFICES ASSUME NEW k \in Crew, k # m
                   PROVE  /\ pc'[k] \in {"sum", "raise"} <=> pc[k] \in {"sum", "raise"}
                          /\ pc'[k] = "sum" <=> pc[k] = "sum"
        OBVIOUS
      <4>1. pc'[k] = pc[k] \/ {pc[k], pc'[k]} \cap {"leave", "sum", "raise"} = {}
        BY <1>b
      <4> QED BY <4>1
    <3>2. pc'[m] \notin {"sum", "raise"} /\ pc[m] # "sum"
      BY <2>1
    <3>3. work' = work /\ Crew' = Crew /\ CrewSize' = CrewSize /\ Cur' = Cur
      BY <1>0, <2>1
    <3>4. \A k \in Crew : pc'[k] \in {"sum", "raise"} =>
              /\ pc[k] \in {"sum", "raise"}
              /\ pc'[k] = "sum" => pc[k] = "sum"
      BY <3>1, <3>2
    <3>5. (\E k \in Crew : pc[k] = "sum") => \E k \in Crew : pc'[k] = "sum"
      BY <3>1, <3>2
    <3>6. OneSums /\ Active
      BY <1>0, <1>a
    <3> QED BY <3>3, <3>4, <3>5, <3>6 DEF OneSums
  <2> QED BY <2>3, <2>4
<1>2. CASE Claim(m) \/ Write(m) \/ Enter(m) \/ Arrive(m) \/ Open(m) \/ Held(m)
  <2>1. /\ ~Left(m) /\ pc[m] \notin {"leave", "sum", "raise"}
        /\ pc'[m] \in {"claim", "write", "enter", "arrive", "open", "held", "leave", "report"}
        /\ pc'[m] = "leave" => Task.to = "flag"
        /\ pc'[m] = "report" => Task.to # "flag"
        /\ Task'.to = Task.to /\ Task'.left = Task.left /\ Task'.outcome = Task.outcome
    BY <1>2, BeforeLeaving
  <2>2. ASSUME Task.to = "flag" PROVE LeftCrew' = LeftCrew
    <3>1. ~Left(m)'
      <4>1. ~Done(m)'
        BY <2>1, <2>2 DEF Done, ThroughJob, Quiet
      <4> QED BY <2>1, <2>2, <4>1 DEF Left
    <3> QED BY <1>d, <2>1, <3>1
  <2>3. LeftCounts'
    BY <1>0, <1>a, <1>b, <2>1, <2>2 DEF LeftCounts, Task
  <2>4. Task.to = "flag" => Task.left # CrewSize
    BY <1>0, <1>a, <1>c, <2>1 DEF LeftCounts, Task
  <2>5. OneSums'
    BY <1>0, <1>a, <1>b, <2>1, <2>4 DEF OneSums, Task
  <2> QED BY <2>3, <2>5
<1>3. CASE Leave(m)
  <2>1. /\ pc[m] = "leave" /\ ~Left(m) /\ Task' = [Task EXCEPT !.left = @ + 1]
        /\ pc'[m] = IF Task.left + 1 = CrewSize THEN "sum" ELSE "report"
    BY <1>0, <1>3 DEF Leave, Go, Left, Types, MemberTypes
  <2>2. Left(m)'
    BY <2>1 DEF Left
  <2>3. /\ Task'.to = Task.to /\ Task'.left = Task.left + 1 /\ Task'.outcome = Task.outcome
        /\ Task'.failed = Task.failed /\ Task.left \in Nat
    BY <2>1, <1>a DEF RowsOf
  <2>4. Task.to = "flag"
    BY <1>0, <1>a, <2>1 DEF LeftCounts, Task, RowsOf
  <2>5. LeftCrew' = LeftCrew \cup {m} /\ m \notin LeftCrew
    BY <1>0, <1>b, <2>1, <2>2 DEF LeftCrew
  <2>6. Task'.left = Cardinality(LeftCrew')
    <3>1. Task.left = Cardinality(LeftCrew)
      BY <1>0, <1>a, <2>4 DEF LeftCounts, Task
    <3>2. Cardinality(LeftCrew \cup {m}) = Cardinality(LeftCrew) + 1
      BY <1>a, <2>5, FS_AddElement
    <3> QED BY <2>3, <2>5, <3>1, <3>2
  <2>7. Task.left # CrewSize /\ Task.outcome = "ok"
    BY <1>0, <1>a, <1>c, <2>1, <2>4 DEF LeftCounts, Task
  <2>8. LeftCounts'
    BY <1>0, <1>a, <2>3, <2>4, <2>6, <2>7 DEF LeftCounts, Task
  <2>9. \A k \in Crew : pc[k] \notin {"sum", "raise"}
    BY <1>0, <1>a, <2>7 DEF OneSums, Task
  <2>10. \A k \in Crew : pc'[k] \in {"sum", "raise"} => k = m /\ pc'[m] = "sum" /\ Task'.left = CrewSize
    BY <1>b, <2>1, <2>3, <2>9
  <2>11. Task'.left = CrewSize => pc'[m] = "sum"
    BY <2>1, <2>3
  <2>12. OneSums'
    BY <1>0, <2>3, <2>7, <2>10, <2>11 DEF OneSums, Task
  <2> QED BY <2>8, <2>12
<1>4. CASE Sum(m)
  <2>1. /\ pc[m] = "sum" /\ pc'[m] = "raise"
        /\ Task' = [Task EXCEPT !.outcome = Verdict(Task.failed), !.failed = FALSE]
    BY <1>0, <1>4 DEF Sum, Go, Types, MemberTypes
  <2>2. Left(m) /\ Left(m)'
    BY <2>1 DEF Left
  <2>3. /\ Task'.to = Task.to /\ Task'.left = Task.left /\ Task'.failed = FALSE
    BY <2>1, <1>a DEF RowsOf
  <2>4. Task.to = "flag" /\ Task.left = CrewSize
        /\ \A k \in Crew : pc[k] \in {"sum", "raise"} => k = m
    BY <1>0, <1>a, <2>1 DEF LeftCounts, OneSums, Task, RowsOf
  <2>5. LeftCrew' = LeftCrew
    BY <1>d, <2>2
  <2>6. LeftCounts'
    BY <1>0, <1>a, <2>3, <2>4, <2>5 DEF LeftCounts, Task
  <2>7. \A k \in Crew : pc'[k] \in {"sum", "raise"} => k = m
    BY <1>b, <2>4
  <2>8. OneSums'
    BY <1>0, <2>1, <2>3, <2>4, <2>7 DEF OneSums, Task
  <2> QED BY <2>6, <2>8
<1> QED BY <1>1, <1>2, <1>3, <1>4 DEF Step

(* A chunk lies within its miss, and a miss's chunks within the row's.     *)
LEMMA ChunkOfMiss ==
    ASSUME NEW n \in Nat, NEW u \in Nat \ {0}, NEW k \in Nat, k < n
    PROVE  /\ \A c \in (k * u)..((k + 1) * u - 1) : c \in 0..(n * u - 1)
           /\ k * u \in (k * u)..((k + 1) * u - 1)
<1>1. (k + 1) * u = k * u + u /\ k * u \in Nat
  OBVIOUS
<1>2. (k + 1) * u <= n * u
  <2>1. n - (k + 1) \in Nat /\ n = (k + 1) + (n - (k + 1))
    OBVIOUS
  <2>2. (n - (k + 1)) * u \in Nat
    BY <2>1
  <2>3. n * u = (k + 1) * u + (n - (k + 1)) * u
    BY <2>1
  <2> QED BY <2>2, <2>3
<1> QED BY <1>1, <1>2

(* A chunk of the row belongs to one of its misses.                        *)
LEMMA MissOfChunk ==
    ASSUME NEW n \in Nat, NEW d \in Nat \ {0}, NEW c \in Nat, c < n * d
    PROVE  c \div d \in 0..(n - 1)
<1> DEFINE q == c \div d
<1>1. q \in Nat /\ q * d <= c
  OBVIOUS
<1>2. ASSUME q >= n PROVE FALSE
  <2>1. q - n \in Nat
    BY <1>1, <1>2
  <2>2. (q - n) * d \in Nat
    BY <2>1
  <2>3. q * d = n * d + (q - n) * d
    BY <1>1
  <2> QED BY <1>1, <2>2, <2>3
<1> QED BY <1>1, <1>2

(* Whatever is wrong in a buffer was noted.                                *)
LEMMA BadStep ==
    ASSUME Types, TeamInv, CrewInv, RowInv, NEW m \in Members, Step(m)
    PROVE  BadIsNoted'
<1>0. /\ m \in Crew /\ OthersStay(m) /\ Crew \subseteq Members
      /\ Active /\ Active' /\ UNCHANGED <<Crew, CrewSize, Cur, CallerIn>> /\ Cur \in Jobs
      /\ mine[m].size = CrewSize /\ W(m) = Task
      /\ \A w : SetWork(m, w) => Task' = w /\ \A j \in Jobs \ {Cur} : work'[j] = work[j]
  BY StepFrame DEF OthersStay
<1>a. /\ Task \in RowsOf(Task.misses) /\ Task.misses \in Nat
      /\ Clean(Task) \/ Task.failed \/ Task.outcome = "err"
      /\ at[m] \in Nat /\ phase[m] \in {1, 2, 3}
  BY <1>0, TaskShape DEF RowInv, BadIsNoted, Task, Types, MemberTypes
<1>b. ASSUME \A j \in Jobs \ {Cur} : work'[j] = work[j],
             Clean(Task') \/ Task'.failed \/ Task'.outcome = "err"
      PROVE  BadIsNoted'
  BY <1>0, <1>b DEF RowInv, BadIsNoted, Task
<1>1. CASE Report(m) \/ Enter(m) \/ Arrive(m) \/ Open(m) \/ Held(m) \/ Raise(m)
  <2>1. work' = work
    BY <1>1 DEF Report, Enter, Arrive, Open, Held, Raise
  <2> QED BY <2>1 DEF RowInv, BadIsNoted
<1>2. CASE Claim(m) \/ Leave(m)
  <2>1. Task' \in {Task, [Task EXCEPT !.first = Task.first + 1], [Task EXCEPT !.second = Task.second + 1],
                   [Task EXCEPT !.left = Task.left + 1]}
        /\ \A j \in Jobs \ {Cur} : work'[j] = work[j]
    BY <1>0, <1>a, <1>2 DEF Claim, Leave
  <2>2. Task'.gu = Task.gu /\ Task'.hs = Task.hs /\ Task'.ys = Task.ys
        /\ Task'.failed = Task.failed /\ Task'.outcome = Task.outcome
    BY <2>1, <1>a DEF RowsOf
  <2> QED BY <1>a, <1>b, <2>1, <2>2 DEF Clean
<1>3. CASE Sum(m)
  <2>1. /\ pc[m] = "sum" /\ \A j \in Jobs \ {Cur} : work'[j] = work[j]
        /\ Task' = [Task EXCEPT !.outcome = Verdict(Task.failed), !.failed = FALSE]
    BY <1>0, <1>3 DEF Sum
  <2>2. Task.outcome = "ok"
    BY <1>0, <2>1 DEF CrewInv, OneSums, Task
  <2>3. Task'.gu = Task.gu /\ Task'.hs = Task.hs /\ Task'.ys = Task.ys
        /\ Task'.outcome = Verdict(Task.failed)
    BY <2>1, <1>a DEF RowsOf
  <2> QED BY <1>a, <1>b, <2>1, <2>2, <2>3 DEF Clean, Verdict
<1>4. CASE Write(m)
  <2> DEFINE i == at[m]
             Put(v) == CASE phase[m] = 1 -> [Task EXCEPT !.gu[i] = v]
                         [] phase[m] = 2 -> [Task EXCEPT !.hs[i] = v]
                         [] phase[m] = 3 -> [Task EXCEPT !.ys[i] = v]
             whole == CASE phase[m] = 1 -> TRUE
                        [] phase[m] = 2 -> UpOf(Task, i) = {"ok"}
                        [] phase[m] = 3 -> Task.hs[i \div DownChunks] = "ok"
  <2>1. /\ pc[m] = "write" /\ \A j \in Jobs \ {Cur} : work'[j] = work[j]
        /\ \/ Task' = Put(IF whole THEN "ok" ELSE "bad")
           \/ Task' = [Put("bad") EXCEPT !.failed = TRUE]
           \/ Task' = [Task EXCEPT !.panicked = TRUE]
    BY <1>0, <1>4 DEF Write
  <2>2. \A v : Put(v) \in {[Task EXCEPT !.gu[i] = v], [Task EXCEPT !.hs[i] = v], [Task EXCEPT !.ys[i] = v]}
    BY <1>a
  <2>3. CASE Task' = Put("ok")
    <3>1. Clean(Task) => Clean(Task')
      BY <2>2, <2>3, <1>a DEF Clean, RowsOf
    <3>2. Task'.failed = Task.failed /\ Task'.outcome = Task.outcome
      BY <2>2, <2>3, <1>a DEF RowsOf
    <3> QED BY <1>a, <1>b, <2>1, <3>1, <3>2
  <2>4. CASE Task' = Put("bad") /\ ~whole
    <3>1. ~Clean(Task)
      <4>1. PICK p \in 1..3 : InPhase(p) /\ UpWritten(p) /\ Quantized(p) /\ DownWritten(p)
        BY <1>0 DEF RowInv, RowInPhase
      <4>2. phase[m] = p
        BY <1>0, <2>1, <4>1 DEF InPhase, MemberIn
      <4>3. CASE p = 1
        BY <2>4, <4>2, <4>3
      <4>4. CASE p = 2
        <5>1. i < Task.misses /\ \A c \in DOMAIN Task.gu : Task.gu[c] # "raw"
          BY <1>0, <2>1, <4>1, <4>4 DEF Quantized, HsMine, UpWritten
        <5>2. DOMAIN Task.gu = 0..(Task.misses * UpChunks - 1) /\ \A c \in DOMAIN Task.gu : Task.gu[c] \in Chunk
          BY <1>a DEF RowsOf
        <5>3. /\ \A c \in (i * UpChunks)..((i + 1) * UpChunks - 1) : c \in DOMAIN Task.gu
              /\ i * UpChunks \in (i * UpChunks)..((i + 1) * UpChunks - 1)
          BY <5>1, <5>2, <1>a, ChunkOfMiss, TeamAssumption
        <5>4. UpOf(Task, i) # {"ok"}
          BY <2>4, <4>2, <4>4
        <5>5. PICK c \in (i * UpChunks)..((i + 1) * UpChunks - 1) : Task.gu[c] # "ok"
          BY <5>3, <5>4 DEF UpOf
        <5> QED BY <5>1, <5>2, <5>3, <5>5 DEF Clean, Chunk
      <4>5. CASE p = 3
        <5>1. i \in DOMAIN Task.ys /\ \A k \in DOMAIN Task.hs : Task.hs[k] # "raw"
          BY <1>0, <2>1, <4>1, <4>5 DEF DownWritten, YsMine, Quantized
        <5>2. /\ DOMAIN Task.ys = 0..(Task.misses * DownChunks - 1) /\ DOMAIN Task.hs = 0..(Task.misses - 1)
              /\ \A k \in DOMAIN Task.hs : Task.hs[k] \in Chunk
          BY <1>a DEF RowsOf
        <5>3. i \div DownChunks \in DOMAIN Task.hs
          <6>1. DownChunks \in Nat \ {0} /\ Task.misses * DownChunks \in Nat
            BY <1>a, TeamAssumption
          <6>2. i < Task.misses * DownChunks
            BY <5>1, <5>2, <6>1, <1>a
          <6> QED BY <5>2, <6>1, <6>2, <1>a, MissOfChunk
        <5>4. Task.hs[i \div DownChunks] # "ok"
          BY <2>4, <4>2, <4>5
        <5> QED BY <5>1, <5>2, <5>3, <5>4 DEF Clean, Chunk
      <4> QED BY <4>3, <4>4, <4>5
    <3>2. Task'.failed = Task.failed /\ Task'.outcome = Task.outcome
      BY <2>2, <2>4, <1>a DEF RowsOf
    <3> QED BY <1>a, <1>b, <2>1, <3>1, <3>2
  <2>5. CASE Task' = [Put("bad") EXCEPT !.failed = TRUE]
    <3> HIDE DEF Put
    <3>1. Task'.failed
      BY <2>2, <2>5, <1>a DEF RowsOf
    <3> QED BY <1>b, <2>1, <3>1
  <2>6. CASE Task' = [Task EXCEPT !.panicked = TRUE]
    <3>1. Task'.gu = Task.gu /\ Task'.hs = Task.hs /\ Task'.ys = Task.ys
          /\ Task'.failed = Task.failed /\ Task'.outcome = Task.outcome
      BY <2>6, <1>a DEF RowsOf
    <3> QED BY <1>a, <1>b, <2>1, <3>1 DEF Clean
  <2> QED BY <2>1, <2>3, <2>4, <2>5, <2>6
<1> QED BY <1>1, <1>2, <1>3, <1>4 DEF Step

(* A number is its quotient and its remainder.                             *)
LEMMA Quotient ==
    ASSUME NEW n \in Nat \ {0}, NEW k \in Nat
    PROVE  \E q \in Nat, j \in 0..(n - 1) : k = q * n + j /\ j = k % n
<1> DEFINE q == k \div n
           j == k % n
<1>1. q \in Nat /\ j \in 0..(n - 1)
  BY SMT
<1>2. k = q * n + j
  BY Z3
<1> HIDE DEF q
<1> QED BY <1>1, <1>2

(* The remainder of what is put together from one.                         *)
LEMMA Remainder ==
    ASSUME NEW n \in Nat \ {0}, NEW i \in Nat, NEW j \in 0..(n - 1)
    PROVE  (i * n + j) % n = j
<1> DEFINE b == i * n + j
<1>1. b \in Nat /\ b = n * i + j
  OBVIOUS
<1> HIDE DEF b
<1>2. b % n = j
  BY <1>1, SMT
<1> QED BY <1>2 DEF b

(* The misses a member quantizes: its index and every n-th after it.       *)
LEMMA Stride ==
    ASSUME NEW n \in Nat \ {0}, NEW a \in Nat, NEW k \in Nat
    PROVE  /\ (a + n) % n = a % n
           /\ k % n = a % n /\ a <= k /\ k # a => a + n <= k
           /\ k \in 0..(n - 1) => k % n = k
           /\ k % n \in 0..(n - 1) /\ k % n <= k
<1>1. PICK q \in Nat, j \in 0..(n - 1) : k = q * n + j /\ j = k % n
  BY Quotient
<1>2. PICK r \in Nat, i \in 0..(n - 1) : a = r * n + i /\ i = a % n
  BY Quotient
<1>3. (a + n) % n = a % n
  <2>1. (r + 1) * n = r * n + n /\ r * n \in Nat
    OBVIOUS
  <2>2. a = r * n + i
    BY <1>2
  <2>3. a + n = (r + 1) * n + i
    BY <2>1, <2>2
  <2>4. ((r + 1) * n + i) % n = i
    BY Remainder
  <2> QED BY <1>2, <2>3, <2>4
<1>4. ASSUME k % n = a % n, a <= k, k # a PROVE a + n <= k
  <2>1. i = j
    BY <1>1, <1>2, <1>4
  <2>2. k - a = (q - r) * n
    <3>1. k = q * n + i /\ a = r * n + i
      BY <1>1, <1>2, <2>1
    <3>2. (q - r) * n = q * n - r * n /\ q * n \in Nat /\ r * n \in Nat
      OBVIOUS
    <3> QED BY <3>1, <3>2
  <2>3. CASE q - r <= 0
    <3>1. (r - q) \in Nat /\ (r - q) * n \in Nat /\ k - a = -((r - q) * n)
      BY <2>2, <2>3
    <3> QED BY <3>1, <1>4
  <2>4. CASE q - r >= 1
    <3>1. (q - r - 1) * n \in Nat /\ (q - r) * n = (q - r - 1) * n + n
      BY <2>4
    <3> QED BY <2>2, <3>1
  <2> QED BY <2>3, <2>4
<1>5. k \in 0..(n - 1) => k % n = k
  OBVIOUS
<1>6. k % n \in 0..(n - 1) /\ k % n <= k
  BY SMT
<1> QED BY <1>3, <1>4, <1>5, <1>6

(* Steps that neither claim nor write nor open the barrier.                *)
LEMMA PhaseSteps ==
    ASSUME Types, TeamInv, CrewInv, RowInv, NEW m \in Members,
           Report(m) \/ Enter(m) \/ Arrive(m) \/ Held(m) \/ Leave(m) \/ Sum(m) \/ Raise(m)
    PROVE  RowInPhase'
<1>0. /\ m \in Crew /\ OthersStay(m) /\ Crew \subseteq Members
      /\ Active /\ Active' /\ UNCHANGED <<Crew, CrewSize, Cur, CallerIn, Index(m)>> /\ Cur \in Jobs
      /\ mine[m].index = Index(m) /\ W(m) = Task /\ ~Done(m) /\ ~Late(m)
      /\ \A w : SetWork(m, w) => Task' = w
  BY StepFrame DEF OthersStay, Step
<1>1. PICK p \in 1..3 : InPhase(p) /\ UpWritten(p) /\ Quantized(p) /\ DownWritten(p)
  BY <1>0 DEF RowInv, RowInPhase
<1>2. MemberIn(m, p)
  BY <1>0, <1>1 DEF InPhase
<1>3. Task \in RowsOf(Task.misses)
  BY <1>0, TaskShape
<1>4. CASE Report(m)
  <2>1. Done(m)' /\ pc[m] = "report" /\ ~Busy(m)' /\ UNCHANGED <<work, arrived, generation>>
    BY <1>4, ReportIsDone
  <2>2. Task' = Task
    BY <1>0, <2>1 DEF Task
  <2>3. Gone(m) /\ Gone(m)' /\ ~Late(m)' /\ ~Waiting(m)' /\ \A c : ~HasToQuantize(m, c)
    BY <2>1 DEF Gone, Late, Waiting, Busy, HasToQuantize
  <2>4. MemberIn(m, p)'
    BY <1>2, <2>1, <2>2, <2>3 DEF MemberIn, Busy
  <2> QED BY <1>0, <1>1, <2>1, <2>2, <2>3, <2>4, PhaseKept DEF Busy
<1>5. CASE Leave(m) \/ Sum(m) \/ Raise(m)
  <2>1. /\ pc[m] \in {"leave", "sum", "raise"} /\ pc'[m] \in {"sum", "raise", "report"}
        /\ generation' = generation
        /\ Task' \in {Task, [Task EXCEPT !.left = @ + 1],
                      [Task EXCEPT !.outcome = Verdict(Task.failed), !.failed = FALSE]}
    BY <1>0, <1>5 DEF Leave, Sum, Raise, Go, Types, MemberTypes, barrierVars, Task
  <2>2. /\ Task'.misses = Task.misses /\ Task'.first = Task.first /\ Task'.second = Task.second
        /\ Task'.gu = Task.gu /\ Task'.hs = Task.hs /\ Task'.ys = Task.ys
        /\ Task'.panicked = Task.panicked
    BY <2>1, <1>3 DEF RowsOf
  <2>3. Gone(m) /\ Gone(m)' /\ ~Late(m)' /\ ~Waiting(m)' /\ \A c : ~HasToQuantize(m, c)
    BY <2>1 DEF Gone, Late, Busy, Waiting, HasToQuantize
  <2>4. MemberIn(m, p)'
    BY <1>2, <2>1, <2>2, <2>3 DEF MemberIn
  <2> QED BY <1>0, <1>1, <2>1, <2>2, <2>3, <2>4, PhaseKept
<1>6. CASE Enter(m) \/ Arrive(m)
  <2>1. /\ pc[m] \in {"enter", "arrive"} /\ pc'[m] \in {"arrive", "open", "held"}
        /\ UNCHANGED <<generation, work, phase>>
        /\ pc'[m] = "held" => pc[m] = "arrive" /\ turn'[m] = turn[m]
    BY <1>6 DEF Enter, Arrive, Go, Types, MemberTypes
  <2>2. Task' = Task
    BY <1>0, <2>1 DEF Task
  <2>3. ~Gone(m) /\ ~Gone(m)' /\ ~Late(m)' /\ \A c : ~HasToQuantize(m, c)
    <3>1. ~Done(m) /\ ~Done(m)'
      BY <2>1 DEF Done, ThroughJob, Quiet
    <3> QED BY <2>1, <3>1 DEF Gone, Late, Busy, HasToQuantize
  <2>4. pc[m] = "arrive" => turn[m] = generation
    BY DEF CrewInv, BarrierCounts
  <2>5. MemberIn(m, p)'
    BY <1>2, <2>1, <2>2, <2>3, <2>4 DEF MemberIn
  <2> QED BY <1>0, <1>1, <2>1, <2>2, <2>3, <2>5, PhaseKept
<1>7. CASE Held(m)
  <2>1. /\ pc[m] = "held" /\ pc'[m] = "claim" /\ generation # turn[m]
        /\ UNCHANGED <<generation, work>> /\ phase'[m] = phase[m] + 1
        /\ at'[m] = IF phase[m] = 1 THEN Index(m) ELSE 0
    BY <1>0, <1>7 DEF Held, Through, Go, Types, MemberTypes
  <2>2. Task' = Task
    BY <1>0, <2>1 DEF Task
  <2>3. ~Gone(m) /\ ~Gone(m)' /\ ~Late(m)' /\ ~Waiting(m)'
    <3>1. ~Done(m) /\ ~Done(m)'
      BY <2>1 DEF Done, ThroughJob, Quiet
    <3> QED BY <2>1, <3>1 DEF Gone, Late, Busy, Waiting
  <2>4. phase[m] + 1 = p
    BY <1>2, <2>1 DEF MemberIn
  <2>5. MemberIn(m, p)'
    BY <1>2, <2>1, <2>2, <2>3, <2>4 DEF MemberIn
  <2>6. ASSUME p = 2 PROVE /\ \A c \in DOMAIN Task.hs : HasToQuantize(m, c) => HasToQuantize(m, c)'
                           /\ at'[m] % CrewSize = Index(m)
    <3>1. phase[m] = 1 /\ at'[m] = Index(m)
      BY <2>1, <2>4, <2>6 DEF Types, MemberTypes
    <3>2. CrewSize \in Nat \ {0} /\ Index(m) \in 0..(CrewSize - 1)
      BY <1>0, CrewFacts
    <3>3. at'[m] % CrewSize = Index(m)
      BY <3>1, <3>2, Stride
    <3>4. ASSUME NEW c \in DOMAIN Task.hs, HasToQuantize(m, c) PROVE HasToQuantize(m, c)'
      <4>1. c % CrewSize = Index(m)
        BY <3>4 DEF HasToQuantize
      <4>2. c \in Nat
        BY <1>3, TaskShape, <1>0 DEF RowsOf
      <4>3. at'[m] <= c
        BY <3>1, <3>2, <4>1, <4>2, Stride
      <4> QED BY <1>0, <2>1, <4>1, <4>3 DEF HasToQuantize
    <3> QED BY <3>3, <3>4
  <2> QED BY <1>0, <1>1, <2>1, <2>2, <2>3, <2>5, <2>6, PhaseKept
<1> QED BY <1>4, <1>5, <1>6, <1>7

(* A member claims the next chunk or miss, or is done with the phase.      *)
LEMMA PhaseClaim ==
    ASSUME Types, TeamInv, CrewInv, RowInv, NEW m \in Members, Claim(m)
    PROVE  RowInPhase'
<1>0. /\ m \in Crew /\ OthersStay(m) /\ Crew \subseteq Members
      /\ Active /\ Active' /\ UNCHANGED <<Crew, CrewSize, Cur>> /\ Cur \in Jobs
      /\ W(m) = Task /\ ~Done(m) /\ \A k \in Crew : UNCHANGED Index(k)
      /\ \A w : SetWork(m, w) => Task' = w
  BY StepFrame DEF OthersStay, Step
<1>1. PICK p \in 1..3 : InPhase(p) /\ UpWritten(p) /\ Quantized(p) /\ DownWritten(p)
  BY <1>0 DEF RowInv, RowInPhase
<1>2. pc[m] = "claim" /\ phase[m] = p
  BY <1>0, <1>1 DEF Claim, InPhase, MemberIn
<1>3. /\ Task \in RowsOf(Task.misses) /\ Task.misses \in Nat /\ at[m] \in Nat
      /\ UpChunks \in Nat /\ DownChunks \in Nat
      /\ Task.misses * UpChunks \in Nat /\ Task.misses * DownChunks \in Nat
  <2>1. Task \in RowsOf(Task.misses) /\ Task.misses \in Nat
    BY <1>0, TaskShape
  <2>2. at[m] \in Nat
    BY DEF Types, MemberTypes
  <2>3. UpChunks \in Nat /\ DownChunks \in Nat
    BY TeamAssumption
  <2>4. Task.misses * UpChunks \in Nat /\ Task.misses * DownChunks \in Nat
    BY <2>1, <2>3
  <2> QED BY <2>1, <2>2, <2>3, <2>4
<1>4. generation' = generation /\ phase'[m] = phase[m]
  BY DEF Claim, barrierVars
<1> DEFINE i == CASE p = 1 -> Task.first [] p = 2 -> at[m] [] p = 3 -> Task.second
           n == CASE p = 1 -> Task.misses * UpChunks [] p = 2 -> Task.misses
                  [] p = 3 -> Task.misses * DownChunks
<1>5. /\ Task' = CASE p = 1 -> [Task EXCEPT !.first = i + 1] [] p = 2 -> Task
                   [] p = 3 -> [Task EXCEPT !.second = i + 1]
      /\ i < n => pc'[m] = "write" /\ at'[m] = i
      /\ ~(i < n) => pc'[m] = IF p < 3 THEN "enter" ELSE IF Task.to = "flag" THEN "leave" ELSE "report"
  <2>1. p \in {1, 2, 3}
    OBVIOUS
  <2> QED BY <1>0, <1>2, <2>1 DEF Claim, Go, Total, Types, MemberTypes
<1>6. /\ Task'.misses = Task.misses /\ Task'.gu = Task.gu /\ Task'.hs = Task.hs /\ Task'.ys = Task.ys
      /\ Task'.panicked = Task.panicked
      /\ Task'.first = IF p = 1 THEN Task.first + 1 ELSE Task.first
      /\ Task'.second = IF p = 3 THEN Task.second + 1 ELSE Task.second
      /\ Task.first \in Nat /\ Task.second \in Nat
      /\ DOMAIN Task.gu = 0..(Task.misses * UpChunks - 1)
      /\ DOMAIN Task.hs = 0..(Task.misses - 1)
      /\ DOMAIN Task.ys = 0..(Task.misses * DownChunks - 1)
  <2>1. /\ Task.first \in Nat /\ Task.second \in Nat
        /\ DOMAIN Task.gu = 0..(Task.misses * UpChunks - 1)
        /\ DOMAIN Task.hs = 0..(Task.misses - 1)
        /\ DOMAIN Task.ys = 0..(Task.misses * DownChunks - 1)
    BY <1>3 DEF RowsOf
  <2>2. CASE p = 1
    <3>1. Task' = [Task EXCEPT !.first = Task.first + 1]
      BY <1>5, <2>2
    <3> QED BY <1>3, <2>1, <2>2, <3>1 DEF RowsOf
  <2>3. CASE p = 2
    <3>1. Task' = Task
      BY <1>5, <2>3
    <3> QED BY <2>1, <2>3, <3>1
  <2>4. CASE p = 3
    <3>1. Task' = [Task EXCEPT !.second = Task.second + 1]
      BY <1>5, <2>4
    <3> QED BY <1>3, <2>1, <2>4, <3>1 DEF RowsOf
  <2>5. p \in {1, 2, 3}
    OBVIOUS
  <2> QED BY <2>2, <2>3, <2>4, <2>5
<1>7. /\ ~Gone(m) /\ ~Waiting(m) /\ ~Late(m)'
      /\ pc'[m] \in {"write", "enter"} => ~Gone(m)' /\ ~Waiting(m)'
      /\ \A q, c : ~Writes(m, q, c)
  BY <1>0, <1>2, <1>5 DEF Gone, Waiting, Late, Busy, Writes, Done, ThroughJob, Quiet
<1>8. \A k \in Crew : k # m =>
          /\ MemberIn(k, p)' /\ UNCHANGED <<Gone(k), Waiting(k)>>
          /\ \A q, c : UNCHANGED <<Writes(k, q, c), HasToQuantize(k, c)>>
          /\ pc'[k] \in {"claim", "write", "enter", "arrive"} => pc[k] = pc'[k] /\ at'[k] = at[k]
  <2> SUFFICES ASSUME NEW k \in Crew, k # m
      PROVE  /\ MemberIn(k, p)' /\ UNCHANGED <<Gone(k), Waiting(k)>>
             /\ \A q, c : UNCHANGED <<Writes(k, q, c), HasToQuantize(k, c)>>
             /\ pc'[k] \in {"claim", "write", "enter", "arrive"} => pc[k] = pc'[k] /\ at'[k] = at[k]
    OBVIOUS
  <2>1. MemberIn(k, p)
    BY <1>1 DEF InPhase
  <2>2. MemberIn(k, p)'
    BY <1>0, <1>4, <1>6, <2>1, OthersInPhase
  <2> QED BY <1>0, <1>4, <2>2, OthersKept, OthersWait
<1>9. MemberIn(m, p)'
  BY <1>2, <1>4, <1>5, <1>7 DEF MemberIn, Gone
<1>10. \A k \in Crew : MemberIn(k, p)'
  BY <1>8, <1>9
<1>11. Lost => Lost'
  BY <1>0, <1>7, <1>8 DEF Lost
<1> HIDE DEF i, n
<1>12. CASE p = 1
  <2>1. i = Task.first /\ n = Task.misses * UpChunks
    BY <1>12 DEF i, n
  <2>2. /\ UpFresh /\ UpHeld
        /\ \A k \in Crew : UpSpent(k) /\ UpMine(k)
        /\ \A k, l \in Crew : UpApart(k, l)
    BY <1>1, <1>12 DEF UpWritten
  <2>3. UpFresh'
    BY <1>6, <1>12, <2>2 DEF UpFresh
  <2>4. UpHeld'
    <3> SUFFICES ASSUME NEW c \in 0..(Task.misses * UpChunks - 1), Task.gu[c] = "raw", c < Task.first + 1
                 PROVE  Lost' \/ \E k \in Crew' : Writes(k, 1, c)'
      BY <1>6, <1>12 DEF UpHeld
    <3>1. CASE c = Task.first
      <4>1. pc'[m] = "write" /\ at'[m] = c
        BY <1>3, <1>5, <2>1, <3>1
      <4>2. Writes(m, 1, c)'
        BY <1>2, <1>4, <1>12, <4>1 DEF Writes
      <4> QED BY <4>2, <1>0
    <3>2. CASE c < Task.first
      <4>1. Lost \/ \E k \in Crew : Writes(k, 1, c)
        BY <1>6, <2>2, <3>2 DEF UpHeld
      <4> QED BY <1>0, <1>7, <1>8, <1>11, <4>1
    <3> QED BY <1>6, <3>1, <3>2
  <2>5. \A k \in Crew : k # m => UpSpent(k)' /\ UpMine(k)'
    <3> SUFFICES ASSUME NEW k \in Crew, k # m PROVE UpSpent(k)' /\ UpMine(k)'
      OBVIOUS
    <3>1. UpSpent(k) /\ UpMine(k) /\ UNCHANGED Waiting(k)
          /\ (pc'[k] \in {"claim", "write", "enter", "arrive"} => pc[k] = pc'[k] /\ at'[k] = at[k])
      BY <1>8, <2>2
    <3>2. ASSUME pc'[k] = "write" PROVE at'[k] < Task'.first /\ at'[k] \in DOMAIN Task'.gu /\ Task'.gu[at'[k]] = "raw"
      <4>1. at'[k] < Task.first /\ at'[k] \in DOMAIN Task.gu /\ Task.gu[at'[k]] = "raw"
        BY <3>1, <3>2 DEF UpMine
      <4>2. at'[k] \in Int
        BY <1>6, <4>1
      <4> QED BY <1>6, <1>12, <4>1, <4>2
    <3>3. ASSUME Waiting(k)' \/ pc'[k] \in {"enter", "arrive"} PROVE Task'.first >= Task'.misses * UpChunks
      <4>1. Task.first >= Task.misses * UpChunks
        BY <3>1, <3>3 DEF UpSpent
      <4> QED BY <1>3, <1>6, <1>12, <4>1
    <3> QED BY <3>2, <3>3 DEF UpSpent, UpMine
  <2>6. UpSpent(m)'
    <3> SUFFICES ASSUME Waiting(m)' \/ pc'[m] \in {"enter", "arrive"} PROVE Task'.first >= Task'.misses * UpChunks
      BY DEF UpSpent
    <3>1. ~(i < n)
      BY <1>5, <1>7
    <3>2. Task.first >= Task.misses * UpChunks
      BY <1>3, <1>6, <2>1, <3>1
    <3> QED BY <1>3, <1>6, <1>12, <3>2
  <2>7. UpMine(m)'
    <3> SUFFICES ASSUME pc'[m] = "write" PROVE at'[m] < Task'.first /\ at'[m] \in DOMAIN Task'.gu /\ Task'.gu[at'[m]] = "raw"
      BY DEF UpMine
    <3>1. at'[m] = Task.first /\ Task.first < Task.misses * UpChunks
      BY <1>5, <1>12, <2>1
    <3>2. Task.first \in DOMAIN Task.gu
      <4>1. Task.first \in Nat /\ Task.misses * UpChunks \in Nat
            /\ DOMAIN Task.gu = 0..(Task.misses * UpChunks - 1)
        BY <1>3, <1>6
      <4> QED BY <3>1, <4>1
    <3>3. Task.gu[Task.first] = "raw"
      BY <1>6, <2>2, <3>2 DEF UpFresh
    <3> QED BY <1>6, <1>12, <3>1, <3>2, <3>3
  <2>8. \A k, l \in Crew : UpApart(k, l)'
    <3>1. pc'[m] = "write" => at'[m] = Task.first
      BY <1>5, <1>12, <2>1
    <3>2. \A k \in Crew : k # m /\ pc'[k] = "write" => pc[k] = "write" /\ at'[k] = at[k] /\ at'[k] < Task.first
      BY <1>8, <2>2 DEF UpMine
    <3>3. \A k \in Crew : k # m => ~(pc'[m] = "write" /\ pc'[k] = "write" /\ at'[k] = at'[m])
      BY <1>6, <3>1, <3>2
    <3> QED BY <2>2, <3>2, <3>3 DEF UpApart
  <2>9. UpWritten(1)' /\ Quantized(1)' /\ DownWritten(1)'
    BY <1>0, <1>1, <1>6, <1>12, <2>3, <2>4, <2>5, <2>6, <2>7, <2>8 DEF UpWritten, Quantized, DownWritten
  <2> QED BY <1>0, <1>10, <1>12, <2>9 DEF RowInPhase, InPhase
<1>13. CASE p = 2
  <2>1. i = at[m] /\ n = Task.misses
    BY <1>13 DEF i, n
  <2>2. HsHeld /\ \A k \in Crew : HsMine(k)
    BY <1>1, <1>13 DEF Quantized
  <2>3. HsHeld'
    <3> SUFFICES ASSUME NEW c \in 0..(Task.misses - 1), Task.hs[c] = "raw"
                 PROVE  Lost' \/ \E k \in Crew' : HasToQuantize(k, c)'
      BY <1>6 DEF HsHeld
    <3>1. Lost \/ \E k \in Crew : HasToQuantize(k, c)
      BY <1>6, <2>2 DEF HsHeld
    <3>2. HasToQuantize(m, c) => HasToQuantize(m, c)'
      BY <1>0, <1>2, <1>3, <1>5, <2>1 DEF HasToQuantize
    <3> QED BY <1>0, <1>8, <1>11, <3>1, <3>2
  <2>4. HsMine(m)'
    BY <1>0, <1>2, <1>5, <1>6, <1>13, <2>1, <2>2 DEF HsMine
  <2>5. \A k \in Crew : k # m => HsMine(k)'
    BY <1>0, <1>6, <1>8, <2>2 DEF HsMine
  <2>6. UpWritten(2)' /\ Quantized(2)' /\ DownWritten(2)'
    BY <1>0, <1>1, <1>6, <1>13, <2>3, <2>4, <2>5 DEF UpWritten, Quantized, DownWritten
  <2> QED BY <1>0, <1>10, <1>13, <2>6 DEF RowInPhase, InPhase
<1>14. CASE p = 3
  <2>1. i = Task.second /\ n = Task.misses * DownChunks
    BY <1>14 DEF i, n
  <2>2. YsHeld /\ \A k \in Crew : YsMine(k)
    BY <1>1, <1>14 DEF DownWritten
  <2>3. YsHeld'
    <3> SUFFICES ASSUME NEW c \in 0..(Task.misses * DownChunks - 1), Task.ys[c] = "raw", c < Task.second + 1
                 PROVE  Task'.panicked \/ \E k \in Crew' : Writes(k, 3, c)'
      BY <1>6, <1>14 DEF YsHeld
    <3>1. CASE c = Task.second
      <4>1. pc'[m] = "write" /\ at'[m] = c
        BY <1>3, <1>5, <2>1, <3>1
      <4>2. Writes(m, 3, c)'
        BY <1>2, <1>4, <1>14, <4>1 DEF Writes
      <4> QED BY <4>2, <1>0
    <3>2. CASE c < Task.second
      <4>1. Task.panicked \/ \E k \in Crew : Writes(k, 3, c)
        BY <1>6, <2>2, <3>2 DEF YsHeld
      <4> QED BY <1>0, <1>6, <1>7, <1>8, <4>1
    <3> QED BY <1>6, <3>1, <3>2
  <2>4. \A k \in Crew : k # m => YsMine(k)'
    <3> SUFFICES ASSUME NEW k \in Crew, k # m PROVE YsMine(k)'
      OBVIOUS
    <3>1. YsMine(k) /\ UNCHANGED Gone(k) /\ (pc'[k] = "write" => pc[k] = pc'[k] /\ at'[k] = at[k])
      BY <1>8, <2>2
    <3>2. Gone(k)' => Task'.panicked \/ Task'.second >= Task'.misses * DownChunks
      BY <1>3, <1>6, <1>14, <3>1 DEF YsMine
    <3> QED BY <1>6, <3>1, <3>2 DEF YsMine
  <2>5. YsMine(m)'
    <3>1. CASE i < n
      <4>1. pc'[m] = "write" /\ at'[m] = i /\ ~Gone(m)'
        BY <1>5, <1>7, <3>1
      <4> QED BY <1>3, <1>6, <1>14, <2>1, <3>1, <4>1 DEF YsMine
    <3>2. CASE ~(i < n)
      <4>1. Task.second >= Task.misses * DownChunks
        BY <1>3, <1>6, <2>1, <3>2
      <4>2. Task'.second >= Task'.misses * DownChunks
        BY <1>3, <1>6, <1>14, <4>1
      <4>3. pc'[m] # "write"
        BY <1>5, <3>2
      <4> QED BY <4>2, <4>3 DEF YsMine
    <3> QED BY <3>1, <3>2
  <2>6. UpWritten(3)' /\ Quantized(3)' /\ DownWritten(3)'
    BY <1>0, <1>1, <1>6, <1>14, <2>3, <2>4, <2>5 DEF UpWritten, Quantized, DownWritten
  <2> QED BY <1>0, <1>10, <1>14, <2>6 DEF RowInPhase, InPhase
<1> QED BY <1>12, <1>13, <1>14

(* A member writes its chunk and goes on, or dies over it.                 *)
LEMMA PhaseWrite ==
    ASSUME Types, TeamInv, CrewInv, RowInv, NEW m \in Members, Write(m)
    PROVE  RowInPhase'
<1>0. /\ m \in Crew /\ OthersStay(m) /\ Crew \subseteq Members
      /\ Active /\ Active' /\ UNCHANGED <<Crew, CrewSize, Cur>> /\ Cur \in Jobs
      /\ W(m) = Task /\ ~Done(m) /\ \A k \in Crew : UNCHANGED Index(k)
      /\ \A w : SetWork(m, w) => Task' = w
      /\ mine[m].size = CrewSize /\ CrewSize \in Nat \ {0}
  BY StepFrame, CrewFacts DEF OthersStay, Step
<1>1. PICK p \in 1..3 : InPhase(p) /\ UpWritten(p) /\ Quantized(p) /\ DownWritten(p)
  BY <1>0 DEF RowInv, RowInPhase
<1>2. pc[m] = "write" /\ phase[m] = p
  BY <1>0, <1>1 DEF Write, InPhase, MemberIn
<1>3. /\ Task \in RowsOf(Task.misses) /\ Task.misses \in Nat /\ at[m] \in Nat
      /\ p \in {1, 2, 3}
  BY <1>0, TaskShape DEF Types, MemberTypes
<1>4. generation' = generation /\ phase'[m] = phase[m]
  BY DEF Write, barrierVars
<1>5. ~Gone(m) /\ ~Waiting(m) /\ ~Late(m)
  BY <1>0, <1>2 DEF Gone, Waiting, Late, Busy
<1> DEFINE i == at[m]
           Put(v) == CASE p = 1 -> [Task EXCEPT !.gu[i] = v]
                       [] p = 2 -> [Task EXCEPT !.hs[i] = v]
                       [] p = 3 -> [Task EXCEPT !.ys[i] = v]
<1>6. \/ /\ \E v \in {"ok", "bad"} : Task' = Put(v) \/ Task' = [Put(v) EXCEPT !.failed = TRUE]
         /\ pc'[m] = "claim"
         /\ at'[m] = IF p = 2 THEN i + CrewSize ELSE 0
      \/ /\ Task' = [Task EXCEPT !.panicked = TRUE]
         /\ pc'[m] \in {"leave", "report"}
  BY <1>0, <1>2 DEF Write, Go, Types, MemberTypes
<1>7. CASE Task' = [Task EXCEPT !.panicked = TRUE] /\ pc'[m] \in {"leave", "report"}
  <2>1. /\ Task'.misses = Task.misses /\ Task'.first = Task.first /\ Task'.second = Task.second
        /\ Task'.gu = Task.gu /\ Task'.hs = Task.hs /\ Task'.ys = Task.ys
        /\ Task'.panicked
    BY <1>3, <1>7 DEF RowsOf
  <2>2. Gone(m)' /\ ~Waiting(m)' /\ ~Late(m)'
    BY <1>7 DEF Gone, Waiting, Late, Busy
  <2>3. MemberIn(m, p)'
    BY <1>7, <2>1, <2>2 DEF MemberIn
  <2> QED BY <1>0, <1>1, <1>4, <1>5, <1>7, <2>1, <2>2, <2>3, PhaseKept
<1>8. CASE /\ \E v \in {"ok", "bad"} : Task' = Put(v) \/ Task' = [Put(v) EXCEPT !.failed = TRUE]
           /\ pc'[m] = "claim"
           /\ at'[m] = IF p = 2 THEN i + CrewSize ELSE 0
  <2>1. PICK v \in {"ok", "bad"} : Task' = Put(v) \/ Task' = [Put(v) EXCEPT !.failed = TRUE]
    BY <1>8
  <2>2. /\ Task'.misses = Task.misses /\ Task'.first = Task.first /\ Task'.second = Task.second
        /\ Task'.panicked = Task.panicked
        /\ Task'.gu = IF p = 1 THEN [Task.gu EXCEPT ![i] = v] ELSE Task.gu
        /\ Task'.hs = IF p = 2 THEN [Task.hs EXCEPT ![i] = v] ELSE Task.hs
        /\ Task'.ys = IF p = 3 THEN [Task.ys EXCEPT ![i] = v] ELSE Task.ys
    <3>1. CASE p = 1
      <4>1. Task' \in {[Task EXCEPT !.gu[i] = v], [[Task EXCEPT !.gu[i] = v] EXCEPT !.failed = TRUE]}
        BY <2>1, <3>1
      <4>2. /\ Task'.misses = Task.misses /\ Task'.first = Task.first /\ Task'.second = Task.second
            /\ Task'.panicked = Task.panicked /\ Task'.hs = Task.hs /\ Task'.ys = Task.ys
        BY <1>3, <4>1 DEF RowsOf
      <4>3. Task'.gu = [Task.gu EXCEPT ![i] = v]
        BY <1>3, <4>1 DEF RowsOf
      <4> QED BY <3>1, <4>2, <4>3
    <3>2. CASE p = 2
      <4>1. Task' \in {[Task EXCEPT !.hs[i] = v], [[Task EXCEPT !.hs[i] = v] EXCEPT !.failed = TRUE]}
        BY <2>1, <3>2
      <4>2. /\ Task'.misses = Task.misses /\ Task'.first = Task.first /\ Task'.second = Task.second
            /\ Task'.panicked = Task.panicked /\ Task'.gu = Task.gu /\ Task'.ys = Task.ys
        BY <1>3, <4>1 DEF RowsOf
      <4>3. Task'.hs = [Task.hs EXCEPT ![i] = v]
        BY <1>3, <4>1 DEF RowsOf
      <4> QED BY <3>2, <4>2, <4>3
    <3>3. CASE p = 3
      <4>1. Task' \in {[Task EXCEPT !.ys[i] = v], [[Task EXCEPT !.ys[i] = v] EXCEPT !.failed = TRUE]}
        BY <2>1, <3>3
      <4>2. /\ Task'.misses = Task.misses /\ Task'.first = Task.first /\ Task'.second = Task.second
            /\ Task'.panicked = Task.panicked /\ Task'.gu = Task.gu /\ Task'.hs = Task.hs
        BY <1>3, <4>1 DEF RowsOf
      <4>3. Task'.ys = [Task.ys EXCEPT ![i] = v]
        BY <1>3, <4>1 DEF RowsOf
      <4> QED BY <3>3, <4>2, <4>3
    <3> QED BY <1>3, <3>1, <3>2, <3>3
  <2>3. /\ DOMAIN Task.gu = 0..(Task.misses * UpChunks - 1)
        /\ DOMAIN Task.hs = 0..(Task.misses - 1)
        /\ DOMAIN Task.ys = 0..(Task.misses * DownChunks - 1)
        /\ DOMAIN Task'.gu = DOMAIN Task.gu /\ DOMAIN Task'.hs = DOMAIN Task.hs
        /\ DOMAIN Task'.ys = DOMAIN Task.ys
    BY <1>3, <2>2 DEF RowsOf
  <2> HIDE DEF Put
  <2>4. ~Gone(m)' /\ ~Waiting(m)' /\ ~Late(m)'
    BY <1>8 DEF Gone, Waiting, Late, Busy, Done, ThroughJob, Quiet
  <2>5. \A k \in Crew : k # m =>
            /\ MemberIn(k, p)' /\ UNCHANGED <<Gone(k), Waiting(k)>>
            /\ \A q, c : UNCHANGED <<Writes(k, q, c), HasToQuantize(k, c)>>
            /\ pc'[k] \in {"claim", "write", "enter", "arrive"} => pc[k] = pc'[k] /\ at'[k] = at[k]
    <3> SUFFICES ASSUME NEW k \in Crew, k # m
        PROVE  /\ MemberIn(k, p)' /\ UNCHANGED <<Gone(k), Waiting(k)>>
               /\ \A q, c : UNCHANGED <<Writes(k, q, c), HasToQuantize(k, c)>>
               /\ pc'[k] \in {"claim", "write", "enter", "arrive"} => pc[k] = pc'[k] /\ at'[k] = at[k]
      OBVIOUS
    <3>1. MemberIn(k, p)
      BY <1>1 DEF InPhase
    <3>2. MemberIn(k, p)'
      BY <1>0, <1>4, <2>2, <3>1, OthersInPhase
    <3> QED BY <1>0, <1>4, <3>2, OthersKept, OthersWait
  <2>6. MemberIn(m, p)'
    BY <1>2, <1>4, <1>8, <2>4 DEF MemberIn
  <2>7. \A k \in Crew : MemberIn(k, p)'
    BY <2>5, <2>6
  <2>8. Lost => Lost'
    BY <1>0, <1>5, <2>5 DEF Lost
  <2>9. CASE p = 1
    <3>1. /\ UpFresh /\ UpHeld
          /\ \A k \in Crew : UpSpent(k) /\ UpMine(k)
          /\ \A k, l \in Crew : UpApart(k, l)
      BY <1>1, <2>9 DEF UpWritten
    <3>2. /\ i < Task.first /\ i \in DOMAIN Task.gu
          /\ \A c \in DOMAIN Task.gu : Task'.gu[c] = IF c = i THEN v ELSE Task.gu[c]
      BY <1>0, <1>2, <2>2, <2>9, <3>1 DEF UpMine
    <3>3. Task.first \in Nat
      BY <1>3 DEF RowsOf
    <3>4. UpFresh'
      <4> SUFFICES ASSUME NEW c \in DOMAIN Task.gu, c >= Task.first PROVE Task'.gu[c] = "raw"
        BY <2>2, <2>3 DEF UpFresh
      <4>1. c # i /\ Task.gu[c] = "raw"
        BY <1>3, <3>1, <3>2, <3>3 DEF UpFresh
      <4> QED BY <3>2, <4>1
    <3>5. UpHeld'
      <4> SUFFICES ASSUME NEW c \in DOMAIN Task.gu, Task'.gu[c] = "raw", ~(c >= Task.first)
                   PROVE  Lost' \/ \E k \in Crew' : Writes(k, 1, c)'
        BY <2>2, <2>3 DEF UpHeld
      <4>1. c # i /\ Task.gu[c] = "raw"
        BY <3>2
      <4>2. Lost \/ \E k \in Crew : Writes(k, 1, c)
        BY <3>1, <4>1 DEF UpHeld
      <4>3. ~Writes(m, 1, c)
        BY <4>1 DEF Writes
      <4> QED BY <1>0, <2>5, <2>8, <4>2, <4>3
    <3>6. UpSpent(m)' /\ UpMine(m)'
      BY <1>8, <2>4 DEF UpSpent, UpMine
    <3>7. \A k \in Crew : k # m => UpSpent(k)' /\ UpMine(k)'
      <4> SUFFICES ASSUME NEW k \in Crew, k # m PROVE UpSpent(k)' /\ UpMine(k)'
        OBVIOUS
      <4>1. UpSpent(k) /\ UpMine(k) /\ UNCHANGED Waiting(k) /\ UpApart(k, m)
            /\ (pc'[k] \in {"claim", "write", "enter", "arrive"} => pc[k] = pc'[k] /\ at'[k] = at[k])
        BY <1>0, <2>5, <3>1
      <4>2. UpSpent(k)'
        BY <2>2, <4>1 DEF UpSpent
      <4>3. UpMine(k)'
        BY <1>2, <2>2, <2>3, <3>2, <4>1 DEF UpMine, UpApart
      <4> QED BY <4>2, <4>3
    <3>8. \A k, l \in Crew : UpApart(k, l)'
      <4>1. \A k \in Crew : pc'[k] = "write" => k # m
        BY <1>8
      <4>2. \A k \in Crew : pc'[k] = "write" => pc[k] = "write" /\ at'[k] = at[k]
        BY <2>5, <4>1
      <4> QED BY <3>1, <4>2 DEF UpApart
    <3>9. UpWritten(1)' /\ Quantized(1)' /\ DownWritten(1)'
      BY <1>0, <1>1, <2>2, <2>9, <3>4, <3>5, <3>6, <3>7, <3>8 DEF UpWritten, Quantized, DownWritten
    <3> QED BY <1>0, <2>7, <2>9, <3>9 DEF RowInPhase, InPhase
  <2>10. CASE p = 2
    <3>1. HsHeld /\ \A k \in Crew : HsMine(k)
      BY <1>1, <2>10 DEF Quantized
    <3>2. /\ i < Task.misses /\ i % CrewSize = Index(m)
          /\ \A c \in DOMAIN Task.hs : Task'.hs[c] = IF c = i THEN v ELSE Task.hs[c]
      BY <1>0, <1>2, <2>2, <2>10, <3>1 DEF HsMine
    <3>3. HsHeld'
      <4> SUFFICES ASSUME NEW c \in DOMAIN Task.hs, Task'.hs[c] = "raw"
                   PROVE  Lost' \/ \E k \in Crew' : HasToQuantize(k, c)'
        BY <2>3 DEF HsHeld
      <4>1. c # i /\ Task.hs[c] = "raw" /\ c \in Nat
        BY <1>3, <2>3, <3>2
      <4>2. Lost \/ \E k \in Crew : HasToQuantize(k, c)
        BY <3>1, <4>1 DEF HsHeld
      <4>3. ASSUME HasToQuantize(m, c) PROVE HasToQuantize(m, c)'
        <5>1. c % CrewSize = Index(m) /\ i <= c
          BY <1>2, <4>3 DEF HasToQuantize
        <5>2. c % CrewSize = i % CrewSize
          BY <3>2, <5>1
        <5>3. i + CrewSize <= c
          BY <1>0, <1>3, <4>1, <5>1, <5>2, Stride
        <5>4. at'[m] <= c
          BY <1>8, <2>10, <5>3
        <5> QED BY <1>0, <1>8, <5>1, <5>4 DEF HasToQuantize
      <4> QED BY <1>0, <2>5, <2>8, <4>2, <4>3
    <3>4. HsMine(m)'
      <4>1. (i + CrewSize) % CrewSize = i % CrewSize
        BY <1>0, <1>3, Stride
      <4> QED BY <1>0, <1>8, <2>10, <3>2, <4>1 DEF HsMine
    <3>5. \A k \in Crew : k # m => HsMine(k)'
      BY <1>0, <2>2, <2>5, <3>1 DEF HsMine
    <3>6. UpWritten(2)' /\ Quantized(2)' /\ DownWritten(2)'
      BY <1>0, <1>1, <2>2, <2>10, <3>3, <3>4, <3>5 DEF UpWritten, Quantized, DownWritten
    <3> QED BY <1>0, <2>7, <2>10, <3>6 DEF RowInPhase, InPhase
  <2>11. CASE p = 3
    <3>1. YsHeld /\ \A k \in Crew : YsMine(k)
      BY <1>1, <2>11 DEF DownWritten
    <3>2. \A c \in DOMAIN Task.ys : Task'.ys[c] = IF c = i THEN v ELSE Task.ys[c]
      BY <2>2, <2>11
    <3>3. YsHeld'
      <4> SUFFICES ASSUME NEW c \in DOMAIN Task.ys, Task'.ys[c] = "raw", ~(c >= Task.second), ~Task.panicked
                   PROVE  \E k \in Crew' : Writes(k, 3, c)'
        BY <2>2, <2>3 DEF YsHeld
      <4>1. c # i /\ Task.ys[c] = "raw"
        BY <3>2
      <4>2. \E k \in Crew : Writes(k, 3, c)
        BY <3>1, <4>1 DEF YsHeld
      <4>3. ~Writes(m, 3, c)
        BY <4>1 DEF Writes
      <4> QED BY <1>0, <2>5, <4>2, <4>3
    <3>4. YsMine(m)'
      BY <1>8, <2>4 DEF YsMine
    <3>5. \A k \in Crew : k # m => YsMine(k)'
      <4> SUFFICES ASSUME NEW k \in Crew, k # m PROVE YsMine(k)'
        OBVIOUS
      <4>1. YsMine(k) /\ UNCHANGED Gone(k) /\ (pc'[k] = "write" => pc[k] = pc'[k] /\ at'[k] = at[k])
        BY <2>5, <3>1
      <4> QED BY <2>2, <2>3, <4>1 DEF YsMine
    <3>6. UpWritten(3)' /\ Quantized(3)' /\ DownWritten(3)'
      BY <1>0, <1>1, <2>2, <2>11, <3>3, <3>4, <3>5 DEF UpWritten, Quantized, DownWritten
    <3> QED BY <1>0, <2>7, <2>11, <3>6 DEF RowInPhase, InPhase
  <2> QED BY <1>3, <2>9, <2>10, <2>11
<1> QED BY <1>6, <1>7, <1>8

(* The last to arrive opens the barrier: the whole crew is done with the   *)
(* phase, and the next begins.                                             *)
LEMMA PhaseOpen ==
    ASSUME Types, TeamInv, CrewInv, RowInv, NEW m \in Members, Open(m)
    PROVE  RowInPhase'
<1>0. /\ m \in Crew /\ OthersStay(m) /\ Crew \subseteq Members
      /\ Active /\ Active' /\ UNCHANGED <<Crew, CrewSize, Cur>> /\ Cur \in Jobs
      /\ mine[m].index = Index(m) /\ \A k \in Crew : UNCHANGED Index(k)
  BY StepFrame DEF OthersStay, Step
<1>a. /\ CrewSize \in Nat \ {0} /\ \A k \in Crew : Index(k) \in 0..(CrewSize - 1)
      /\ \A j \in 0..(CrewSize - 1) : \E k \in Crew : Index(k) = j
  BY <1>0, CrewFacts
<1>1. PICK p \in 1..3 : InPhase(p) /\ UpWritten(p) /\ Quantized(p) /\ DownWritten(p)
  BY <1>0 DEF RowInv, RowInPhase
<1>2. /\ pc[m] = "open" /\ pc'[m] = "claim" /\ generation' = generation + 1 /\ work' = work
      /\ phase'[m] = phase[m] + 1 /\ at'[m] = IF phase[m] = 1 THEN Index(m) ELSE 0
  BY <1>0 DEF Open, Through, Go, Types, MemberTypes
<1>3. /\ Task' = Task /\ Task \in RowsOf(Task.misses) /\ Task.misses \in Nat /\ generation \in Nat
      /\ Task.misses * UpChunks \in Nat
  BY <1>0, <1>2, TaskShape, TeamAssumption DEF Task, Types, BarrierTypes
<1>4. phase[m] = p /\ p \in {1, 2}
  BY <1>0, <1>1, <1>2 DEF InPhase, MemberIn
<1>5. \A k \in Crew : Waiting(k) /\ (pc[k] = "open" => k = m)
  BY <1>0, <1>2 DEF CrewInv, BarrierCounts
<1>6. \A k \in Crew : k # m => /\ pc[k] = "held" /\ pc'[k] = "held" /\ phase[k] = p
                               /\ phase'[k] = p /\ turn'[k] = generation
  <2> SUFFICES ASSUME NEW k \in Crew, k # m
               PROVE  /\ pc[k] = "held" /\ pc'[k] = "held" /\ phase[k] = p
                      /\ phase'[k] = p /\ turn'[k] = generation
    OBVIOUS
  <2>1. pc[k] = "held" /\ turn[k] = generation
    BY <1>5 DEF Waiting
  <2>2. MemberIn(k, p)
    BY <1>1 DEF InPhase
  <2>3. phase[k] = p
    BY <2>1, <2>2 DEF MemberIn
  <2>4. UNCHANGED <<pc[k], phase[k], turn[k]>>
    BY <1>0, <2>1, OthersKept DEF Busy
  <2> QED BY <2>1, <2>3, <2>4
<1>7. \A k \in Crew : /\ ~Gone(k) /\ ~Gone(k)' /\ ~Waiting(k)' /\ ~Late(k)'
                      /\ pc[k] \notin {"claim", "write"} /\ pc'[k] \notin {"write", "enter", "arrive", "open"}
  <2> SUFFICES ASSUME NEW k \in Crew
               PROVE  /\ ~Gone(k) /\ ~Gone(k)' /\ ~Waiting(k)' /\ ~Late(k)'
                      /\ pc[k] \notin {"claim", "write"} /\ pc'[k] \notin {"write", "enter", "arrive", "open"}
    OBVIOUS
  <2>1. pc[k] \in {"open", "held"} /\ pc'[k] \in {"claim", "held"}
        /\ (pc'[k] = "held" => turn'[k] = generation)
    BY <1>2, <1>6
  <2>2. turn'[k] = generation => turn'[k] # generation'
    BY <1>2, <1>3
  <2> QED BY <2>1, <2>2 DEF Gone, Done, ThroughJob, Quiet, Waiting, Late, Busy
<1>8. \A k \in Crew : MemberIn(k, p + 1)'
  <2> SUFFICES ASSUME NEW k \in Crew PROVE MemberIn(k, p + 1)'
    OBVIOUS
  <2>1. CASE k = m
    BY <1>2, <1>4, <1>7, <2>1 DEF MemberIn
  <2>2. CASE k # m
    <3>1. pc'[k] = "held" /\ turn'[k] # generation' /\ phase'[k] + 1 = p + 1
      BY <1>2, <1>3, <1>6, <2>2
    <3> QED BY <1>7, <3>1 DEF MemberIn
  <2> QED BY <2>1, <2>2
<1>9. ~Lost /\ ~Lost'
  BY <1>0, <1>7 DEF Lost
<1>10. CASE p = 1
  <2>1. \A c \in DOMAIN Task.gu : Task.gu[c] # "raw"
    <3> SUFFICES ASSUME NEW c \in DOMAIN Task.gu, Task.gu[c] = "raw" PROVE FALSE
      OBVIOUS
    <3>1. UpHeld /\ UpSpent(m)
      BY <1>0, <1>1, <1>10 DEF UpWritten
    <3>2. Task.first >= Task.misses * UpChunks
      BY <1>0, <1>5, <3>1 DEF UpSpent
    <3>3. c >= Task.first
      BY <1>7, <1>9, <3>1 DEF UpHeld, Writes
    <3>4. c \in 0..(Task.misses * UpChunks - 1) /\ Task.first \in Nat
      BY <1>3 DEF RowsOf
    <3> QED BY <1>3, <3>2, <3>3, <3>4
  <2>2. HsHeld'
    <3> SUFFICES ASSUME NEW c \in DOMAIN Task.hs PROVE \E k \in Crew : HasToQuantize(k, c)'
      BY <1>0, <1>3 DEF HsHeld
    <3>1. c \in Nat
      BY <1>3 DEF RowsOf
    <3>2. PICK r \in 0..(CrewSize - 1) : r = c % CrewSize /\ r <= c
      BY <1>a, <3>1, Stride
    <3>3. PICK k \in Crew : Index(k) = r
      BY <1>a
    <3>4. CASE k = m
      <4>1. at'[m] = r
        BY <1>2, <1>4, <1>10, <3>3, <3>4
      <4> QED BY <1>0, <1>2, <3>2, <3>3, <3>4, <4>1 DEF HasToQuantize
    <3>5. CASE k # m
      <4>1. pc'[k] = "held" /\ phase'[k] = 1
        BY <1>6, <1>10, <3>5
      <4> QED BY <1>0, <3>2, <3>3, <4>1 DEF HasToQuantize
    <3> QED BY <3>4, <3>5
  <2>3. \A k \in Crew : HsMine(k)'
    <3>1. Index(m) % CrewSize = Index(m)
      BY <1>0, <1>a, Stride
    <3>2. HsMine(m)'
      BY <1>0, <1>2, <1>4, <1>10, <3>1 DEF HsMine
    <3>3. \A k \in Crew : k # m => HsMine(k)'
      BY <1>6 DEF HsMine
    <3> QED BY <3>2, <3>3
  <2>4. UpWritten(2)' /\ Quantized(2)' /\ DownWritten(2)'
    BY <1>0, <1>1, <1>3, <1>10, <2>1, <2>2, <2>3 DEF UpWritten, Quantized, DownWritten
  <2>5. \A k \in Crew' : MemberIn(k, 2)'
    BY <1>0, <1>8, <1>10
  <2> QED BY <2>4, <2>5 DEF RowInPhase, InPhase
<1>11. CASE p = 2
  <2>1. \A c \in DOMAIN Task.hs : Task.hs[c] # "raw"
    <3>1. HsHeld /\ \A k \in Crew : phase[k] = 2
      BY <1>1, <1>4, <1>6, <1>11 DEF Quantized
    <3>2. \A k \in Crew : \A c : ~HasToQuantize(k, c)
      BY <1>7, <3>1 DEF HasToQuantize
    <3> QED BY <1>9, <3>1, <3>2 DEF HsHeld
  <2>2. YsHeld'
    <3>1. Task.second = 0
      BY <1>1, <1>11 DEF DownWritten
    <3>2. \A c \in DOMAIN Task.ys : c >= 0
      <4>1. DOMAIN Task.ys = 0..(Task.misses * DownChunks - 1)
        BY <1>3 DEF RowsOf
      <4>2. Task.misses * DownChunks \in Nat
        BY <1>3, TeamAssumption
      <4> QED BY <4>1, <4>2
    <3> QED BY <1>3, <3>1, <3>2 DEF YsHeld
  <2>3. \A k \in Crew : YsMine(k)'
    BY <1>7 DEF YsMine
  <2>4. UpWritten(3)' /\ Quantized(3)' /\ DownWritten(3)'
    BY <1>0, <1>1, <1>3, <1>11, <2>1, <2>2, <2>3 DEF UpWritten, Quantized, DownWritten
  <2>5. \A k \in Crew' : MemberIn(k, 3)'
    BY <1>0, <1>8, <1>11
  <2> QED BY <2>4, <2>5 DEF RowInPhase, InPhase
<1> QED BY <1>4, <1>10, <1>11

(* There is no job, no crew and no bad chunk when the program starts.      *)
LEMMA CrewInit == Init => CrewInv /\ RowInv
<1> SUFFICES ASSUME Init PROVE CrewInv /\ RowInv
  OBVIOUS
<1>1. Types /\ TeamInv
  BY TypesInit, TeamInit
<1>2. \A m \in Members : pc[m] \in {"spin", "out"}
  BY DEF Init
<1>3. ~Active
  BY DEF Init, Active, NoJob
<1>4. BarrierCounts
  <2>1. AtBarrier = {}
    BY <1>2 DEF AtBarrier, Waiting
  <2> QED BY <1>2, <2>1, FS_EmptySet DEF BarrierCounts, Init
<1>5. BadIsNoted
  BY DEF Init, BadIsNoted, Clean, Row
<1> QED BY <1>3, <1>4, <1>5 DEF CrewInv, LeftCounts, OneSums, RowInv, RowInPhase

(* A worker sees the epoch move and takes up its share of the job.         *)
LEMMA TakeJoins ==
    ASSUME Types, TeamInv, CrewInv, RowInv, NEW m \in Members, Take(m)
    PROVE  CrewInv' /\ RowInv'
<1>0. Members \subseteq Nat /\ size \in Nat \ {0} /\ 0..(size - 1) \subseteq Members
  BY TeamIsMembers DEF Types, HostTypes
<1> USE DEF hostVars, jobVars, barrierVars
<1>1. /\ UNCHANGED <<size, host, step, epoch, job, withCaller, work, arrived, generation, turn, at>>
      /\ pc[m] = "spin" /\ epoch # seen[m]
      /\ \A k \in Members : k # m => UNCHANGED <<pc[k], phase[k], seen[k]>>
      /\ pc'[m] = (IF job = NoJob THEN "report" ELSE "claim") /\ phase'[m] = 1
  BY DEF Take, Go, Types, MemberTypes
<1>2. m \in Workers
  BY <1>0, <1>1 DEF TeamInv, CallerRuns, Strangers, Workers, Quiet
<1>3. job # NoJob /\ host # "publish" /\ host # "alone"
  BY <1>1, <1>2 DEF TeamInv, WorkersKeepUp, JobHeld, Quiet
<1>4. m \in Crew /\ m # 0
  BY <1>0, <1>2, <1>3 DEF Crew, Workers
<1>5. Late(m)
  BY <1>1, <1>4 DEF Late, Busy, Done, ThroughJob
<1>6. OthersStay(m)
  <2>1. Active /\ Active' /\ UNCHANGED <<Cur, Crew, CrewSize, CallerIn>> /\ \A k : UNCHANGED Index(k)
    BY <1>1, <1>3 DEF Active, Cur, Crew, CrewSize, CallerIn, Index, Workers
  <2>2. \A k \in Members : k # m => UNCHANGED <<Done(k), pc[k], turn[k], phase[k], at[k]>>
    BY <1>1, <1>4 DEF Done, ThroughJob, Quiet
  <2>3. Crew \subseteq Members
    BY CrewFacts
  <2> QED BY <2>1, <2>2, <2>3 DEF OthersStay
<1> QED BY <1>1, <1>3, <1>4, <1>5, <1>6, MemberJoins

(* Barrier, leaving count and row are kept by every step.                  *)
LEMMA CrewStep ==
    Types /\ TeamInv /\ CrewInv /\ RowInv /\ [Next]_vars => (CrewInv /\ RowInv)'
<1> SUFFICES ASSUME Types, TeamInv, CrewInv, RowInv, [Next]_vars PROVE CrewInv' /\ RowInv'
  OBVIOUS
<1>0. Types' /\ TeamInv'
  BY TeamStep
<1>1. CASE Host \/ Abort
  BY <1>0, <1>1, CrewHost
<1>2. CASE Device \/ UNCHANGED vars
  <2>1. UNCHANGED <<size, host, step, epoch, job, withCaller, arrived, generation, turn, pc, phase, seen, at, work>>
    BY <1>2 DEF Device, SendRow, SeeFlag, LowerFlag, vars, hostVars, teamVars, jobVars, barrierVars, memberVars
  <2>2. UNCHANGED <<Active, Cur, Crew, CrewSize, CallerIn>> /\ \A k : UNCHANGED <<Done(k), Index(k)>>
    BY <2>1 DEF Active, Cur, Crew, CrewSize, CallerIn, Done, Index, ThroughJob, Quiet, Workers
  <2> QED BY <1>0, <2>1, <2>2, CrewFrame
<1>3. ASSUME NEW m \in Members, Park(m) \/ Doze(m) PROVE CrewInv' /\ RowInv'
  <2>1. /\ UNCHANGED <<size, host, step, epoch, job, withCaller, arrived, generation, turn, phase, seen, at, work>>
        /\ \A k \in Members : \/ pc'[k] = pc[k]
                              \/ {pc[k], pc'[k]} \subseteq {"spin", "park", "asleep"}
    BY <1>3 DEF Park, Doze, Go, hostVars, jobVars, barrierVars, Types, MemberTypes
  <2>2. UNCHANGED <<Active, Cur, Crew, CrewSize, CallerIn>> /\ \A k : UNCHANGED Index(k)
    BY <2>1 DEF Active, Cur, Crew, CrewSize, CallerIn, Index, Workers
  <2>3. \A k \in Members : /\ Busy(k) \/ Busy(k)' => pc'[k] = pc[k]
                           /\ pc[k] = "report" <=> pc'[k] = "report"
                           /\ UNCHANGED Quiet(k) /\ (pc[k] = "out" <=> pc'[k] = "out")
    BY <2>1 DEF Busy, Quiet
  <2>4. \A k \in Members : UNCHANGED Done(k)
    BY <2>1, <2>3 DEF Done, ThroughJob
  <2>5. Crew \subseteq Members
    BY CrewFacts
  <2> QED BY <1>0, <2>1, <2>2, <2>3, <2>4, <2>5, CrewFrame
<1>4. ASSUME NEW m \in Members, Step(m) PROVE CrewInv' /\ RowInv'
  <2>1. RowInPhase'
    BY <1>4, PhaseSteps, PhaseClaim, PhaseWrite, PhaseOpen DEF Step
  <2> QED BY <1>0, <1>4, <2>1, BarrierStep, LeavingStep, BadStep DEF CrewInv, RowInv
<1>5. CASE \E m \in Members : Member(m) \/ Doze(m)
  BY <1>3, <1>4, <1>5, TakeJoins DEF Member, Step
<1> QED BY <1>1, <1>2, <1>5 DEF Next

(* Team, crew and row invariants hold in every state.                      *)
LEMMA CrewAlways == Spec => [](Types /\ TeamInv /\ CrewInv /\ RowInv)
<1>1. Init => Types /\ TeamInv /\ CrewInv /\ RowInv
  BY TypesInit, TeamInit, CrewInit
<1> QED BY <1>1, TeamStep, CrewStep, PTL DEF Spec

(* The barriers keep the phases of a row apart: a member quantizes a miss  *)
(* once all of its gate and up chunks are written, and takes a down chunk  *)
(* once the activation it reads is.                                        *)
THEOREM PhasesNeverMix == Spec => []PhasesApart
<1>1. Types /\ TeamInv /\ CrewInv /\ RowInv => PhasesApart
  <2> SUFFICES ASSUME Types, TeamInv, RowInv, NEW m \in Members, pc[m] = "write"
               PROVE  CASE phase[m] = 1 -> W(m).gu[at[m]] = "raw"
                        [] phase[m] = 2 -> "raw" \notin UpOf(W(m), at[m])
                        [] phase[m] = 3 -> W(m).hs[at[m] \div DownChunks] # "raw"
    BY DEF PhasesApart
  <2>1. Active /\ Cur \in Jobs /\ m \in Crew /\ W(m) = Task
    BY BusyInJob, BusyRow DEF Busy, Task
  <2>2. PICK p \in 1..3 : InPhase(p) /\ UpWritten(p) /\ Quantized(p) /\ DownWritten(p)
    BY <2>1 DEF RowInv, RowInPhase
  <2>3. phase[m] = p
    BY <2>1, <2>2 DEF InPhase, MemberIn
  <2>4. /\ Task \in RowsOf(Task.misses) /\ Task.misses \in Nat /\ at[m] \in Nat
        /\ UpChunks \in Nat \ {0} /\ DownChunks \in Nat \ {0}
    BY <2>1, TaskShape, TeamAssumption DEF Types, MemberTypes
  <2>5. CASE p = 1
    BY <2>1, <2>2, <2>3, <2>5 DEF UpWritten, UpMine
  <2>6. CASE p = 2
    <3>1. at[m] < Task.misses /\ \A c \in DOMAIN Task.gu : Task.gu[c] # "raw"
      BY <2>1, <2>2, <2>6 DEF UpWritten, Quantized, HsMine
    <3>2. DOMAIN Task.gu = 0..(Task.misses * UpChunks - 1)
      BY <2>4 DEF RowsOf
    <3>3. \A c \in (at[m] * UpChunks)..((at[m] + 1) * UpChunks - 1) : c \in DOMAIN Task.gu
      BY <2>4, <3>1, <3>2, ChunkOfMiss
    <3>4. "raw" \notin UpOf(Task, at[m])
      BY <3>1, <3>3 DEF UpOf
    <3> QED BY <2>1, <2>3, <2>6, <3>4
  <2>7. CASE p = 3
    <3>1. at[m] \in DOMAIN Task.ys /\ \A k \in DOMAIN Task.hs : Task.hs[k] # "raw"
      BY <2>1, <2>2, <2>7 DEF DownWritten, YsMine, Quantized
    <3>2. DOMAIN Task.ys = 0..(Task.misses * DownChunks - 1) /\ DOMAIN Task.hs = 0..(Task.misses - 1)
      BY <2>4 DEF RowsOf
    <3>3. Task.misses * DownChunks \in Nat
      BY <2>4
    <3>4. at[m] < Task.misses * DownChunks
      BY <2>4, <3>1, <3>2, <3>3
    <3>5. at[m] \div DownChunks \in DOMAIN Task.hs
      BY <2>4, <3>2, <3>4, MissOfChunk
    <3> QED BY <2>1, <2>3, <2>7, <3>1, <3>5
  <2>8. p \in {1, 2, 3}
    OBVIOUS
  <2> QED BY <2>5, <2>6, <2>7, <2>8
<1> QED BY <1>1, CrewAlways, PTL

-----------------------------------------------------------------------------
(* What the recording thread is told.                                      *)

(* Once its crew is through a row, every chunk of it is written, or a      *)
(* kernel's error waits to be told, or a member died.                      *)
LEMMA RowAccounted ==
    ASSUME Types, TeamInv, CrewInv, RowInv, Active, \A m \in Crew : Done(m)
    PROVE  /\ Cur \in Jobs /\ Task = work[Cur]
           /\ Task.panicked \/ Task.failed \/ Task.outcome = "err" \/ Whole(Task)
           /\ IF CallerIn THEN Task.outcome = "ok" ELSE ~Task.failed
<1>1. Cur \in Jobs
  BY DEF Types, JobTypes, HostTypes, TeamInv, HostHolds, Cur, Active
<1>2. /\ Task \in RowsOf(Task.misses) /\ Task.misses \in Nat
      /\ CrewSize \in Nat \ {0} /\ Crew # {} /\ Cardinality(Crew) = CrewSize
  <2>1. CrewSize \in Nat \ {0} /\ Cardinality(Crew) = CrewSize
    BY CrewFacts
  <2>2. Crew # {}
    BY <2>1, FS_EmptySet
  <2> QED BY <1>1, <2>1, <2>2, TaskShape
<1>3. \A m \in Crew : Left(m) /\ Gone(m) /\ pc[m] \notin {"write", "sum", "raise"}
  BY DEF Left, Gone, Done, ThroughJob, Quiet
<1>4. LeftCrew = Crew
  BY <1>3 DEF LeftCrew
<1>5. IF CallerIn THEN Task.outcome = "ok" ELSE ~Task.failed
  BY <1>2, <1>3, <1>4 DEF CrewInv, LeftCounts, OneSums, Task
<1>6. ASSUME ~Task.panicked, Clean(Task) PROVE Whole(Task)
  <2>1. PICK p \in 1..3 : InPhase(p) /\ UpWritten(p) /\ Quantized(p) /\ DownWritten(p)
    BY DEF RowInv, RowInPhase
  <2>2. PICK m \in Crew : TRUE
    BY <1>2
  <2>3. MemberIn(m, p) /\ Gone(m)
    BY <1>3, <2>1, <2>2 DEF InPhase
  <2>4. p = 3
    BY <1>6, <2>3 DEF MemberIn
  <2>5. YsHeld /\ YsMine(m)
    BY <2>1, <2>2, <2>4 DEF DownWritten
  <2>6. Task.second >= Task.misses * DownChunks
    BY <1>6, <2>3, <2>5 DEF YsMine
  <2>7. /\ DOMAIN Task.ys = 0..(Task.misses * DownChunks - 1) /\ Task.second \in Nat
        /\ \A c \in DOMAIN Task.ys : Task.ys[c] \in Chunk
    BY <1>2 DEF RowsOf
  <2>8. Task.misses * DownChunks \in Nat
    BY <1>2, TeamAssumption
  <2>9. ASSUME NEW c \in DOMAIN Task.ys PROVE Task.ys[c] # "raw"
    <3>1. ~(c >= Task.second)
      BY <2>6, <2>7, <2>8
    <3>2. \A k \in Crew : ~Writes(k, 3, c)
      BY <1>3 DEF Writes
    <3> QED BY <1>6, <2>5, <3>1, <3>2 DEF YsHeld
  <2> QED BY <1>6, <2>7, <2>9 DEF Whole, Clean, Chunk
<1>7. Clean(Task) \/ Task.failed \/ Task.outcome = "err"
  BY <1>1 DEF RowInv, BadIsNoted, Task
<1> QED BY <1>1, <1>5, <1>6, <1>7 DEF Task

(* No step has been told anything when the program starts.                 *)
LEMMA ToldInit == Init => ToldInv
BY DEF Init, ToldInv, RowOk

(* Nobody's row is told of while it is worked on.                          *)
LEMMA ToldMember ==
    ASSUME Types, TeamInv, ToldInv, NEW m \in Members, Member(m) \/ Doze(m)
    PROVE  ToldInv'
<1>1. UNCHANGED <<told, step, row, job, started, host>>
  BY DEF Member, Take, Park, Doze, Report, Claim, Write, Enter, Arrive, Open, Held, Leave, Sum, Raise,
         hostVars, jobVars
<1>2. CASE Take(m) \/ Park(m) \/ Doze(m)
  <2>1. work' = work
    BY <1>2 DEF Take, Park, Doze
  <2> QED BY <1>1, <2>1 DEF ToldInv, RowOk
<1>3. CASE Step(m)
  <2>1. /\ Active /\ Cur \in Jobs
        /\ \A w : SetWork(m, w) => \A j \in Jobs \ {Cur} : work'[j] = work[j]
    BY <1>3, StepFrame DEF OthersStay
  <2>2. \A j \in Jobs \ {Cur} : work'[j] = work[j]
    BY <1>3, <2>1 DEF Step, Report, Claim, Write, Enter, Arrive, Open, Held, Leave, Sum, Raise
  <2>3. told[Cur] = "nothing"
    BY <2>1 DEF ToldInv, Active, Cur, Types, HostTypes
  <2>4. ASSUME NEW s \in Jobs PROVE (RowOk(s) \/ work[s].panicked)'
    BY <1>1, <2>2, <2>3 DEF ToldInv, RowOk
  <2>5. ~(row # NoJob /\ started = NoJob)
    BY <2>1 DEF TeamInv, HostHolds, JobHeld, Active
  <2> QED BY <1>1, <2>4, <2>5 DEF ToldInv
<1> QED BY <1>2, <1>3 DEF Member, Step

(* The host tells a step ok only for a row that is accounted for.          *)
LEMMA ToldHost ==
    ASSUME Types, TeamInv, CrewInv, RowInv, ToldInv, Host \/ Abort
    PROVE  ToldInv'
<1>0. /\ step \in Nat /\ Jobs \subseteq Nat /\ NoJob \notin Jobs /\ told \in [Jobs -> {"nothing", "ok", "err"}]
      /\ work \in [Jobs -> Rows] /\ size \in Nat \ {0} /\ 0 \in Members
      /\ \A s \in Jobs : work[s].outcome \in {"ok", "err"} /\ work[s].failed \in BOOLEAN
  <2>1. \A w \in Rows : w.outcome \in {"ok", "err"} /\ w.failed \in BOOLEAN
    BY DEF Rows, RowsOf
  <2>2. \A s \in Jobs : work[s] \in Rows
    BY DEF Types, WorkTypes
  <2>3. Steps \in Nat /\ Jobs \subseteq Nat /\ NoJob \notin Jobs /\ step \in Nat
    BY TeamAssumption DEF Types, HostTypes, Jobs, NoJob
  <2>4. size \in Nat \ {0} /\ 0 \in Members
    BY TeamIsMembers DEF Types, HostTypes
  <2> QED BY <2>1, <2>2, <2>3, <2>4 DEF Types, HostTypes, WorkTypes
<1>a. HostHolds /\ JobHeld /\ CallerRuns
  BY DEF TeamInv
<1>b. /\ \A s \in Jobs : told[s] # "nothing" => s < step /\ s # row /\ s # job
      /\ \A s \in Jobs : RowOk(s) \/ work[s].panicked
      /\ row # NoJob /\ started = NoJob => Accounted(work[row])
  BY DEF ToldInv
<1> USE DEF hostVars, teamVars, jobVars
<1>1. CASE Record \/ Sync \/ RaiseZeros \/ Publish \/ Hits \/ Abort \/ Last
  <2>1. /\ UNCHANGED <<told, row, job, started, work>>
        /\ step' = step \/ step' = step + 1
    BY <1>1 DEF Record, Sync, RaiseZeros, Publish, Hits, Abort, Last, EndPass
  <2> QED BY <1>0, <1>b, <2>1 DEF ToldInv, RowOk
<1>2. CASE Notify
  <2>1. /\ UNCHANGED <<told, job, work, step>> /\ host = "notify"
        /\ (row' = row /\ started' = started) \/ (row' = step /\ started' = step)
    BY <1>2 DEF Notify
  <2>2. step \in Jobs
    BY <2>1, <1>a DEF HostHolds
  <2> QED BY <1>0, <1>b, <2>1, <2>2 DEF ToldInv, RowOk
<1>3. CASE (\E caller \in BOOLEAN : Dispatch(caller)) \/ StartAlone
  <2>1. /\ UNCHANGED <<told, row, started, step>> /\ host = "start"
        /\ job' \in {job, step} /\ \E w : work' = [work EXCEPT ![step] = w]
    BY <1>3 DEF Dispatch, StartAlone
  <2>2. row = NoJob /\ step \in Jobs
    BY <2>1, <1>a DEF HostHolds
  <2>3. told[step] = "nothing"
    BY <1>0, <1>b, <2>2
  <2>4. ASSUME NEW s \in Jobs PROVE (RowOk(s) \/ work[s].panicked)'
    <3>1. CASE s = step
      BY <2>1, <2>3, <3>1 DEF RowOk
    <3>2. CASE s # step
      <4>1. work'[s] = work[s]
        BY <1>0, <2>1, <3>2
      <4> QED BY <1>b, <2>1, <4>1 DEF RowOk
    <3> QED BY <3>1, <3>2
  <2>5. \A s \in Jobs : told'[s] # "nothing" => s < step' /\ s # row' /\ s # job'
    BY <1>0, <1>b, <2>1, <2>3
  <2> QED BY <2>1, <2>2, <2>4, <2>5 DEF ToldInv
<1>4. CASE RanAlone
  <2>1. /\ UNCHANGED <<told, job, started, work, step>> /\ row' = step /\ host = "alone" /\ pc[0] = "out"
    BY <1>4 DEF RanAlone
  <2>2. step \in Jobs
    BY <2>1, <1>a DEF HostHolds
  <2>3. Active /\ Cur = step /\ ~CallerIn /\ \A m \in Crew : Done(m)
    BY <2>1 DEF Active, Cur, CallerIn, Crew, Done
  <2>4. Accounted(work[step])
    BY <2>3, RowAccounted DEF Accounted
  <2> QED BY <1>0, <1>b, <2>1, <2>2, <2>4 DEF ToldInv, RowOk
<1>5. CASE Ran
  <2>1. /\ UNCHANGED <<row, started, work>> /\ host = "run" /\ pc[0] = "out" /\ Waited
        /\ told' = [told EXCEPT ![step] = Verdict(work[step].failed)]
        /\ step' = step + 1 /\ job' = NoJob
    BY <1>5 DEF Ran, Clear, EndPass
  <2>2. step \in Jobs /\ job = step /\ withCaller /\ row = NoJob
    BY <2>1, <1>a DEF HostHolds, JobHeld
  <2>3. Active /\ Cur = step /\ CallerIn /\ Crew = 0..(size - 1)
    BY <1>0, <2>1, <2>2 DEF Active, Cur, CallerIn, Crew
  <2>4. \A m \in Workers : ThroughJob(m)
    BY <1>0, <2>1, <2>2, WaitedForAll
  <2>5. \A m \in Crew : Done(m)
    BY <1>0, <2>1, <2>3, <2>4 DEF Done, Workers
  <2>6. /\ Task = work[step]
        /\ work[step].panicked \/ work[step].failed \/ Whole(work[step])
    BY <2>3, <2>5, RowAccounted
  <2>7. ASSUME NEW s \in Jobs PROVE (RowOk(s) \/ work[s].panicked)'
    <3>1. CASE s = step
      BY <1>0, <2>1, <2>6, <3>1 DEF RowOk, Verdict
    <3>2. CASE s # step
      <4>1. told'[s] = told[s]
        BY <1>0, <2>1, <3>2
      <4> QED BY <1>b, <2>1, <4>1 DEF RowOk
    <3> QED BY <3>1, <3>2
  <2>8. \A s \in Jobs : told'[s] # "nothing" => s < step' /\ s # row' /\ s # job'
    BY <1>0, <1>b, <2>1, <2>2
  <2> QED BY <2>1, <2>2, <2>7, <2>8 DEF ToldInv
<1>6. CASE Join
  <2>1. /\ work' = work /\ host \in {"join", "last"} /\ row # NoJob
        /\ told' = [told EXCEPT ![row] = work[row].outcome] /\ row' = NoJob
        /\ step' = step \/ step' = step + 1
        /\ IF started # NoJob THEN Waited /\ job' = NoJob ELSE job' = job
    BY <1>6 DEF Join, Clear, EndPass
  <2>2. row \in Jobs /\ row < step
    BY <2>1, <1>a DEF HostHolds, Types, HostTypes
  <2>3. Accounted(work[row])
    <3>1. CASE started = NoJob
      BY <1>b, <2>1, <3>1
    <3>2. CASE started # NoJob
      <4>1. job = row /\ job # NoJob /\ ~withCaller /\ Waited
        BY <1>a, <2>1, <3>2 DEF HostHolds, JobHeld
      <4>2. Active /\ Cur = row /\ ~CallerIn /\ Crew = Workers
        BY <2>1, <4>1 DEF Active, Cur, CallerIn, Crew
      <4>3. \A m \in Workers : ThroughJob(m)
        BY <4>1, WaitedForAll
      <4>4. \A m \in Crew : Done(m)
        BY <1>0, <4>2, <4>3 DEF Done, Workers
      <4> QED BY <4>2, <4>4, RowAccounted DEF Accounted
    <3> QED BY <3>1, <3>2
  <2>4. ASSUME NEW s \in Jobs PROVE (RowOk(s) \/ work[s].panicked)'
    <3>1. CASE s = row
      BY <1>0, <2>1, <2>3, <3>1 DEF RowOk, Accounted
    <3>2. CASE s # row
      <4>1. told'[s] = told[s]
        BY <1>0, <2>1, <3>2
      <4> QED BY <1>b, <2>1, <4>1 DEF RowOk
    <3> QED BY <3>1, <3>2
  <2>5. \A s \in Jobs : told'[s] # "nothing" => s < step' /\ s # row' /\ s # job'
    <3>1. job' = NoJob
      BY <1>a, <2>1 DEF JobHeld
    <3> QED BY <1>0, <1>b, <2>1, <2>2, <3>1
  <2> QED BY <2>1, <2>4, <2>5 DEF ToldInv
<1> QED BY <1>1, <1>2, <1>3, <1>4, <1>5, <1>6 DEF Host

(* Every step keeps what was told true.                                    *)
LEMMA ToldStep ==
    Types /\ TeamInv /\ CrewInv /\ RowInv /\ ToldInv /\ [Next]_vars => ToldInv'
<1> SUFFICES ASSUME Types, TeamInv, CrewInv, RowInv, ToldInv, [Next]_vars PROVE ToldInv'
  OBVIOUS
<1>1. CASE Device \/ UNCHANGED vars
  <2>1. UNCHANGED <<told, step, row, job, started, work>>
    BY <1>1 DEF Device, SendRow, SeeFlag, LowerFlag, vars, hostVars, teamVars, jobVars
  <2> QED BY <2>1 DEF ToldInv, RowOk
<1> QED BY <1>1, ToldHost, ToldMember DEF Next

(* A step told that its row went well had every chunk of it computed,      *)
(* unless a member died over it.                                           *)
THEOREM OkRowsAreWhole == Spec => []OkMeansWhole
<1>1. Init => ToldInv
  BY ToldInit
<1>2. ToldInv => OkMeansWhole
  BY DEF ToldInv, OkMeansWhole
<1> QED BY <1>1, <1>2, CrewAlways, ToldStep, PTL DEF Spec

-----------------------------------------------------------------------------
(* What the device adds.                                                   *)

(* Launches, as few as are under way.                                      *)
LEMMA TwoLaunches ==
    ASSUME NEW a, NEW b
    PROVE  <<a>> \o <<b>> = <<a, b>>
<1> DEFINE S == {a, b}
           s == <<a>> \o <<b>>
           t == <<a, b>>
<1>1. <<a>> \in Seq(S) /\ <<b>> \in Seq(S) /\ t \in Seq(S)
  OBVIOUS
<1>2. s \in Seq(S) /\ Len(s) = 2 /\ s[1] = a /\ s[2] = b
  BY <1>1
<1>3. Len(t) = 2 /\ t[1] = a /\ t[2] = b
  OBVIOUS
<1> HIDE DEF s, t
<1>4. s = t
  BY <1>1, <1>2, <1>3, SeqEqual
<1> QED BY <1>4 DEF s, t

(* What the sequence operators make of a stream of at most two launches.   *)
LEMMA FewLaunches ==
    ASSUME NEW a, NEW b
    PROVE  /\ <<>> \o <<>> \o <<b>> = <<b>> /\ <<>> \o <<a>> \o <<b>> = <<a, b>>
           /\ <<>> \o <<>> = <<>> /\ <<>> \o <<a>> = <<a>> /\ Append(<<>>, a) = <<a>>
           /\ <<a>> # <<>> /\ <<a, b>> # <<>> /\ Head(<<a>>) = a /\ Head(<<a, b>>) = a
           /\ Tail(<<a>>) = <<>> /\ Tail(<<a, b>>) = <<b>>
<1>1. <<>> \o <<>> = <<>> /\ <<>> \o <<b>> = <<b>> /\ <<>> \o <<a>> = <<a>>
  OBVIOUS
<1>2. <<>> \o <<>> \o <<b>> = <<b>> /\ <<>> \o <<a>> \o <<b>> = <<a, b>>
  BY <1>1, TwoLaunches
<1>3. Append(<<>>, a) = <<a>> /\ Tail(<<a>>) = <<>> /\ Tail(<<a, b>>) = <<b>>
  OBVIOUS
<1>4. <<a>> # <<>> /\ <<a, b>> # <<>> /\ Head(<<a>>) = a /\ Head(<<a, b>>) = a
  OBVIOUS
<1> QED BY <1>1, <1>2, <1>3, <1>4

(* A send is not an add.                                                   *)
LEMMA SendIsNoAdd ==
    ASSUME NEW s, NEW r
    PROVE  Send(s).op = "send" /\ Add(r).op = "add" /\ Add(r).of = r
BY DEF Send, Add

(* Members touch neither the stream nor the host, and raise flags only.    *)
LEMMA CrewAside ==
    ASSUME (\E m \in Members : Member(m) \/ Doze(m)) \/ UNCHANGED vars
    PROVE  /\ UNCHANGED <<recorded, queue, adding, host, step>>
           /\ flag' = flag \/ \E b : flag' = [flag EXCEPT ![b] = 1]
<1> USE DEF hostVars, teamVars, deviceVars, handVars, faultVars
<1>1. ASSUME NEW m \in Members, Take(m) \/ Park(m) \/ Doze(m) \/ Report(m) \/ Claim(m)
      PROVE  UNCHANGED <<recorded, queue, adding, host, step, flag>>
  BY <1>1 DEF Take, Park, Doze, Report, Claim
<1>2. ASSUME NEW m \in Members, Write(m) \/ Enter(m) \/ Arrive(m) \/ Open(m) \/ Held(m)
      PROVE  UNCHANGED <<recorded, queue, adding, host, step, flag>>
  BY <1>2 DEF Write, Enter, Arrive, Open, Held
<1>3. ASSUME NEW m \in Members, Leave(m) \/ Sum(m)
      PROVE  UNCHANGED <<recorded, queue, adding, host, step, flag>>
  BY <1>3 DEF Leave, Sum
<1>4. ASSUME NEW m \in Members, Raise(m)
      PROVE  /\ UNCHANGED <<recorded, queue, adding, host, step>>
             /\ flag' = flag \/ \E b : flag' = [flag EXCEPT ![b] = 1]
  BY <1>4 DEF Raise
<1>5. UNCHANGED vars => UNCHANGED <<recorded, queue, adding, host, step, flag>>
  BY DEF vars
<1> QED BY <1>1, <1>2, <1>3, <1>4, <1>5 DEF Member

(* Without an error the stream holds the last row's add and this step's    *)
(* send at most.                                                           *)
LEMMA StreamStep ==
    ASSUME Types, TeamInv, StreamInv, [Next]_vars
    PROVE  StreamInv'
<1> SUFFICES ASSUME aborts' = 0 PROVE StreamInv'
  BY DEF StreamInv
<1> USE DEF hostVars, teamVars, deviceVars, handVars, faultVars
<1>0. aborts \in Nat /\ step \in Nat
  BY DEF Types, FaultTypes, HostTypes
<1>1. ~Abort /\ aborts' = aborts
  <2>1. Host \/ Device => aborts' = aborts
    BY DEF Host, Record, Sync, Join, RaiseZeros, Publish, Notify, Ran, StartAlone, RanAlone, Hits, Last,
           Dispatch, Device, SendRow, SeeFlag, LowerFlag
  <2>2. \A m \in Members : Member(m) \/ Doze(m) => aborts' = aborts
    BY DEF Member, Take, Park, Doze, Report, Claim, Write, Enter, Arrive, Open, Held, Leave, Sum, Raise
  <2>3. ~Abort
    BY <1>0 DEF Abort
  <2> QED BY <2>1, <2>2, <2>3 DEF Next, vars
<1>2. /\ recorded # <<>> => host = "record" /\ recorded = <<Add(step - 1)>>
      /\ host \notin {"sync", "last", "end"} => queue = <<>>
      /\ host = "sync" => queue \in {<<>>, <<Send(step)>>, <<Add(step - 1), Send(step)>>}
      /\ host \in {"last", "end"} => queue \in {<<>>, <<Add(step - 1)>>}
  BY <1>1 DEF StreamInv
<1>3. CASE Record
  <2>1. /\ recorded' = <<>> /\ host' = "sync" /\ step' = step /\ queue = <<>>
        /\ queue' = queue \o recorded \o <<Send(step)>>
    BY <1>2, <1>3 DEF Record, Send
  <2>2. queue' \in {<<Send(step)>>, <<Add(step - 1), Send(step)>>}
    <3>1. /\ <<>> \o <<>> \o <<Send(step)>> = <<Send(step)>>
          /\ <<>> \o <<Add(step - 1)>> \o <<Send(step)>> = <<Add(step - 1), Send(step)>>
      BY FewLaunches
    <3> QED BY <1>2, <2>1, <3>1
  <2> QED BY <2>1, <2>2 DEF StreamInv
<1>4. CASE Hits
  <2>1. /\ recorded' = Append(recorded, Add(step)) /\ host = "hits" /\ host' = "record" /\ step' = step + 1
        /\ queue' = queue
    BY <1>4 DEF Hits, Add
  <2>2. recorded' = <<Add(step' - 1)>> /\ queue' = <<>>
    <3>1. recorded = <<>> /\ queue = <<>> /\ Append(<<>>, Add(step)) = <<Add(step)>>
      BY <1>2, <2>1, FewLaunches
    <3>2. step' - 1 = step
      BY <1>0, <2>1
    <3> QED BY <2>1, <3>1, <3>2
  <2> QED BY <2>1, <2>2 DEF StreamInv
<1>5. CASE Last
  <2>1. /\ recorded' = <<>> /\ host = "record" /\ host' \in {"last", "end"} /\ step' = step
        /\ queue' = queue \o recorded /\ queue = <<>>
    BY <1>2, <1>5 DEF Last
  <2>2. queue' \in {<<>>, <<Add(step - 1)>>}
    BY <1>2, <2>1, FewLaunches
  <2> QED BY <2>1, <2>2 DEF StreamInv
<1>6. CASE Sync \/ RaiseZeros \/ Publish \/ Notify \/ StartAlone \/ RanAlone \/ \E c \in BOOLEAN : Dispatch(c)
  <2>1. /\ UNCHANGED <<recorded, queue, step>> /\ host \notin {"record", "last", "end"}
        /\ host' \notin {"record", "sync", "last", "end"} /\ (host = "sync" => queue = <<>>)
    BY <1>6 DEF Sync, RaiseZeros, Publish, Notify, StartAlone, RanAlone, Dispatch
  <2> QED BY <1>2, <2>1 DEF StreamInv
<1>7. CASE Join
  <2>1. /\ queue' = queue /\ host \in {"join", "last"} /\ recorded = <<>>
        /\ recorded' = <<>>
        /\ (host = "last" => host' = "end" /\ step' = step)
        /\ (host = "join" => host' \in {"record", "start"})
    BY <1>2, <1>7 DEF Join, EndPass
  <2> QED BY <1>2, <2>1 DEF StreamInv
<1>8. CASE Ran
  <2>1. queue' = queue /\ host = "run" /\ host' = "record" /\ recorded' = <<>>
    BY <1>2, <1>8 DEF Ran, EndPass
  <2> QED BY <1>2, <2>1 DEF StreamInv
<1>9. CASE SendRow \/ LowerFlag
  <2>1. UNCHANGED <<recorded, host, step>> /\ queue # <<>> /\ queue' = Tail(queue)
    BY <1>9 DEF SendRow, LowerFlag, Types, DeviceTypes
  <2>2. CASE host = "sync"
    <3>1. queue' \in {<<>>, <<Send(step)>>}
      <4>1. Tail(<<Send(step)>>) = <<>> /\ Tail(<<Add(step - 1), Send(step)>>) = <<Send(step)>>
        BY FewLaunches
      <4> QED BY <1>2, <2>1, <2>2, <4>1
    <3> QED BY <1>2, <2>1, <2>2, <3>1 DEF StreamInv
  <2>3. CASE host \in {"last", "end"}
    <3>1. queue' = <<>>
      BY <1>2, <2>1, <2>3, FewLaunches
    <3> QED BY <1>2, <2>1, <2>3, <3>1 DEF StreamInv
  <2> QED BY <1>2, <2>1, <2>2, <2>3
<1>10. CASE SeeFlag \/ (\E m \in Members : Member(m) \/ Doze(m)) \/ UNCHANGED vars
  <2>1. UNCHANGED <<recorded, queue, host, step>>
    BY <1>10, CrewAside DEF SeeFlag
  <2> QED BY <1>2, <2>1 DEF StreamInv
<1> QED BY <1>1, <1>3, <1>4, <1>5, <1>6, <1>7, <1>8, <1>9, <1>10 DEF Next, Host, Device

(* The flag whose add the device is in stays up until the add lowers it.   *)
LEMMA SeenStep ==
    ASSUME Types, SeenRaised, [Next]_vars
    PROVE  SeenRaised'
<1> USE DEF hostVars, teamVars, deviceVars, handVars, faultVars
<1>1. CASE SendRow \/ LowerFlag
  <2>1. ~adding'
    BY <1>1 DEF SendRow, LowerFlag, Types, DeviceTypes
  <2> QED BY <2>1 DEF SeenRaised
<1>2. CASE SeeFlag
  <2>1. queue' = queue /\ flag' = flag /\ Head(queue) \in Launches /\ flag[Block(Head(queue).of)] # 0
    BY <1>2, StreamTyped DEF SeeFlag, Types, DeviceTypes
  <2>2. Block(Head(queue).of) \in BlockSet
    BY <2>1, BlockTyped DEF Launches, Jobs
  <2> QED BY <2>1, <2>2 DEF SeenRaised, Types, HandTypes
<1>3. ASSUME ~Device PROVE adding' = adding /\ (adding => Head(queue') = Head(queue))
  <2>1. CASE Record
    <3>1. [op |-> "send", of |-> step] \in Launches
      BY <2>1 DEF Record, Launches, Types, HostTypes, Jobs
    <3> QED BY <2>1, <3>1, StreamTyped DEF Record, Types, DeviceTypes
  <2>2. CASE Last
    <3>1. \A q, r \in Seq(Launches) : q # <<>> => Head(q \o r) = Head(q)
      OBVIOUS
    <3> QED BY <2>2, <3>1 DEF Last, Types, DeviceTypes
  <2>3. CASE Sync \/ RaiseZeros \/ Publish \/ Notify \/ StartAlone \/ RanAlone \/ Join \/ Ran \/ Hits \/ Abort
             \/ \E c \in BOOLEAN : Dispatch(c)
    BY <2>3 DEF Sync, RaiseZeros, Publish, Notify, StartAlone, RanAlone, Dispatch, Join, Ran, Hits, Abort, EndPass
  <2>4. CASE (\E m \in Members : Member(m) \/ Doze(m)) \/ UNCHANGED vars
    BY <2>4, CrewAside
  <2> QED BY <1>3, <2>1, <2>2, <2>3, <2>4 DEF Next, Host
<1>4. ASSUME ~Device PROVE flag' = flag \/ \E b : flag' = [flag EXCEPT ![b] = 1]
  <2>1. CASE Host \/ Abort
    BY <2>1 DEF Host, Record, Sync, Join, RaiseZeros, Publish, Notify, Ran, StartAlone, RanAlone, Hits, Last,
           Dispatch, Abort
  <2>2. CASE (\E m \in Members : Member(m) \/ Doze(m)) \/ UNCHANGED vars
    BY <2>2, CrewAside
  <2> QED BY <1>4, <2>1, <2>2 DEF Next
<1>5. ASSUME ~Device, adding' PROVE flag'[Block(Head(queue').of)] = 1
  <2>1. adding /\ Head(queue') = Head(queue) /\ flag[Block(Head(queue).of)] = 1
    BY <1>3, <1>5 DEF SeenRaised
  <2>2. Head(queue) \in Launches
    BY <2>1, StreamTyped DEF Types, DeviceTypes
  <2>3. Block(Head(queue).of) \in DOMAIN flag
    BY <2>2, BlockTyped DEF Launches, Jobs, Types, HandTypes
  <2> QED BY <1>4, <1>5, <2>1, <2>3
<1> QED BY <1>1, <1>2, <1>5 DEF Device, SeenRaised

(* At most one row is to be added, and its flag is down while it is to be  *)
(* raised.                                                                 *)
LEMMA OneOwed ==
    ASSUME Types, HandInv, aborts = 0
    PROVE  /\ \A s, r \in Owed : s = r
           /\ Unraised => Cur \in Owed /\ \A b \in BlockSet : flag[b] # 1
<1>1. \A s, r \in Owed : s = r
  BY DEF Owed
<1>2. ASSUME Unraised, NEW b \in BlockSet, flag[b] = 1 PROVE FALSE
  BY <1>1, <1>2 DEF HandInv, FlagIsOwed
<1> QED BY <1>1, <1>2 DEF HandInv

(* A step that leaves the flags and rows alone, and nothing new to raise.  *)
LEMMA HandKept ==
    ASSUME HandInv, UNCHANGED <<aborts, flag, y, Owed>>,
           Unraised' => Unraised /\ Cur' = Cur,
           \A m \in Members : pc'[m] = "raise" => pc[m] = "raise" /\ Cur' = Cur
    PROVE  HandInv'
<1> SUFFICES ASSUME aborts' = 0 PROVE HandInv'
  BY DEF HandInv
<1>1. /\ Unraised => Cur \in Owed
      /\ \A b \in BlockSet : flag[b] = 1 => FlagIsOwed(b)
      /\ \A m \in Members : pc[m] = "raise" => y[Block(Cur)].of = Cur
  BY DEF HandInv
<1>2. \A b \in BlockSet : flag'[b] = 1 => FlagIsOwed(b)'
  <2> SUFFICES ASSUME NEW b \in BlockSet, flag[b] = 1 PROVE FlagIsOwed(b)'
    OBVIOUS
  <2>1. PICK s \in Owed : b = Block(s) /\ y[b].of = s /\ (Unraised => Cur # s)
    BY <1>1 DEF FlagIsOwed
  <2>2. s \in Owed' /\ y'[b].of = s /\ (Unraised' => Cur' # s)
    BY <2>1
  <2> QED BY <2>1, <2>2 DEF FlagIsOwed
<1>3. Unraised' => Cur' \in Owed'
  BY <1>1
<1>4. \A m \in Members : pc'[m] = "raise" => y'[Block(Cur')].of = Cur'
  BY <1>1
<1> QED BY <1>2, <1>3, <1>4 DEF HandInv, Block

(* A step that leaves the job's row alone, or ends the job.                *)
LEMMA HandFrame ==
    ASSUME Types', TeamInv', HandInv, UNCHANGED <<aborts, flag, y, Owed>>,
           Active' => Active /\ UNCHANGED <<Cur, Crew, CrewSize, Task>>,
           \A k \in Members : pc'[k] \in {"sum", "raise"} => pc'[k] = pc[k],
           Crew \subseteq Members
    PROVE  HandInv'
<1>1. (Types /\ TeamInv => \A m \in Members : Busy(m) \/ pc[m] = "report" => Active /\ m \in Crew)'
  BY BusyAreCrew, PTL
<1>2. \A m \in Members : pc'[m] = "raise" => pc[m] = "raise" /\ Cur' = Cur
  BY <1>1 DEF Busy
<1>3. Unraised' => Unraised /\ Cur' = Cur
  BY DEF Unraised
<1> QED BY <1>2, <1>3, HandKept

(* What the host does keeps the flag, the stream and the row in step.      *)
LEMMA HandHost ==
    ASSUME Types, TeamInv, CrewInv, StreamInv, HandInv, Types', TeamInv', Host
    PROVE  HandInv'
<1> USE DEF hostVars, teamVars, jobVars, barrierVars, memberVars, deviceVars, handVars, faultVars
<1>0. aborts' = aborts
  BY DEF Host, Record, Sync, Join, RaiseZeros, Publish, Notify, Ran, StartAlone, RanAlone, Hits, Last,
         Dispatch
<1> SUFFICES ASSUME aborts = 0 PROVE HandInv'
  BY <1>0 DEF HandInv
<1>1. /\ recorded # <<>> => host = "record" /\ recorded = <<Add(step - 1)>>
      /\ host \notin {"sync", "last", "end"} => queue = <<>>
      /\ host = "sync" => queue \in {<<>>, <<Send(step)>>, <<Add(step - 1), Send(step)>>}
      /\ host \in {"last", "end"} => queue \in {<<>>, <<Add(step - 1)>>}
  BY DEF StreamInv
<1>2. HostHolds /\ JobHeld /\ step \in Nat /\ Members \subseteq Nat /\ 0 \in Members /\ Crew \subseteq Members
  BY TeamIsMembers, CrewFacts DEF TeamInv, Types, HostTypes
<1>3. CASE Record
  <2>1. /\ recorded' = <<>> /\ host = "record" /\ host' = "sync" /\ step' = step /\ queue = <<>>
        /\ queue' = queue \o recorded \o <<Send(step)>>
        /\ UNCHANGED <<size, job, withCaller, work, pc, flag, y>>
    BY <1>1, <1>3 DEF Record, Send
  <2>2. Owed' = Owed
    <3>1. /\ <<>> \o <<>> \o <<Send(step)>> = <<Send(step)>>
          /\ <<>> \o <<Add(step - 1)>> \o <<Send(step)>> = <<Add(step - 1), Send(step)>>
          /\ <<Send(step)>> # <<>> /\ Head(<<Send(step)>>) = Send(step)
          /\ <<Add(step - 1), Send(step)>> # <<>> /\ Head(<<Add(step - 1), Send(step)>>) = Add(step - 1)
      BY FewLaunches
    <3>2. CASE recorded = <<>>
      BY <2>1, <3>1, <3>2, SendIsNoAdd DEF Owed
    <3>3. CASE recorded # <<>>
      BY <1>1, <2>1, <3>1, <3>3, SendIsNoAdd DEF Owed
    <3> QED BY <3>2, <3>3
  <2>3. UNCHANGED <<Active, Cur, Crew, CrewSize, Task>>
    BY <2>1 DEF Active, Cur, Crew, CrewSize, Task, Workers
  <2> QED BY <1>0, <1>2, <2>1, <2>2, <2>3, HandFrame
<1>4. CASE Last
  <2>1. /\ recorded' = <<>> /\ host = "record" /\ host' \in {"last", "end"} /\ step' = step /\ queue = <<>>
        /\ queue' = queue \o recorded
        /\ UNCHANGED <<size, job, withCaller, work, pc, flag, y>>
    BY <1>1, <1>4 DEF Last
  <2>2. Owed' = Owed
    <3>1. /\ <<>> \o <<>> = <<>> /\ <<>> \o <<Add(step - 1)>> = <<Add(step - 1)>>
          /\ <<Add(step - 1)>> # <<>> /\ Head(<<Add(step - 1)>>) = Add(step - 1)
      BY FewLaunches
    <3>2. CASE recorded = <<>>
      BY <2>1, <3>1, <3>2 DEF Owed
    <3>3. CASE recorded # <<>>
      BY <1>1, <2>1, <3>1, <3>3, SendIsNoAdd DEF Owed
    <3> QED BY <3>2, <3>3
  <2>3. UNCHANGED <<Active, Cur, Crew, CrewSize, Task>>
    BY <2>1 DEF Active, Cur, Crew, CrewSize, Task, Workers
  <2> QED BY <1>0, <1>2, <2>1, <2>2, <2>3, HandFrame
<1>5. CASE Sync \/ Publish
  <2>1. /\ UNCHANGED <<recorded, queue, step, size, job, withCaller, work, pc, flag, y>>
        /\ \/ host = "sync" /\ host' \in {"join", "start"} /\ queue = <<>>
           \/ host = "publish" /\ host' = "notify"
    BY <1>5 DEF Sync, Publish
  <2>2. Owed' = Owed
    BY <2>1 DEF Owed
  <2>3. UNCHANGED <<Active, Cur, Crew, CrewSize, Task>>
    BY <2>1 DEF Active, Cur, Crew, CrewSize, Task, Workers
  <2> QED BY <1>0, <1>2, <2>1, <2>2, <2>3, HandFrame
<1>6. CASE Notify
  <2>1. /\ UNCHANGED <<recorded, queue, step, size, job, withCaller, work, flag, y>> /\ host = "notify"
        /\ host' = IF withCaller THEN "run" ELSE "hits"
        /\ pc' = IF withCaller THEN [Woken EXCEPT ![0] = "claim"] ELSE Woken
    BY <1>6 DEF Notify, Share
  <2>2. \A k \in Members : pc'[k] \in {"sum", "raise"} => pc'[k] = pc[k]
    BY <1>2, <2>1 DEF Woken
  <2>3. UNCHANGED <<Active, Cur, Crew, CrewSize, Task>>
    BY <2>1 DEF Active, Cur, Crew, CrewSize, Task, Workers
  <2>4. Owed' = Owed
    <3>1. job = step /\ step # NoJob
      BY <1>2, <2>1 DEF JobHeld, HostHolds, Jobs, NoJob
    <3>2. work[step].to = IF withCaller THEN "caller" ELSE "flag"
      BY <2>1, <3>1 DEF CrewInv, LeftCounts, Active, Cur, CallerIn
    <3> QED BY <1>1, <2>1, <3>2 DEF Owed
  <2> QED BY <1>0, <1>2, <2>1, <2>2, <2>3, <2>4, HandFrame
<1>7. CASE Hits
  <2>1. /\ recorded' = Append(recorded, Add(step)) /\ host = "hits" /\ host' = "record" /\ step' = step + 1
        /\ UNCHANGED <<queue, size, job, withCaller, work, pc, flag, y>>
    BY <1>7 DEF Hits, Add
  <2>2. Owed' = Owed
    <3>1. recorded = <<>> /\ Append(<<>>, Add(step)) = <<Add(step)>> /\ <<Add(step)>> # <<>>
      BY <1>1, <2>1, FewLaunches
    <3>2. step' - 1 = step
      BY <1>2, <2>1
    <3> QED BY <2>1, <3>1, <3>2 DEF Owed
  <2>3. UNCHANGED <<Active, Cur, Crew, CrewSize, Task>>
    BY <2>1 DEF Active, Cur, Crew, CrewSize, Task, Workers
  <2> QED BY <1>0, <1>2, <2>1, <2>2, <2>3, HandFrame
<1>8. CASE Join
  <2>1. /\ UNCHANGED <<pc, flag, y, queue>> /\ host \in {"join", "last"}
        /\ recorded = <<>> /\ recorded' = <<>> /\ host' \in {"record", "start", "end"}
        /\ (host = "join" => queue = <<>>) /\ (host = "last" => step' = step)
        /\ job' = NoJob
    BY <1>1, <1>2, <1>8 DEF Join, EndPass, Clear, JobHeld
  <2>2. Owed' = Owed
    BY <2>1 DEF Owed
  <2> QED BY <1>0, <1>2, <2>1, <2>2, HandFrame DEF Active
<1>9. CASE Ran
  <2>1. /\ UNCHANGED <<pc, flag, y, queue>> /\ host = "run" /\ queue = <<>>
        /\ recorded = <<>> /\ recorded' = <<>> /\ host' = "record" /\ job' = NoJob
    BY <1>1, <1>9 DEF Ran, EndPass, Clear
  <2>2. Owed' = Owed
    BY <2>1 DEF Owed
  <2> QED BY <1>0, <1>2, <2>1, <2>2, HandFrame DEF Active
<1>10. CASE RanAlone
  <2>1. /\ UNCHANGED <<pc, flag, y, step, job, work>> /\ host = "alone" /\ host' = "hits" /\ job = NoJob
    BY <1>2, <1>10 DEF RanAlone, JobHeld
  <2>2. work[step].to = "flag"
    BY <2>1 DEF CrewInv, LeftCounts, Active, Cur, CallerIn
  <2>3. Owed' = Owed
    BY <2>1, <2>2 DEF Owed
  <2> QED BY <1>0, <1>2, <2>1, <2>3, HandFrame DEF Active
<1>11. CASE RaiseZeros \/ StartAlone \/ \E c \in BOOLEAN : Dispatch(c)
  <2>1. host = "start" /\ recorded = <<>> /\ queue = <<>> /\ step \in Jobs
    BY <1>1, <1>2, <1>11 DEF RaiseZeros, StartAlone, Dispatch, HostHolds
  <2>2. Owed = {}
    BY <2>1 DEF Owed
  <2>3. \A b \in BlockSet : flag[b] # 1
    BY <2>2 DEF HandInv, FlagIsOwed
  <2>4. /\ job = NoJob /\ \A m \in Members : pc[m] # "raise"
    BY <2>1, NobodyBusy DEF Busy
  <2>5. CASE RaiseZeros
    <3>1. /\ UNCHANGED <<job, pc, step>> /\ host' = "hits"
          /\ flag' = [flag EXCEPT ![Block(step)] = 1]
          /\ y' = [y EXCEPT ![Block(step)] = [of |-> step, whole |-> TRUE]]
      BY <2>5 DEF RaiseZeros
    <3>2. ~Unraised' /\ Owed' = {step}
      BY <2>4, <3>1 DEF Unraised, Active, Owed
    <3>3. \A b \in BlockSet : flag'[b] = 1 => b = Block(step) /\ y'[b].of = step
      BY <2>3, <3>1 DEF Types, HandTypes
    <3>4. \A b \in BlockSet : flag'[b] = 1 => FlagIsOwed(b)'
      BY <3>2, <3>3 DEF FlagIsOwed
    <3> QED BY <2>4, <3>1, <3>2, <3>4 DEF HandInv
  <2>6. CASE StartAlone \/ \E c \in BOOLEAN : Dispatch(c)
    <3>1. /\ flag' = flag /\ step' = step /\ \A m \in Members : pc'[m] # "raise"
          /\ \/ host' = "publish" /\ job' = step
             \/ host' = "alone"
      BY <1>2, <2>4, <2>6 DEF StartAlone, Share, Dispatch, Types, MemberTypes
    <3>2. Cur' = step
      BY <3>1 DEF Cur
    <3>3. Unraised' => Cur' \in Owed'
      BY <3>1, <3>2 DEF Unraised, Owed, Task
    <3> QED BY <2>3, <3>1, <3>3 DEF HandInv
  <2> QED BY <1>11, <2>5, <2>6
<1> QED BY <1>3, <1>4, <1>5, <1>6, <1>7, <1>8, <1>9, <1>10, <1>11 DEF Host

(* What a member's step changes of the row its crew works on.              *)
LEMMA RowOfStep ==
    ASSUME Types, TeamInv, NEW m \in Members, Step(m)
    PROVE  /\ Task'.to = Task.to
           /\ Task'.left = IF Leave(m) THEN Task.left + 1 ELSE Task.left
           /\ \A j \in Jobs : work'[j].to = work[j].to
<1>0. /\ OthersStay(m) /\ Cur \in Jobs /\ W(m) = Task /\ Task \in RowsOf(Task.misses)
      /\ \A w : SetWork(m, w) => Task' = w /\ \A j \in Jobs \ {Cur} : work'[j] = work[j]
  BY StepFrame, TaskShape
<1>a. Cur' = Cur
  BY <1>0 DEF OthersStay
<1>1. CASE Report(m) \/ Raise(m) \/ Enter(m) \/ Arrive(m) \/ Open(m) \/ Held(m)
  <2>1. work' = work /\ ~Leave(m)
    <3>1. work' = work
      BY <1>1 DEF Report, Raise, Enter, Arrive, Open, Held
    <3>2. pc[m] # "leave"
      BY <1>1 DEF Report, Raise, Enter, Arrive, Open, Held
    <3> QED BY <3>1, <3>2 DEF Leave
  <2> QED BY <1>a, <2>1 DEF Task
<1>2. CASE Claim(m) \/ Write(m)
  <2>1. Task'.to = Task.to /\ Task'.left = Task.left
    BY <1>2, BeforeLeaving
  <2>2. \E w : SetWork(m, w)
    BY <1>2 DEF Claim, Write
  <2>3. ~Leave(m)
    BY <1>2 DEF Claim, Write, Leave
  <2> QED BY <1>0, <1>a, <2>1, <2>2, <2>3 DEF Task
<1>3. CASE Leave(m)
  <2>1. Task' = [Task EXCEPT !.left = @ + 1] /\ \A j \in Jobs \ {Cur} : work'[j] = work[j]
    BY <1>0, <1>3 DEF Leave
  <2>2. Task'.to = Task.to /\ Task'.left = Task.left + 1
    BY <1>0, <2>1 DEF RowsOf
  <2> QED BY <1>a, <1>3, <2>1, <2>2 DEF Task
<1>4. CASE Sum(m)
  <2>1. /\ Task' = [Task EXCEPT !.outcome = Verdict(Task.failed), !.failed = FALSE]
        /\ \A j \in Jobs \ {Cur} : work'[j] = work[j]
    BY <1>0, <1>4 DEF Sum
  <2>2. Task'.to = Task.to /\ Task'.left = Task.left
    BY <1>0, <2>1 DEF RowsOf
  <2>3. ~Leave(m)
    BY <1>4 DEF Sum, Leave
  <2> QED BY <1>a, <2>1, <2>2, <2>3 DEF Task
<1> QED BY <1>1, <1>2, <1>3, <1>4 DEF Step

(* After a step as before it, whoever raises a flag is of the crew.        *)
LEMMA RaisesInCrew ==
    ASSUME Types', TeamInv'
    PROVE  \A k \in Members : pc'[k] = "raise" => k \in Crew'
<1>1. (Types /\ TeamInv => \A m \in Members : Busy(m) \/ pc[m] = "report" => Active /\ m \in Crew)'
  BY BusyAreCrew, PTL
<1> QED BY <1>1 DEF Busy

(* A member's steps change nothing of what is to be added, and a flag only *)
(* goes up over the row its crew has just summed.                          *)
LEMMA HandMember ==
    ASSUME Types, TeamInv, CrewInv, HandInv, Types', TeamInv',
           NEW m \in Members, Member(m) \/ Doze(m)
    PROVE  HandInv'
<1> USE DEF hostVars, teamVars, jobVars, barrierVars, memberVars, deviceVars, handVars, faultVars
<1>0. UNCHANGED <<aborts, size, host, step, job, withCaller, recorded, queue>>
  BY DEF Member, Take, Park, Doze, Report, Claim, Write, Enter, Arrive, Open, Held, Leave, Sum, Raise
<1> SUFFICES ASSUME aborts = 0, aborts' = 0 PROVE HandInv'
  BY <1>0 DEF HandInv
<1>1. UNCHANGED <<Active, Cur, Crew, CrewSize>>
  BY <1>0 DEF Active, Cur, Crew, CrewSize, Workers
<1>2. Crew \subseteq Members
  BY CrewFacts
<1>3. CASE Take(m) \/ Park(m) \/ Doze(m)
  <2>1. /\ UNCHANGED <<work, flag, y>>
        /\ \A k \in Members : pc'[k] \in {"sum", "raise"} => pc'[k] = pc[k]
    BY <1>3 DEF Take, Park, Doze, Go, Types, MemberTypes
  <2>2. Owed' = Owed /\ Task' = Task
    BY <1>0, <1>1, <2>1 DEF Owed, Task
  <2> QED BY <1>0, <1>1, <1>2, <2>1, <2>2, HandFrame
<1>4. ASSUME Step(m) PROVE HandInv'
  <2>0. /\ m \in Crew /\ OthersStay(m) /\ Active /\ Cur \in Jobs /\ mine[m].job = Cur /\ Cur' = Cur
        /\ CrewSize \in Nat /\ ~Done(m)
    BY <1>1, <1>4, StepFrame, CrewFacts DEF OthersStay
  <2>1. /\ Task'.to = Task.to /\ Task'.left = (IF Leave(m) THEN Task.left + 1 ELSE Task.left)
        /\ \A j \in Jobs : work'[j].to = work[j].to
    BY <1>4, RowOfStep
  <2>2. Owed' = Owed
    <3>1. host \in {"publish", "notify", "alone"} => step \in Jobs
      BY DEF TeamInv, HostHolds
    <3> QED BY <1>0, <2>1, <3>1 DEF Owed
  <2>3. \A k \in Crew : k # m => \/ pc'[k] = pc[k]
                                 \/ {pc[k], pc'[k]} \cap {"leave", "sum", "raise"} = {}
    <3> SUFFICES ASSUME NEW k \in Crew, k # m
                 PROVE  pc'[k] = pc[k] \/ {pc[k], pc'[k]} \cap {"leave", "sum", "raise"} = {}
      OBVIOUS
    <3>1. CASE Busy(k)
      BY <1>2, <2>0, <3>1, OthersKept
    <3>2. CASE ~Busy(k)
      BY <1>2, <2>0, <3>2, OthersKept
    <3> QED BY <3>1, <3>2
  <2>4. \A k \in Members : pc'[k] = "raise" => k \in Crew
    BY <1>1, RaisesInCrew
  <2>5. \A k \in Crew : pc[k] \in {"sum", "raise"} =>
            /\ Task.to = "flag" /\ Task.left = CrewSize
            /\ \A j \in Crew : pc[j] \in {"sum", "raise"} => j = k
    <3>1. Task \in RowsOf(Task.misses)
      BY <2>0, TaskShape
    <3> QED BY <2>0, <3>1 DEF CrewInv, LeftCounts, OneSums, Task, RowsOf
  <2>6. CASE Report(m) \/ Claim(m) \/ Write(m) \/ Enter(m) \/ Arrive(m) \/ Open(m) \/ Held(m)
    <3>1. UNCHANGED <<flag, y>> /\ pc[m] # "leave" /\ pc'[m] \notin {"sum", "raise"}
      BY <2>6 DEF Report, Claim, Write, Enter, Arrive, Open, Held, Through, Go, Types, MemberTypes
    <3>2. ~Leave(m)
      BY <3>1 DEF Leave
    <3>3. \A k \in Crew : pc'[k] \in {"sum", "raise"} => pc[k] = pc'[k]
      BY <2>3, <3>1
    <3>4. Unraised' => Unraised
      BY <1>1, <2>1, <3>2, <3>3 DEF Unraised
    <3>5. \A k \in Members : pc'[k] = "raise" => pc[k] = "raise"
      BY <2>4, <3>3
    <3> QED BY <1>0, <2>0, <2>2, <3>1, <3>4, <3>5, HandKept
  <2>7. CASE Leave(m)
    <3>1. UNCHANGED <<flag, y>> /\ pc[m] = "leave" /\ pc'[m] # "raise"
      BY <2>7 DEF Leave, Go, Types, MemberTypes
    <3>2. Task.to = "flag" /\ Task.left < CrewSize
      <4>1. Task.to = "flag" /\ Task.left = Cardinality(LeftCrew)
        <5>1. Task \in RowsOf(Task.misses)
          BY <2>0, TaskShape
        <5> QED BY <2>0, <3>1, <5>1 DEF CrewInv, LeftCounts, Task, RowsOf
      <4>2. LeftCrew \in SUBSET Crew /\ m \notin LeftCrew
        BY <2>0, <3>1 DEF LeftCrew, Left
      <4>3. IsFiniteSet(Crew) /\ Cardinality(Crew) = CrewSize
        BY <2>0, CrewFacts
      <4>4. Cardinality(LeftCrew) <= CrewSize /\ Cardinality(LeftCrew) \in Nat
        BY <4>2, <4>3, FS_Subset, FS_CardinalityType
      <4>5. Cardinality(LeftCrew) # CrewSize
        BY <2>0, <4>2, WholeCrew
      <4> QED BY <2>0, <4>1, <4>4, <4>5
    <3>3. Unraised
      BY <2>0, <3>2 DEF Unraised
    <3>4. \A k \in Members : pc'[k] = "raise" => pc[k] = "raise"
      BY <2>3, <2>4, <3>1
    <3> QED BY <1>0, <2>0, <2>2, <3>1, <3>3, <3>4, HandKept
  <2>8. CASE Sum(m)
    <3>1. /\ pc[m] = "sum" /\ flag' = flag
          /\ y' = [y EXCEPT ![Block(Cur)] = [of |-> Cur, whole |-> Whole(W(m))]]
      BY <2>0, <2>8 DEF Sum
    <3>2. Unraised
      BY <2>0, <2>5, <3>1 DEF Unraised
    <3>3. Cur \in Owed /\ \A b \in BlockSet : flag[b] # 1
      BY <3>2, OneOwed
    <3>4. Block(Cur) \in DOMAIN y
      BY <2>0, BlockTyped DEF Types, HandTypes, Jobs
    <3>5. y'[Block(Cur)].of = Cur
      BY <3>1, <3>4
    <3>6. Block(Cur)' = Block(Cur)
      BY <2>0 DEF Block
    <3> QED BY <2>0, <2>2, <3>1, <3>3, <3>5, <3>6 DEF HandInv
  <2>9. CASE Raise(m)
    <3>1. /\ pc[m] = "raise" /\ y' = y /\ pc'[m] = "report"
          /\ flag' = [flag EXCEPT ![Block(Cur)] = 1]
      BY <2>0, <2>9 DEF Raise, Go, Types, MemberTypes
    <3>2. Unraised /\ Task.left = CrewSize
      BY <2>0, <2>5, <3>1 DEF Unraised
    <3>3. Cur \in Owed /\ \A b \in BlockSet : flag[b] # 1
      BY <3>2, OneOwed
    <3>4. y[Block(Cur)].of = Cur
      BY <3>1 DEF HandInv
    <3>5. \A k \in Crew : pc'[k] \notin {"sum", "raise"}
      BY <2>0, <2>3, <2>5, <3>1
    <3>6. ~Leave(m)
      BY <3>1 DEF Leave
    <3>7. ~Unraised'
      BY <1>1, <2>0, <2>1, <3>2, <3>5, <3>6 DEF Unraised
    <3>8. \A b \in BlockSet : flag'[b] = 1 => b = Block(Cur)
      BY <3>1, <3>3 DEF Types, HandTypes
    <3>9. \A b \in BlockSet : flag'[b] = 1 => FlagIsOwed(b)'
      BY <2>2, <3>1, <3>3, <3>4, <3>7, <3>8 DEF FlagIsOwed, Block
    <3>10. \A k \in Members : pc'[k] # "raise"
      BY <2>4, <3>5
    <3> QED BY <3>7, <3>9, <3>10 DEF HandInv
  <2> QED BY <1>4, <2>6, <2>7, <2>8, <2>9 DEF Step
<1> QED BY <1>3, <1>4 DEF Member, Step

(* The device takes a launch that is over off the stream, and the flag of  *)
(* the row it has added goes down with the debt.                           *)
LEMMA HandDevice ==
    ASSUME Types, TeamInv, StreamInv, HandInv, SeenRaised, Device \/ UNCHANGED vars
    PROVE  HandInv'
<1> USE DEF hostVars, teamVars, jobVars, barrierVars, memberVars, deviceVars, handVars, faultVars
<1>0. UNCHANGED <<aborts, size, host, step, job, withCaller, work, pc, recorded, y>>
  BY DEF Device, SendRow, SeeFlag, LowerFlag, vars
<1> SUFFICES ASSUME aborts = 0, aborts' = 0 PROVE HandInv'
  BY <1>0 DEF HandInv
<1>1. UNCHANGED <<Active, Cur, Crew, CrewSize, Task>>
  BY <1>0 DEF Active, Cur, Crew, CrewSize, Task, Workers
<1>2. Unraised' <=> Unraised
  BY <1>0, <1>1 DEF Unraised
<1>3. CASE SeeFlag \/ UNCHANGED vars
  <2>1. queue' = queue /\ flag' = flag
    BY <1>3 DEF SeeFlag, vars
  <2>2. Owed' = Owed
    BY <1>0, <2>1 DEF Owed
  <2> QED BY <1>0, <1>1, <1>2, <2>1, <2>2, HandKept
<1>4. /\ recorded # <<>> => host = "record" /\ recorded = <<Add(step - 1)>>
      /\ host \notin {"sync", "last", "end"} => queue = <<>>
      /\ host = "sync" => queue \in {<<>>, <<Send(step)>>, <<Add(step - 1), Send(step)>>}
      /\ host \in {"last", "end"} => queue \in {<<>>, <<Add(step - 1)>>}
  BY DEF StreamInv
<1>5. /\ Head(<<Send(step)>>) = Send(step) /\ Tail(<<Send(step)>>) = <<>>
      /\ Head(<<Add(step - 1), Send(step)>>) = Add(step - 1)
      /\ Tail(<<Add(step - 1), Send(step)>>) = <<Send(step)>>
      /\ Head(<<Add(step - 1)>>) = Add(step - 1) /\ Tail(<<Add(step - 1)>>) = <<>>
      /\ <<Send(step)>> # <<>>
  BY FewLaunches
<1>6. CASE SendRow
  <2>1. queue # <<>> /\ Head(queue).op = "send" /\ queue' = Tail(queue) /\ flag' = flag
    BY <1>6 DEF SendRow
  <2>2. queue = <<Send(step)>> /\ host = "sync"
    BY <1>4, <1>5, <2>1, SendIsNoAdd
  <2>3. queue' = <<>> /\ recorded = <<>>
    BY <1>4, <1>5, <2>1, <2>2
  <2>4. Owed' = Owed
    BY <1>0, <2>1, <2>2, <2>3 DEF Owed
  <2> QED BY <1>0, <1>1, <1>2, <2>1, <2>4, HandKept
<1>7. CASE LowerFlag
  <2>1. /\ queue # <<>> /\ Head(queue).op = "add" /\ flag[Block(Head(queue).of)] = 1
        /\ queue' = Tail(queue) /\ flag' = [flag EXCEPT ![Block(Head(queue).of)] = 0]
    BY <1>7 DEF LowerFlag, Types, DeviceTypes, SeenRaised
  <2>2. /\ host \in {"sync", "last", "end"} /\ Head(queue) = Add(step - 1)
        /\ queue' \in {<<>>, <<Send(step)>>} /\ recorded = <<>>
    BY <1>4, <1>5, <2>1, SendIsNoAdd
  <2>3. Owed = {step - 1}
    BY <2>1, <2>2 DEF Owed
  <2>4. Owed' = {}
    BY <1>0, <1>5, <2>2, SendIsNoAdd DEF Owed
  <2>5. Head(queue).of = step - 1 /\ Block(step - 1) \in BlockSet
    <3>1. Head(queue) \in Launches
      BY <2>1, StreamTyped DEF Types, DeviceTypes
    <3>2. Head(queue).of = step - 1
      BY <2>2, SendIsNoAdd
    <3> QED BY <3>1, <3>2, BlockTyped DEF Launches, Jobs
  <2>6. FlagIsOwed(Block(step - 1))
    BY <2>1, <2>5 DEF HandInv
  <2>7. ~Unraised
    BY <2>1, <2>5, OneOwed
  <2>8. \A b \in BlockSet : flag[b] = 1 => b = Block(step - 1)
    BY <2>3 DEF HandInv, FlagIsOwed
  <2>9. \A b \in BlockSet : flag'[b] # 1
    BY <2>1, <2>5, <2>8 DEF Types, HandTypes
  <2>10. \A m \in Members : pc'[m] = "raise" => y'[Block(Cur')].of = Cur'
    BY <1>0, <1>1 DEF HandInv, Block
  <2> QED BY <1>2, <2>7, <2>9, <2>10 DEF HandInv, Block
<1> QED BY <1>3, <1>6, <1>7 DEF Device

(* Every step keeps the hand-off.                                          *)
LEMMA HandStep ==
    /\ Types /\ TeamInv /\ CrewInv /\ RowInv /\ StreamInv /\ HandInv /\ SeenRaised
    /\ [Next]_vars
    => (StreamInv /\ HandInv /\ SeenRaised)'
<1> SUFFICES ASSUME Types, TeamInv, CrewInv, RowInv, StreamInv, HandInv, SeenRaised, [Next]_vars
             PROVE  StreamInv' /\ HandInv' /\ SeenRaised'
  OBVIOUS
<1>0. Types' /\ TeamInv'
  BY TeamStep
<1>1. StreamInv' /\ SeenRaised'
  BY StreamStep, SeenStep
<1>2. HandInv'
  <2>1. CASE Host
    BY <1>0, <2>1, HandHost
  <2>2. CASE Abort
    <3>1. aborts \in Nat /\ aborts' = aborts + 1
      BY <2>2 DEF Abort, Types, FaultTypes
    <3>2. aborts' # 0
      BY <3>1
    <3> QED BY <3>2 DEF HandInv
  <2>3. CASE Device \/ UNCHANGED vars
    BY <2>3, HandDevice
  <2>4. CASE \E m \in Members : Member(m) \/ Doze(m)
    BY <1>0, <2>4, HandMember
  <2> QED BY <2>1, <2>2, <2>3, <2>4 DEF Next
<1> QED BY <1>1, <1>2

(* Nothing is owed to the device when the program starts.                  *)
LEMMA HandInit == Init => StreamInv /\ HandInv /\ SeenRaised
<1> SUFFICES ASSUME Init PROVE StreamInv /\ HandInv /\ SeenRaised
  OBVIOUS
<1>1. StreamInv /\ SeenRaised
  BY DEF Init, StreamInv, SeenRaised
<1>2. ~Active /\ (\A b \in BlockSet : flag[b] = 0) /\ \A m \in Members : pc[m] # "raise"
  BY DEF Init, Active
<1> QED BY <1>1, <1>2 DEF HandInv, Unraised

(* While no pass is cut off, the row the device adds is the one of its own *)
(* step: it waited for that row's flag, and no other row has been put in   *)
(* its place.                                                              *)
THEOREM AddsItsOwnRow == Spec => []AddsOwnRow
<1>1. Types /\ StreamInv /\ HandInv /\ SeenRaised => AddsOwnRow
  <2> SUFFICES ASSUME Types, StreamInv, HandInv, SeenRaised, aborts = 0, adding
               PROVE  LET s == Head(queue).of IN y[Block(s)].of = s /\ flag[Block(s)] = 1
    BY DEF AddsOwnRow, OwnRow
  <2>1. queue # <<>> /\ Head(queue).op = "add" /\ flag[Block(Head(queue).of)] = 1 /\ Head(queue) \in Launches
    BY StreamTyped DEF Types, DeviceTypes, SeenRaised
  <2>2. Head(queue) = Add(step - 1) /\ host \in {"sync", "last", "end"}
    <3>1. /\ Head(<<Send(step)>>) = Send(step) /\ Head(<<Add(step - 1), Send(step)>>) = Add(step - 1)
          /\ Head(<<Add(step - 1)>>) = Add(step - 1)
      BY FewLaunches
    <3> QED BY <2>1, <3>1, SendIsNoAdd DEF StreamInv
  <2>3. Owed = {step - 1} /\ Head(queue).of = step - 1
    BY <2>1, <2>2, SendIsNoAdd DEF Owed
  <2>4. Block(Head(queue).of) \in BlockSet
    BY <2>1, BlockTyped DEF Launches, Jobs
  <2>5. FlagIsOwed(Block(Head(queue).of))
    BY <2>1, <2>4 DEF HandInv
  <2> QED BY <2>1, <2>3, <2>5 DEF FlagIsOwed
<1> QED BY <1>1, HandInit, HandStep, CrewAlways, PTL DEF Spec

=============================================================================
