------------------------------ MODULE HostTeam ------------------------------
(***************************************************************************)
(* phobos-gguf: a decode step's expert misses on the host.  The recording  *)
(* thread starts a row on a team of spinning workers and goes on; the      *)
(* device's stream waits on a flag in mapped memory that the last worker   *)
(* raises, adds the row and lowers the flag.                               *)
(*   team.rs     the team: epochs, parking, the barrier, run/start/join    *)
(*   decode.rs   one row: three phases of chunks, the guard's last member  *)
(*   handoff.rs  the flag and the row in mapped memory                     *)
(*   op.rs       the recording thread's loop over a pass's blocks          *)
(* Atomics are sequentially consistent here; the Release and Acquire pairs *)
(* of the code order every plain read below after the write it relies on.  *)
(***************************************************************************)
EXTENDS Integers, Sequences, FiniteSets

CONSTANTS
    Sizes,          \* sizes the team may have: the caller of run and the workers
    Steps,          \* decode steps, one block of the model each
    Blocks,         \* blocks of the model, each with a hand-off of its own
    MissCounts,     \* how many misses a row may have
    UpChunks,       \* gate and up chunks of one miss
    DownChunks,     \* down chunks of one miss
    RunOk,          \* whether a row may also be run with the caller (experts_row)
    PanicPhases,    \* phases a worker may panic in
    MaxPanic,       \* how many do
    MaxFail,        \* kernels that return an error
    MaxAbort        \* passes an error ends with a row just started

ASSUME TeamAssumption ==
    /\ Sizes \subseteq Nat \ {0}
    /\ \E n \in Sizes : \A k \in Sizes : k <= n
    /\ {Steps, MaxPanic, MaxFail, MaxAbort} \subseteq Nat
    /\ {Blocks, UpChunks, DownChunks} \subseteq Nat \ {0}
    /\ MissCounts \subseteq Nat
    /\ RunOk \in BOOLEAN
    /\ PanicPhases \subseteq 1..3

Members == 0..((CHOOSE n \in Sizes : \A k \in Sizes : k <= n) - 1)
Jobs == 1..Steps        \* a job is named by the decode step it belongs to
NoJob == 0
BlockSet == 0..(Blocks - 1)
Block(s) == s % Blocks

VARIABLES
    size,       \* members of the team, fixed when it is built
    host,       \* what the recording thread does next
    step,       \* the decode step it is at
    row,        \* Experts.started: the row it has to join
    epoch, job, withCaller, finished,   \* Shared: the current job
    arrived, generation,                \* Shared: the barrier
    started,    \* Team.started: the job the team holds on to
    live,       \* jobs whose closure and buffers exist
    pc, phase,  \* per member: where it is
    seen,       \* per worker: the last epoch it ran
    mine,       \* per member: its job, its index in it and the job's size
    at,         \* per member: its claimed chunk, or the next miss to quantize
    turn,       \* per member: the generation it waits to end
    work,       \* per job: the row's counters, buffers and outcome
    queue,      \* the stream: launches the device has not finished
    recorded,   \* launches recorded for the next segment
    adding,     \* whether host_add has seen its flag
    flag, y,    \* per block: the mapped flag and row
    told,       \* per step: what the recording thread was told of its row
    fails, panics, aborts

jobVars == <<epoch, job, withCaller, finished, started, live>>
barrierVars == <<arrived, generation, turn>>
memberVars == <<pc, phase, seen, mine, at>>
teamVars == <<jobVars, barrierVars, memberVars, work>>
deviceVars == <<queue, recorded, adding>>
handVars == <<flag, y>>
faultVars == <<fails, panics, aborts>>
hostVars == <<host, step, row, told>>
vars == <<size, hostVars, teamVars, deviceVars, handVars, faultVars>>

(* A row of `m` misses.  A buffer element is "raw", "ok" or "bad".         *)
Row(m, to) ==
    [misses |-> m, to |-> to, first |-> 0, second |-> 0, left |-> 0,
     gu |-> [c \in 0..(m * UpChunks - 1) |-> "raw"],
     hs |-> [k \in 0..(m - 1) |-> "raw"],
     ys |-> [c \in 0..(m * DownChunks - 1) |-> "raw"],
     failed |-> FALSE, outcome |-> "ok", panicked |-> FALSE]

Whole(r) == \A c \in DOMAIN r.ys : r.ys[c] = "ok"
NoRow == [of |-> NoJob, whole |-> FALSE]
Idle == [job |-> NoJob, index |-> 0, size |-> 0]

Init ==
    /\ size \in Sizes
    /\ host = "record" /\ step = 1 /\ row = NoJob
    /\ told = [s \in Jobs |-> "nothing"]
    /\ epoch = 0 /\ job = NoJob /\ withCaller = TRUE /\ finished = 0
    /\ arrived = 0 /\ generation = 0
    /\ started = NoJob /\ live = {}
    /\ pc = [m \in Members |-> IF m \in 1..(size - 1) THEN "spin" ELSE "out"]
    /\ phase = [m \in Members |-> 1]
    /\ seen = [m \in Members |-> 0]
    /\ mine = [m \in Members |-> Idle]
    /\ at = [m \in Members |-> 0]
    /\ turn = [m \in Members |-> 0]
    /\ work = [j \in Jobs |-> Row(0, "flag")]
    /\ queue = <<>> /\ recorded = <<>> /\ adding = FALSE
    /\ flag = [b \in BlockSet |-> 0]
    /\ y = [b \in BlockSet |-> NoRow]
    /\ fails = 0 /\ panics = 0 /\ aborts = 0

-----------------------------------------------------------------------------
(* The recording thread (op.rs route, run_rows, start_host_misses).        *)

(* The block's segment up to its sync point goes to the stream: what was   *)
(* recorded before it, then the copy of the row into mapped memory.        *)
Record ==
    /\ host = "record" /\ step <= Steps
    /\ queue' = queue \o recorded \o << [op |-> "send", of |-> step] >>
    /\ recorded' = <<>>
    /\ host' = "sync"
    /\ UNCHANGED <<size, step, row, told, teamVars, adding, handVars, faultVars>>

(* The sync point returns.  A row that was started is joined before this   *)
(* block's is.                                                             *)
Sync ==
    /\ host = "sync" /\ queue = <<>>
    /\ host' = IF row # NoJob THEN "join" ELSE "start"
    /\ UNCHANGED <<size, step, row, told, teamVars, deviceVars, handVars, faultVars>>

(* The pass ends with an error: what was recorded is dropped by the next   *)
(* pass, what was launched runs on.                                        *)
EndPass ==
    /\ recorded' = <<>>
    /\ step' = step + 1
    /\ host' = "record"

(* Team::wait: every worker is done with the job, which is cleared.        *)
Waited == finished + 1 >= size

Clear(j) ==
    /\ job' = NoJob
    /\ live' = live \ {j}

(* The definitions named Slip... are plausible mistakes in the definition  *)
(* that follows; nothing refers to them.                                   *)
SlipErrorLost(failed) == "ok"
Verdict(failed) == IF failed THEN "err" ELSE "ok"

SlipJoinAtOnce ==
    /\ host \in {"join", "last"} /\ row # NoJob
    /\ IF started # NoJob
       THEN Clear(started) /\ started' = NoJob
       ELSE UNCHANGED <<job, live, started>>
    /\ told' = [told EXCEPT ![row] = work[row].outcome]
    /\ row' = NoJob
    /\ IF host = "last" THEN host' = "end" /\ UNCHANGED <<step, recorded>>
       ELSE IF work[row].outcome = "err" THEN EndPass
       ELSE host' = "start" /\ UNCHANGED <<step, recorded>>
    /\ UNCHANGED <<size, epoch, withCaller, finished, barrierVars, memberVars, work, queue,
                   adding, handVars, faultVars>>

(* StartedRow::join: Team::join, which has nothing to wait for when the    *)
(* caller ran the job, and then the row's error if it left one.            *)
Join ==
    /\ host \in {"join", "last"} /\ row # NoJob
    /\ IF started # NoJob
       THEN Waited /\ Clear(started) /\ started' = NoJob
       ELSE UNCHANGED <<job, live, started>>
    /\ told' = [told EXCEPT ![row] = work[row].outcome]
    /\ row' = NoJob
    /\ IF host = "last" THEN host' = "end" /\ UNCHANGED <<step, recorded>>
       ELSE IF work[row].outcome = "err" THEN EndPass
       ELSE host' = "start" /\ UNCHANGED <<step, recorded>>
    /\ UNCHANGED <<size, epoch, withCaller, finished, barrierVars, memberVars, work, queue,
                   adding, handVars, faultVars>>

(* Handoff::start with no misses: a zero row is raised at once.            *)
RaiseZeros ==
    /\ host = "start" /\ 0 \in MissCounts
    /\ y' = [y EXCEPT ![Block(step)] = [of |-> step, whole |-> TRUE]]
    /\ flag' = [flag EXCEPT ![Block(step)] = 1]
    /\ host' = "hits"
    /\ UNCHANGED <<size, step, row, told, teamVars, deviceVars, faultVars>>

(* Team::dispatch: the job is set, then the epoch moves under the lock,    *)
(* then whoever is parked is woken.  `caller` is whether the caller is a   *)
(* member: run() for experts_row, start() for a row handed to the device.  *)
Dispatch(caller) ==
    /\ host = "start" /\ (IF caller THEN RunOk ELSE size > 1)
    /\ \E m \in MissCounts \ {0} :
          work' = [work EXCEPT ![step] = Row(m, IF caller THEN "caller" ELSE "flag")]
    /\ live' = live \cup {step}
    /\ job' = step
    /\ withCaller' = caller
    /\ finished' = 0
    /\ host' = "publish"
    /\ UNCHANGED <<size, step, row, told, epoch, started, barrierVars, memberVars, deviceVars,
                   handVars, faultVars>>

Publish ==
    /\ host = "publish"
    /\ epoch' = epoch + 1
    /\ host' = "notify"
    /\ UNCHANGED <<size, step, row, told, job, withCaller, finished, started, live,
                   barrierVars, memberVars, work, deviceVars, handVars, faultVars>>

Woken == [m \in Members |-> IF pc[m] = "asleep" THEN "park" ELSE pc[m]]

(* The caller's share of the job, as member 0 of `n`.                      *)
Share(p, n) ==
    /\ pc' = [p EXCEPT ![0] = "claim"]
    /\ mine' = [mine EXCEPT ![0] = [job |-> step, index |-> 0, size |-> n]]
    /\ phase' = [phase EXCEPT ![0] = 1]

Notify ==
    /\ host = "notify"
    /\ \/ /\ withCaller
          /\ Share(Woken, size)
          /\ host' = "run"
          /\ UNCHANGED <<started, row>>
       \/ /\ ~withCaller
          /\ pc' = Woken
          /\ started' = step /\ row' = step
          /\ host' = "hits"
          /\ UNCHANGED <<mine, phase>>
    /\ UNCHANGED <<size, step, told, epoch, job, withCaller, finished, live, barrierVars, seen,
                   at, work, deviceVars, handVars, faultVars>>

(* run() returns to experts_row, whose error ends the pass.                *)
Ran ==
    /\ host = "run" /\ pc[0] = "out" /\ Waited
    /\ Clear(step)
    /\ told' = [told EXCEPT ![step] = Verdict(work[step].failed)]
    /\ IF work[step].failed THEN EndPass
       ELSE step' = step + 1 /\ host' = "record" /\ UNCHANGED recorded
    /\ UNCHANGED <<size, row, epoch, withCaller, finished, started, barrierVars, memberVars,
                   work, queue, adding, handVars, faultVars>>

(* start() on a team with no workers: the caller runs the job before it    *)
(* goes on.                                                                *)
StartAlone ==
    /\ host = "start" /\ size = 1
    /\ \E m \in MissCounts \ {0} : work' = [work EXCEPT ![step] = Row(m, "flag")]
    /\ live' = live \cup {step}
    /\ Share(pc, 1)
    /\ host' = "alone"
    /\ UNCHANGED <<size, step, row, told, epoch, job, withCaller, finished, started,
                   barrierVars, seen, at, deviceVars, handVars, faultVars>>

RanAlone ==
    /\ host = "alone" /\ pc[0] = "out"
    /\ live' = live \ {step}
    /\ row' = step
    /\ host' = "hits"
    /\ UNCHANGED <<size, step, told, epoch, job, withCaller, finished, started, barrierVars,
                   memberVars, work, deviceVars, handVars, faultVars>>

(* The hits go to the stream at once, host_add heads the next segment.     *)
Hits ==
    /\ host = "hits"
    /\ recorded' = Append(recorded, [op |-> "add", of |-> step])
    /\ step' = step + 1
    /\ host' = "record"
    /\ UNCHANGED <<size, row, told, teamVars, queue, adding, handVars, faultVars>>

(* An error of any call of the block once its row was handed over.         *)
Abort ==
    /\ host = "hits" /\ aborts < MaxAbort
    /\ aborts' = aborts + 1
    /\ EndPass
    /\ UNCHANGED <<size, row, told, teamVars, queue, adding, handVars, fails, panics>>

(* The last pass ends: its tail runs, and what is started is joined when   *)
(* the cache is dropped.                                                   *)
Last ==
    /\ host = "record" /\ step > Steps
    /\ queue' = queue \o recorded
    /\ recorded' = <<>>
    /\ host' = IF row # NoJob THEN "last" ELSE "end"
    /\ UNCHANGED <<size, step, row, told, teamVars, adding, handVars, faultVars>>

Host ==
    \/ Record \/ Sync \/ Join \/ RaiseZeros \/ Publish \/ Notify \/ Ran
    \/ StartAlone \/ RanAlone \/ Hits \/ Last
    \/ \E caller \in BOOLEAN : Dispatch(caller)

-----------------------------------------------------------------------------
(* A worker between jobs (team.rs work).                                   *)

Go(m, to) == pc' = [pc EXCEPT ![m] = to]

(* It sees the epoch move and reads the job.                               *)
Take(m) ==
    /\ pc[m] = "spin" /\ epoch # seen[m]
    /\ seen' = [seen EXCEPT ![m] = epoch]
    /\ mine' = [mine EXCEPT ![m] =
          [job |-> job,
           index |-> IF withCaller THEN m ELSE m - 1,
           size |-> IF withCaller THEN size ELSE size - 1]]
    /\ phase' = [phase EXCEPT ![m] = 1]
    /\ Go(m, IF job = NoJob THEN "report" ELSE "claim")
    /\ UNCHANGED <<size, hostVars, jobVars, barrierVars, at, work, deviceVars, handVars,
                   faultVars>>

SlipParkUnseen(m) ==
    /\ pc[m] = "park"
    /\ Go(m, "asleep")
    /\ UNCHANGED <<size, hostVars, jobVars, barrierVars, phase, seen, mine, at, work,
                   deviceVars, handVars, faultVars>>

(* It has spun for SPIN, and parks unless the epoch moved meanwhile: the   *)
(* look and the wait are under the lock the epoch moves under.             *)
Doze(m) ==
    /\ pc[m] = "spin" /\ epoch = seen[m]
    /\ Go(m, "park")
    /\ UNCHANGED <<size, hostVars, jobVars, barrierVars, phase, seen, mine, at, work,
                   deviceVars, handVars, faultVars>>

Park(m) ==
    /\ pc[m] = "park"
    /\ Go(m, IF epoch = seen[m] THEN "asleep" ELSE "spin")
    /\ UNCHANGED <<size, hostVars, jobVars, barrierVars, phase, seen, mine, at, work,
                   deviceVars, handVars, faultVars>>

Report(m) ==
    /\ pc[m] = "report"
    /\ IF m = 0
       THEN Go(m, "out") /\ UNCHANGED finished
       ELSE Go(m, "spin") /\ finished' = finished + 1
    /\ mine' = [mine EXCEPT ![m] = Idle]
    /\ phase' = [phase EXCEPT ![m] = 1]
    /\ UNCHANGED <<size, hostVars, epoch, job, withCaller, started, live, barrierVars, seen,
                   at, work, deviceVars, handVars, faultVars>>

-----------------------------------------------------------------------------
(* A member's share of a row (decode.rs member).  Phase 1 writes gate and  *)
(* up chunks, phase 2 quantizes every size-th miss, phase 3 writes down    *)
(* chunks; a barrier ends the first two.                                   *)

W(m) == work[mine[m].job]
SetWork(m, w) == work' = [work EXCEPT ![mine[m].job] = w]

Total(w, p) == w.misses * (IF p = 1 THEN UpChunks ELSE DownChunks)
UpOf(w, k) == {w.gu[c] : c \in (k * UpChunks)..((k + 1) * UpChunks - 1)}

(* The next chunk, from the phase's counter or by stride.                  *)
Claim(m) ==
    LET w == W(m)
        i == CASE phase[m] = 1 -> w.first [] phase[m] = 2 -> at[m] [] phase[m] = 3 -> w.second
        any == i < (IF phase[m] = 2 THEN w.misses ELSE Total(w, phase[m]))
    IN
    /\ pc[m] = "claim"
    /\ at' = [at EXCEPT ![m] = IF any THEN i ELSE 0]
    /\ SetWork(m, CASE phase[m] = 1 -> [w EXCEPT !.first = i + 1]
                    [] phase[m] = 2 -> w
                    [] phase[m] = 3 -> [w EXCEPT !.second = i + 1])
    /\ Go(m, IF any THEN "write"
             ELSE IF phase[m] < 3 THEN "enter"
             ELSE IF w.to = "flag" THEN "leave" ELSE "report")
    /\ UNCHANGED <<size, hostVars, jobVars, barrierVars, phase, seen, mine, deviceVars,
                   handVars, faultVars>>

(* The kernel over the chunk.  A kernel that fails is noted and its chunk  *)
(* left; a panic unwinds to the guard.                                     *)
Write(m) ==
    LET w == W(m)
        i == at[m]
        whole == CASE phase[m] = 1 -> TRUE
                   [] phase[m] = 2 -> UpOf(w, i) = {"ok"}
                   [] phase[m] = 3 -> w.hs[i \div DownChunks] = "ok"
        Put(v) == CASE phase[m] = 1 -> [w EXCEPT !.gu[i] = v]
                    [] phase[m] = 2 -> [w EXCEPT !.hs[i] = v]
                    [] phase[m] = 3 -> [w EXCEPT !.ys[i] = v]
        Again ==
            /\ Go(m, "claim")
            /\ at' = [at EXCEPT ![m] = IF phase[m] = 2 THEN i + mine[m].size ELSE 0]
    IN
    /\ pc[m] = "write"
    /\ \/ /\ SetWork(m, Put(IF whole THEN "ok" ELSE "bad"))
          /\ Again
          /\ UNCHANGED <<fails, panics>>
       \/ /\ fails < MaxFail /\ fails' = fails + 1
          /\ SetWork(m, [Put("bad") EXCEPT !.failed = TRUE])
          /\ Again
          /\ UNCHANGED panics
       \/ /\ m # 0 /\ phase[m] \in PanicPhases /\ panics < MaxPanic
          /\ panics' = panics + 1
          /\ SetWork(m, [w EXCEPT !.panicked = TRUE])
          /\ Go(m, IF w.to = "flag" THEN "leave" ELSE "report")
          /\ at' = [at EXCEPT ![m] = 0]
          /\ UNCHANGED fails
    /\ UNCHANGED <<size, hostVars, jobVars, barrierVars, phase, seen, mine, deviceVars,
                   handVars, aborts>>

(* Member::barrier: the generation is read before the arrival is counted.  *)
Enter(m) ==
    /\ pc[m] = "enter"
    /\ turn' = [turn EXCEPT ![m] = generation]
    /\ Go(m, "arrive")
    /\ UNCHANGED <<size, hostVars, jobVars, arrived, generation, phase, seen, mine, at, work,
                   deviceVars, handVars, faultVars>>

SlipOpenEarly(m) ==
    /\ pc[m] = "arrive"
    /\ arrived' = arrived + 1
    /\ Go(m, IF arrived' + 1 >= mine[m].size THEN "open" ELSE "held")
    /\ UNCHANGED <<size, hostVars, jobVars, generation, turn, phase, seen, mine, at, work,
                   deviceVars, handVars, faultVars>>

Arrive(m) ==
    /\ pc[m] = "arrive"
    /\ arrived' = arrived + 1
    /\ Go(m, IF arrived' = mine[m].size THEN "open" ELSE "held")
    /\ UNCHANGED <<size, hostVars, jobVars, generation, turn, phase, seen, mine, at, work,
                   deviceVars, handVars, faultVars>>

Through(m) ==
    /\ phase' = [phase EXCEPT ![m] = @ + 1]
    /\ at' = [at EXCEPT ![m] = IF phase[m] = 1 THEN mine[m].index ELSE 0]
    /\ turn' = [turn EXCEPT ![m] = 0]
    /\ Go(m, "claim")

Open(m) ==
    /\ pc[m] = "open"
    /\ arrived' = 0
    /\ generation' = generation + 1
    /\ Through(m)
    /\ UNCHANGED <<size, hostVars, jobVars, seen, mine, work, deviceVars, handVars,
                   faultVars>>

Held(m) ==
    /\ pc[m] = "held" /\ generation # turn[m]
    /\ Through(m)
    /\ UNCHANGED <<size, hostVars, jobVars, arrived, generation, seen, mine, work, deviceVars,
                   handVars, faultVars>>

(* The guard of a started row: the last member to leave sums into the      *)
(* mapped row, hands the error over and raises the flag.                   *)
Leave(m) ==
    LET w == W(m) IN
    /\ pc[m] = "leave"
    /\ SetWork(m, [w EXCEPT !.left = @ + 1])
    /\ Go(m, IF w.left + 1 = mine[m].size THEN "sum" ELSE "report")
    /\ UNCHANGED <<size, hostVars, jobVars, barrierVars, phase, seen, mine, at, deviceVars,
                   handVars, faultVars>>

Sum(m) ==
    LET w == W(m) IN
    /\ pc[m] = "sum"
    /\ y' = [y EXCEPT ![Block(mine[m].job)] = [of |-> mine[m].job, whole |-> Whole(w)]]
    /\ SetWork(m, [w EXCEPT !.outcome = Verdict(w.failed), !.failed = FALSE])
    /\ Go(m, "raise")
    /\ UNCHANGED <<size, hostVars, jobVars, barrierVars, phase, seen, mine, at, deviceVars,
                   flag, faultVars>>

SlipCountUp(m) ==
    /\ pc[m] = "raise"
    /\ flag' = [flag EXCEPT ![Block(mine[m].job)] = @ + 2]
    /\ Go(m, "report")
    /\ UNCHANGED <<size, hostVars, jobVars, barrierVars, phase, seen, mine, at, work,
                   deviceVars, y, faultVars>>

Raise(m) ==
    /\ pc[m] = "raise"
    /\ flag' = [flag EXCEPT ![Block(mine[m].job)] = 1]
    /\ Go(m, "report")
    /\ UNCHANGED <<size, hostVars, jobVars, barrierVars, phase, seen, mine, at, work,
                   deviceVars, y, faultVars>>

Member(m) ==
    \/ Take(m) \/ Park(m) \/ Report(m) \/ Claim(m) \/ Write(m)
    \/ Enter(m) \/ Arrive(m) \/ Open(m) \/ Held(m)
    \/ Leave(m) \/ Sum(m) \/ Raise(m)

-----------------------------------------------------------------------------
(* The device: the stream runs its launches in order (handoff.rs).         *)

SendRow ==
    /\ queue # <<>> /\ Head(queue).op = "send"
    /\ queue' = Tail(queue)
    /\ UNCHANGED <<size, hostVars, teamVars, recorded, adding, handVars, faultVars>>

SeeFlag ==
    /\ queue # <<>> /\ Head(queue).op = "add" /\ ~adding
    /\ flag[Block(Head(queue).of)] # 0
    /\ adding' = TRUE
    /\ UNCHANGED <<size, hostVars, teamVars, queue, recorded, handVars, faultVars>>

SlipLeftUp ==
    /\ adding
    /\ queue' = Tail(queue)
    /\ adding' = FALSE
    /\ UNCHANGED <<size, hostVars, teamVars, recorded, handVars, faultVars>>

LowerFlag ==
    /\ adding
    /\ flag' = [flag EXCEPT ![Block(Head(queue).of)] = 0]
    /\ queue' = Tail(queue)
    /\ adding' = FALSE
    /\ UNCHANGED <<size, hostVars, teamVars, recorded, y, faultVars>>

Device == SendRow \/ SeeFlag \/ LowerFlag

-----------------------------------------------------------------------------
Next ==
    \/ Host \/ Abort \/ Device
    \/ \E m \in Members : Member(m) \/ Doze(m)

Spec == Init /\ [][Next]_vars

(* Threads and the device run on; when a worker stops spinning is its own  *)
(* affair.                                                                 *)
Fairness ==
    /\ WF_vars(Host) /\ WF_vars(Device)
    /\ \A m \in Members : WF_vars(Member(m))

FairSpec == Spec /\ Fairness

-----------------------------------------------------------------------------
Chunk == {"raw", "ok", "bad"}
Busy(m) == pc[m] \in {"claim", "write", "enter", "arrive", "open", "held", "leave", "sum", "raise"}

TypeOK ==
    /\ size \in Sizes
    /\ host \in {"record", "sync", "join", "start", "publish", "notify", "run", "alone",
                 "hits", "last", "end"}
    /\ step \in 1..(Steps + 1)
    /\ {row, job, started} \subseteq Jobs \cup {NoJob}
    /\ live \subseteq Jobs
    /\ {epoch, finished, arrived, generation} \subseteq Nat
    /\ withCaller \in BOOLEAN /\ adding \in BOOLEAN
    /\ \A m \in Members :
          /\ Busy(m) \/ pc[m] \in {"out", "spin", "park", "asleep", "report"}
          /\ phase[m] \in 1..3 /\ mine[m].job \in Jobs \cup {NoJob}
          /\ {seen[m], at[m], turn[m]} \subseteq Nat
    /\ flag \in [BlockSet -> {0, 1}]
    /\ y \in [BlockSet -> [of : Jobs \cup {NoJob}, whole : BOOLEAN]]
    /\ told \in [Jobs -> {"nothing", "ok", "err"}]

(* A member works on a job only while the closure and the buffers it       *)
(* points at exist: the caller's borrow, or the box the team holds.        *)
JobOutlivesMembers == \A m \in Members : Busy(m) => mine[m].job \in live

(* When the recording thread may set the next job no worker is in the old  *)
(* one, and every worker has been through every job so far, once each.     *)
QuietBetweenJobs ==
    host \in {"record", "sync", "start"} /\ started = NoJob =>
        \A m \in 1..(size - 1) :
            /\ pc[m] \in {"spin", "park", "asleep"}
            /\ seen[m] = epoch

(* One job at a time, each over before its closure goes: jobs never overlap,*)
(* though a worker may spin, park or be late when the next one is set.     *)
JobsApart == JobOutlivesMembers /\ QuietBetweenJobs

(* What the barriers are for: a member quantizes a miss when all of its    *)
(* gate and up chunks are written, and takes a down chunk when the         *)
(* activation it reads is, by whichever members.                           *)
PhasesApart ==
    \A m \in Members : pc[m] = "write" =>
        CASE phase[m] = 1 -> W(m).gu[at[m]] = "raw"
          [] phase[m] = 2 -> "raw" \notin UpOf(W(m), at[m])
          [] phase[m] = 3 -> W(m).hs[at[m] \div DownChunks] # "raw"

(* The row host_add reads once it has seen its flag is its own step's, and *)
(* stays so until the flag is lowered.                                     *)
OwnRow ==
    adding => LET s == Head(queue).of IN y[Block(s)].of = s /\ flag[Block(s)] = 1

(* OwnRow, while every pass that handed a row over also adds it.           *)
AddsOwnRow == aborts = 0 => OwnRow

(* A step told that its row went well had every chunk of it computed.      *)
RowOk(s) == told[s] = "ok" => Whole(work[s])

OkMeansWhole == \A s \in Jobs : RowOk(s) \/ work[s].panicked

(* StartedRow::join says what went wrong: no step is told its row went well *)
(* when a member died over it.                                              *)
PanicReported == \A s \in Jobs : RowOk(s)

(* The guard of a started row: a member that fails or panics still leaves  *)
(* the device a result.                                                    *)
PanicStillRaises ==
    \A s \in Jobs : (work[s].panicked /\ work[s].to = "flag") ~> (y[Block(s)].of = s)

(* A worker that dies ahead of a barrier never arrives at it: what it held *)
(* stays raw, and no one opens the barrier for the members that came.      *)
DiedAhead(w) ==
    /\ w.panicked
    /\ (\E c \in DOMAIN w.gu : w.gu[c] = "raw") \/ (\E k \in DOMAIN w.hs : w.hs[k] = "raw")

Stranded == \E m \in Members : pc[m] = "held" /\ DiedAhead(W(m))

(* The recording thread gets through every step and the device through     *)
(* every launch: no worker sleeps through a job, no barrier keeps a member *)
(* and no flag stays down.  Nothing but a worker that dies ahead of a      *)
(* barrier the others are held at keeps either from it.                    *)
StepsEnd == <>[](host = "end" /\ queue = <<>>) \/ <>[]Stranded
=============================================================================
