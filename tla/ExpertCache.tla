----------------------------- MODULE ExpertCache -----------------------------
(***************************************************************************)
(* phobos-gguf: experts streamed through two caches.  A pinned host cache  *)
(* holds some experts of every block, written by the recording thread or   *)
(* by a worker; each block has device slots that copies on two streams     *)
(* fill and kernels read.                                                  *)
(*   host_cache.rs  the host cache: lookup, claim, plan, submit, ready     *)
(*   mod.rs         device slots: place, fill, fetch, refill, cool         *)
(*   op.rs          a decode step of one row, its prefetch and refills     *)
(*   grouped.rs     a prompt pass, in groups of as many experts as fit     *)
(*   headroom.rs    the slots a block may have change between two passes   *)
(* What an expert's bytes are is which expert they were written for.       *)
(***************************************************************************)
EXTENDS Lists

CONSTANTS
    Blocks,         \* blocks with experts
    Experts,        \* experts of a block, 1..Experts
    Used,           \* experts a row routes to (MOE_USED)
    PerBlocks,      \* how many device slots a block may be given
    HostSlots,      \* most slots of the host cache
    Ahead,          \* planned fills written at once (AHEAD)
    Wide,           \* what the rows of a wide pass may choose together
    HostShare,      \* most of those that the host takes
    Traffics,       \* the passes of a run: their kinds ("decode", "rows",
                    \* "prompt"), whether a decode row's misses are left to
                    \* the host, whether routers run a block ahead, and how
                    \* many host slots the budget bought
    MayCool         \* whether the residents may be dropped between passes

Block == 1..Blocks
Expert == 1..Experts
HostSlot == 1..HostSlots
NoSlot == 0
NoExpert == 0
Nobody == <<0, NoExpert>>

MaxOf(S) == CHOOSE n \in S : \A k \in S : k <= n
DeviceSlot == 1..MaxOf(PerBlocks)

ASSUME CacheAssumption ==
    /\ {Blocks, Experts, Used, HostSlots, Ahead} \subseteq Nat \ {0} /\ HostShare \in Nat
    /\ Used <= Experts
    /\ PerBlocks # {} /\ IsFiniteSet(PerBlocks)
    /\ PerBlocks \subseteq Used..Experts
    /\ HostSlots < Blocks * Experts     \* else every expert is written at load
    /\ Traffics \subseteq [kinds : Seq({"decode", "rows", "prompt"}), hostDecode : BOOLEAN,
                          lookahead : BOOLEAN,
                          slots : (Used + 1)..HostSlots]    \* host_cache() takes more
    /\ \A es \in Wide : es \subseteq 1..Experts /\ Cardinality(es) >= Used
    /\ MayCool \in BOOLEAN

VARIABLES
    \* the host cache
    owner,      \* per slot: the block and expert held
    hostOf,     \* per block and expert: the slot holding it
    content,    \* per slot: what its bytes were written for
    lru,        \* slots, least recently used first
    done,       \* per slot: the copy whose event says its copies have run
    holds,      \* per slot: host jobs reading it
    planned,    \* the next fills that are not held
    batch,      \* write_ahead's slots, claimed and not yet written
    jobs, results, received,    \* to the worker, from it, and kept for written()
    \* the device slots
    per,        \* slots a block has
    held,       \* per block and slot: the expert and when it was last used
    slotOf,     \* per block and expert: its slot
    fetched,    \* per block: the copy its last prefetches complete at
    arriving,   \* per block: the slots they fill
    predicted,  \* per block: whether a prefetch was attempted since its last row
    refills,    \* misses to copy later
    tick,       \* routing steps so far
    resident,   \* per block and slot: what its bytes are, and whether a stray copy left them
    \* the streams and the host team
    main, copy, \* launches and copies not finished, in order
    issued,     \* copies issued so far; a copy's number is its event
    team,       \* whether the last row's misses still run on the host
    teamHolds,  \* the host slots they read
    \* the recording thread
    pc, traffic, pass, block,
    todo,       \* written refills this sync point still has to copy
    want,       \* the fill under way
    left,       \* claims write_ahead has to make
    row,        \* the experts of the row or group not placed yet
    placed,     \* slots placed for it, with the expert each is to hold
    misses,     \* its misses left to the host
    later       \* rows or groups after it

hostVars == <<owner, hostOf, content, lru, done, holds, planned, batch, jobs, results, received>>
deviceVars == <<per, held, slotOf, fetched, arriving, predicted, refills, tick>>
streamVars == <<resident, main, copy, issued>>
teamVars == <<team, teamHolds>>
modeVars == <<traffic, pass, block>>
rowVars == <<row, placed, misses, later>>
threadVars == <<pc, todo, want, left, rowVars, modeVars>>
vars == <<hostVars, deviceVars, streamVars, teamVars, threadVars>>

Passes == Len(traffic.kinds)
kind == traffic.kinds[pass]

NoWant == [block |-> 0, expert |-> NoExpert, slot |-> 0, tick |-> 0, stream |-> "none",
           then |-> "none"]
EmptySlots == [b \in Block |-> [p \in DeviceSlot |-> [expert |-> NoExpert, used |-> 0]]]
NoneResident == [b \in Block |-> [e \in Expert |-> NoSlot]]
NoBytes == [b \in Block |-> [p \in DeviceSlot |-> [expert |-> NoExpert, stray |-> FALSE]]]
NoneArriving == [b \in Block |-> {}]
NoFetches == [b \in Block |-> 0]
NonePredicted == [b \in Block |-> FALSE]

Init ==
    /\ traffic \in Traffics
    /\ owner = [s \in HostSlot |-> Nobody]
    /\ hostOf = NoneResident
    /\ content = [s \in HostSlot |-> Nobody]
    /\ lru = [s \in 1..traffic.slots |-> s]
    /\ done = [s \in HostSlot |-> 0]
    /\ holds = [s \in HostSlot |-> 0]
    /\ planned = <<>> /\ batch = {}
    /\ jobs = <<>> /\ results = <<>> /\ received = <<>>
    /\ per \in PerBlocks
    /\ held = EmptySlots /\ slotOf = NoneResident
    /\ fetched = NoFetches /\ arriving = NoneArriving /\ predicted = NonePredicted
    /\ refills = <<>> /\ tick = 0
    /\ resident = NoBytes
    /\ main = <<>> /\ copy = <<>> /\ issued = 0
    /\ team = FALSE /\ teamHolds = {}
    /\ pc = "between" /\ pass = 0 /\ block = 1
    /\ todo = <<>> /\ want = NoWant /\ left = 0
    /\ row = <<>> /\ placed = {} /\ misses = <<>> /\ later = <<>>

-----------------------------------------------------------------------------
(* The host cache.                                                         *)

(* A slot is out with the worker from submit until its result is received. *)
Writing(s) == \E w \in ToSet(jobs \o results) : w.slot = s

(* The event of copy `id` has passed: the copy has run.                    *)
Passed(id) == \A c \in ToSet(main \o copy) : c.op = "copy" => c.id # id

Touched(ss) == Only(lru, HostSlot \ ToSet(ss)) \o ss

(* lookup: the expert is in a slot, written.                               *)
Holds(b, e) == hostOf[b][e] # NoSlot /\ ~Writing(hostOf[b][e])

(* The slots of those of some experts that are held.                       *)
HeldAt(b, es) == LET there == Only(es, {e \in Expert : Holds(b, e)})
                 IN [i \in DOMAIN there |-> hostOf[b][there[i]]]

Idle(s) == holds[s] = 0 /\ ~Writing(s)
AnyIdle == \E s \in ToSet(lru) : Idle(s)

(* claim takes the least recently used idle slot whose copies have run;    *)
(* when no idle slot's have, it waits for one.                             *)
(* The definitions named Slip... are plausible mistakes in the definition  *)
(* that follows; nothing refers to them.                                   *)
SlipAnyIdle(s) == Idle(s)
SlipOnlyFresh(s) == Idle(s) /\ done[s] = 0
Claimable(s) == Idle(s) /\ Passed(done[s])

FirstClaimable(s) ==
    \E i \in DOMAIN lru : s = lru[i] /\ Claimable(s) /\ \A k \in 1..(i - 1) : ~Claimable(lru[k])

SlipKeepOldOwner(s, b, e) ==
    /\ FirstClaimable(s)
    /\ owner' = [owner EXCEPT ![s] = <<b, e>>]
    /\ hostOf' = [hostOf EXCEPT ![b][e] = s]
    /\ lru' = Touched(<<s>>)

SlipClaimUntouched(s, b, e) ==
    /\ FirstClaimable(s)
    /\ owner' = [owner EXCEPT ![s] = <<b, e>>]
    /\ hostOf' = LET freed == IF owner[s] = Nobody THEN hostOf
                              ELSE [hostOf EXCEPT ![owner[s][1]][owner[s][2]] = NoSlot]
                 IN [freed EXCEPT ![b][e] = s]
    /\ UNCHANGED lru

Claim(s, b, e) ==
    /\ FirstClaimable(s)
    /\ owner' = [owner EXCEPT ![s] = <<b, e>>]
    /\ hostOf' = LET freed == IF owner[s] = Nobody THEN hostOf
                              ELSE [hostOf EXCEPT ![owner[s][1]][owner[s][2]] = NoSlot]
                 IN [freed EXCEPT ![b][e] = s]
    /\ lru' = Touched(<<s>>)

(* receive_one: a slot the worker has written is idle again.               *)
ReceiveOne ==
    /\ results # <<>>
    /\ results' = Tail(results)
    /\ received' = Append(received, Head(results))

(* The worker writes its next job and sends it back.                       *)
WorkerWrites ==
    /\ jobs # <<>>
    /\ content' = [content EXCEPT ![Head(jobs).slot] = <<Head(jobs).block, Head(jobs).expert>>]
    /\ results' = Append(results, Head(jobs))
    /\ jobs' = Tail(jobs)
    /\ UNCHANGED <<owner, hostOf, lru, done, holds, planned, batch, received, deviceVars,
                   streamVars, teamVars, threadVars>>

-----------------------------------------------------------------------------
(* The device slots.                                                       *)

Resident(b, e) == slotOf[b][e] # NoSlot
Absent(b) == {e \in Expert : ~Resident(b, e)}

(* stamp: the slots of those experts are used at step t.                   *)
Stamp(b, es, t) ==
    [held EXCEPT ![b] = [p \in DeviceSlot |->
        IF \E e \in es : slotOf[b][e] = p THEN [@[p] EXCEPT !.used = t] ELSE @[p]]]

(* victim: the first of the least recently used slots not stamped t, if    *)
(* there is one.                                                           *)
Victim(h, b, t) ==
    LET free == {p \in 1..per : h[b][p].used # t}
    IN {p \in free : \A q \in free : \/ h[b][p].used < h[b][q].used
                                     \/ h[b][p].used = h[b][q].used /\ p <= q}

InFlight(b, p) == fetched[b] # 0 /\ ~Passed(fetched[b]) /\ p \in arriving[b]

(* The ids of the copies under way to a slot that the main stream fills now *)
(* and does not wait for: nothing looks for them before it is filled.      *)
Overtaken(b, p) ==
    {c.id : c \in {c \in ToSet(copy) :
        /\ c.block = b /\ c.slot = p
        /\ \A op \in ToSet(main) : op.op = "wait" => op.id < c.id}}

(* A copy under way to a slot that was forgotten or filled by the main      *)
(* stream is no longer of the expert the slot is said to hold.  Only the   *)
(* properties look at whom a copy is of.                                   *)
Disown(ids) == [i \in DOMAIN copy |->
    IF copy[i].id \in ids THEN [copy[i] EXCEPT !.of = NoExpert] ELSE copy[i]]

Fill(b, e, p, t, stream, then) ==
    [block |-> b, expert |-> e, slot |-> p, tick |-> t, stream |-> stream, then |-> then]

(* fill: the copy of an expert from host slot s, and what is recorded of   *)
(* it; one on the copy stream is arriving until its event has passed.  The  *)
(* bytes are those the slot has as it is issued.                           *)
Issue(s, bytes, w) ==
    LET old == held[w.block][w.slot].expert
        c == [op |-> "copy", id |-> issued + 1, src |-> s, bytes |-> bytes,
              block |-> w.block, slot |-> w.slot,
              of |-> IF owner[s] = <<w.block, w.expert>> THEN w.expert ELSE NoExpert]
    IN
    /\ issued' = issued + 1
    /\ IF w.stream = "main"
       THEN main' = Append(main, c) /\ copy' = Disown(Overtaken(w.block, w.slot))
       ELSE copy' = Append(copy, c) /\ UNCHANGED main
    /\ done' = [done EXCEPT ![s] = issued + 1]
    /\ held' = [held EXCEPT ![w.block][w.slot] = [expert |-> w.expert, used |-> w.tick]]
    /\ slotOf' = LET freed == IF old = NoExpert THEN slotOf
                              ELSE [slotOf EXCEPT ![w.block][old] = NoSlot]
                 IN [freed EXCEPT ![w.block][w.expert] = w.slot]
    /\ IF w.stream = "copy"
       THEN /\ fetched' = [fetched EXCEPT ![w.block] = issued + 1]
            /\ arriving' = [arriving EXCEPT ![w.block] = @ \cup {w.slot}]
       ELSE UNCHANGED <<fetched, arriving>>

(* The wanted fill's expert is held, written: its copy is issued.          *)
FillHeld ==
    /\ pc = "fill" /\ Holds(want.block, want.expert)
    /\ lru' = Touched(<<hostOf[want.block][want.expert]>>)
    /\ Issue(hostOf[want.block][want.expert], content[hostOf[want.block][want.expert]], want)
    /\ pc' = want.then /\ want' = NoWant
    /\ UNCHANGED <<owner, hostOf, content, holds, planned, batch, jobs, results, received, per,
                   predicted, refills, tick, resident, teamVars, todo, left, rowVars, modeVars>>

(* ready waits until the worker has written its slot.                      *)
FillWaits ==
    /\ pc = "fill"
    /\ hostOf[want.block][want.expert] # NoSlot /\ Writing(hostOf[want.block][want.expert])
    /\ ReceiveOne
    /\ UNCHANGED <<owner, hostOf, content, lru, done, holds, planned, batch, jobs, deviceVars,
                   streamVars, teamVars, threadVars>>

NotHeld == pc = "fill" /\ hostOf[want.block][want.expert] = NoSlot
OnPlan == planned # <<>> /\ Head(planned) = <<want.block, want.expert>>

(* ready writes it alone: the plan no longer says what comes next.         *)
FillAlone ==
    /\ NotHeld /\ ~OnPlan
    /\ \E s \in HostSlot :
          /\ Claim(s, want.block, want.expert)
          /\ content' = [content EXCEPT ![s] = <<want.block, want.expert>>]
          /\ Issue(s, <<want.block, want.expert>>, want)
    /\ planned' = <<>>
    /\ pc' = want.then /\ want' = NoWant
    /\ UNCHANGED <<holds, batch, jobs, results, received, per, predicted, refills, tick, resident,
                   teamVars, todo, left, rowVars, modeVars>>

(* write_ahead: the next planned fills are claimed one by one, then        *)
(* written together, in no order.                                          *)
FillAhead ==
    /\ NotHeld /\ OnPlan
    /\ left' = IF Len(planned) < Ahead THEN Len(planned) ELSE Ahead
    /\ pc' = "ahead"
    /\ UNCHANGED <<hostVars, deviceVars, streamVars, teamVars, todo, want, rowVars, modeVars>>

ClaimAhead ==
    /\ pc = "ahead" /\ left > 0
    /\ \E s \in HostSlot :
          /\ Claim(s, Head(planned)[1], Head(planned)[2])
          /\ batch' = batch \cup {[slot |-> s, of |-> Head(planned)]}
          /\ done' = [done EXCEPT ![s] = 0]
    /\ planned' = Tail(planned) /\ left' = left - 1
    /\ UNCHANGED <<content, holds, jobs, results, received, deviceVars, streamVars, teamVars,
                   pc, todo, want, rowVars, modeVars>>

WriteAhead ==
    /\ pc = "ahead" /\ left = 0
    /\ IF batch = {} THEN pc' = "fill" /\ UNCHANGED <<content, batch>>
       ELSE \E w \in batch :
               /\ content' = [content EXCEPT ![w.slot] = w.of]
               /\ batch' = batch \ {w}
               /\ UNCHANGED pc
    /\ UNCHANGED <<owner, hostOf, lru, done, holds, planned, jobs, results, received, deviceVars,
                   streamVars, teamVars, todo, want, left, rowVars, modeVars>>

SlipNothingBack == results = <<>>
NothingOut == jobs = <<>> /\ results = <<>>

(* claim_waiting with every slot held or out: it waits for the worker, or  *)
(* fails when nothing is out.                                              *)
ClaimWaits ==
    /\ (pc = "ahead" /\ left > 0) \/ (NotHeld /\ ~OnPlan)
    /\ ~AnyIdle
    /\ IF NothingOut
       THEN pc' = "error" /\ UNCHANGED <<results, received>>
       ELSE ReceiveOne /\ UNCHANGED pc
    /\ UNCHANGED <<owner, hostOf, content, lru, done, holds, planned, batch, jobs, deviceVars,
                   streamVars, teamVars, todo, want, left, rowVars, modeVars>>

-----------------------------------------------------------------------------
(* Refills, at a block's sync point.                                       *)

(* written: what the worker has written is taken, then the refills queued. *)
Route ==
    /\ pc = "route"
    /\ todo' = received \o results \o refills
    /\ received' = <<>> /\ results' = <<>> /\ refills' = <<>>
    /\ pc' = "refill"
    /\ UNCHANGED <<owner, hostOf, content, lru, done, holds, planned, batch, jobs, per, held,
                   slotOf, fetched, arriving, predicted, tick, streamVars, teamVars, want, left,
                   rowVars, modeVars>>

Refill == Head(todo)
RefillVictim == Victim(held, Refill.block, Refill.tick)
Queued == Refill.slot = NoSlot

(* refill_from: a written refill, or one the host cache holds, is copied.  *)
RefillFrom ==
    /\ pc = "refill" /\ todo # <<>> /\ ~Resident(Refill.block, Refill.expert)
    /\ Queued => Holds(Refill.block, Refill.expert)
    /\ LET s == IF Queued THEN hostOf[Refill.block][Refill.expert] ELSE Refill.slot IN
       /\ lru' = IF Queued THEN Touched(<<s>>) ELSE lru
       /\ IF RefillVictim = {} THEN UNCHANGED <<done, held, slotOf, fetched, arriving, main,
                                                copy, issued>>
          ELSE \E p \in RefillVictim :
                  Issue(s, content[s],
                        Fill(Refill.block, Refill.expert, p, Refill.tick, "copy", "refill"))
    /\ todo' = Tail(todo)
    /\ UNCHANGED <<owner, hostOf, content, holds, planned, batch, jobs, results, received, per,
                   predicted, refills, tick, resident, teamVars, pc, want, left, rowVars,
                   modeVars>>

RefillResident ==
    /\ pc = "refill" /\ todo # <<>> /\ Resident(Refill.block, Refill.expert)
    /\ todo' = Tail(todo)
    /\ UNCHANGED <<hostVars, deviceVars, streamVars, teamVars, pc, want, left, rowVars, modeVars>>

NotAtHost == /\ pc = "refill" /\ todo # <<>> /\ Queued
             /\ ~Resident(Refill.block, Refill.expert) /\ ~Holds(Refill.block, Refill.expert)

(* submit: the worker writes it into a claimed slot.                       *)
Submit ==
    /\ NotAtHost /\ hostOf[Refill.block][Refill.expert] = NoSlot
    /\ \E s \in HostSlot :
          /\ Claim(s, Refill.block, Refill.expert)
          /\ done' = [done EXCEPT ![s] = 0]
          /\ jobs' = Append(jobs, [Refill EXCEPT !.slot = s])
    /\ todo' = Tail(todo)
    /\ UNCHANGED <<content, holds, planned, batch, results, received, deviceVars, streamVars,
                   teamVars, pc, want, left, rowVars, modeVars>>

(* Busy: on its way already, or no slot is idle.  It is fetched now.       *)
SubmitBusy ==
    /\ NotAtHost /\ (hostOf[Refill.block][Refill.expert] # NoSlot \/ ~AnyIdle)
    /\ IF RefillVictim = {} THEN UNCHANGED <<want, pc>>
       ELSE /\ \E p \in RefillVictim :
                  want' = Fill(Refill.block, Refill.expert, p, Refill.tick, "copy", "refill")
            /\ pc' = "fill"
    /\ todo' = Tail(todo)
    /\ UNCHANGED <<hostVars, deviceVars, streamVars, teamVars, left, rowVars, modeVars>>

WaitsForFetch == kind # "decode" /\ fetched[block] # 0

(* The sync point's end.  A pass of several rows makes the main stream     *)
(* wait for what is arriving.                                              *)
Synced ==
    /\ pc = "refill" /\ todo = <<>> /\ main = <<>>
    /\ IF WaitsForFetch
       THEN /\ main' = <<[op |-> "wait", id |-> fetched[block]]>>
            /\ fetched' = [fetched EXCEPT ![block] = 0]
            /\ arriving' = [arriving EXCEPT ![block] = {}]
       ELSE UNCHANGED <<main, fetched, arriving>>
    /\ pc' = CASE kind # "decode" -> "choose"
               [] traffic.lookahead /\ block < Blocks -> "predict"
               [] OTHER -> "choose"
    /\ UNCHANGED <<hostVars, per, held, slotOf, predicted, refills, tick, resident, copy, issued,
                   teamVars, todo, want, left, rowVars, modeVars>>

(* prefetch: the first predicted expert of the next block that is not      *)
(* resident.                                                               *)
Routed == {es \in [1..Used -> Expert] : \A i, j \in 1..Used : i # j => es[i] # es[j]}

Prefetch ==
    LET next == block + 1 IN
    /\ pc = "predict"
    /\ tick' = tick + 1
    /\ predicted' = [predicted EXCEPT ![next] = TRUE]
    /\ \E es \in Routed :
          LET absent == Only(es, Absent(next))
              victim == Victim(held', next, tick')
          IN
          /\ held' = Stamp(next, Range(es), tick')
          /\ IF absent = <<>> \/ victim = {} THEN pc' = "choose" /\ UNCHANGED want
             ELSE /\ \E p \in victim :
                        want' = Fill(next, Head(absent), p, tick', "copy", "choose")
                  /\ pc' = "fill"
    /\ UNCHANGED <<hostVars, per, slotOf, fetched, arriving, refills, streamVars, teamVars, todo,
                   left, rowVars, modeVars>>

-----------------------------------------------------------------------------
(* A block's rows.                                                         *)

(* The router's choice: one row's experts, several rows' one by one, or    *)
(* what the rows of a wide pass chose together in groups the block's slots *)
(* hold, without the non-resident experts the host takes.                  *)
Groups(es) ==
    LET n == Len(es) \div per + IF Len(es) % per = 0 THEN 0 ELSE 1
    IN [g \in 1..n |-> SubSeq(es, (g - 1) * per + 1, IF g = n THEN Len(es) ELSE g * per)]

Choose ==
    /\ pc = "choose"
    /\ \/ kind = "decode" /\ misses' = <<>> /\ \E es \in Routed : later' = <<es>>
       \/ kind = "rows" /\ misses' = <<>> /\ \E es, fs \in Routed : later' = <<es, fs>>
       \/ /\ kind = "prompt"
          /\ \E chosen \in Wide :
                \E host \in SUBSET (chosen \cap Absent(block)) :
                    /\ Cardinality(host) <= HostShare
                    /\ misses' \in SetToSeqs(host)
                    /\ later' = Groups(Only([e \in Expert |-> e], chosen \ host))
    /\ pc' = "step"
    /\ UNCHANGED <<hostVars, deviceVars, streamVars, teamVars, todo, want, left, row, placed,
                   modeVars>>

(* step: the next row or group is stamped; a group's fills are planned,    *)
(* which touches the ones held.                                            *)
Step ==
    /\ pc = "step" /\ later # <<>>
    /\ row' = Head(later) /\ later' = Tail(later) /\ placed' = {}
    /\ tick' = tick + 1
    /\ held' = Stamp(block, Range(row'), tick')
    /\ IF kind = "prompt"
       THEN LET fills == Only(row', Absent(block))
                free == Only(fills, {e \in Expert : hostOf[block][e] = NoSlot})
            IN /\ lru' = Touched(HeldAt(block, fills))
               /\ planned' = [i \in DOMAIN free |-> <<block, free[i]>>]
       ELSE UNCHANGED <<lru, planned>>
    /\ pc' = "place"
    /\ UNCHANGED <<owner, hostOf, content, done, holds, batch, jobs, results, received, per,
                   slotOf, fetched, arriving, predicted, refills, streamVars, teamVars, todo,
                   want, left, misses, modeVars>>

Placing(e) == pc = "place" /\ row # <<>> /\ e = Head(row)
RowDecodes == kind = "decode" /\ traffic.hostDecode
SlipArrived(e) == FALSE
Arrives(e) == /\ kind # "prompt" /\ Resident(block, e)
              /\ InFlight(block, slotOf[block][e])

(* A fetch whose event has passed is forgotten when a row looks at it.     *)
Settled(b) == kind # "prompt" /\ fetched[b] # 0 /\ Passed(fetched[b])
LookAt(e) == IF Resident(block, e) /\ Settled(block)
             THEN /\ fetched' = [fetched EXCEPT ![block] = 0]
                  /\ arriving' = [arriving EXCEPT ![block] = {}]
             ELSE UNCHANGED <<fetched, arriving>>

(* An expert is placed where it is; the stream waits if it is arriving.    *)
PlaceHit ==
    \E e \in Expert :
        /\ Placing(e) /\ Resident(block, e) /\ ~(RowDecodes /\ Arrives(e))
        /\ row' = Tail(row)
        /\ placed' = placed \cup {<<slotOf[block][e], e>>}
        /\ IF Arrives(e)
           THEN /\ main' = Append(main, [op |-> "wait", id |-> fetched[block]])
                /\ fetched' = [fetched EXCEPT ![block] = 0]
                /\ arriving' = [arriving EXCEPT ![block] = {}]
           ELSE LookAt(e) /\ UNCHANGED main
        /\ UNCHANGED <<hostVars, per, held, slotOf, predicted, refills, tick, resident, copy,
                       issued, teamVars, pc, todo, want, left, misses, later, modeVars>>

(* A decode row's miss, or an expert still arriving, is left to the host.  *)
LeaveMiss ==
    \E e \in Expert :
        /\ Placing(e) /\ RowDecodes /\ (~Resident(block, e) \/ Arrives(e))
        /\ row' = Tail(row) /\ misses' = Append(misses, e)
        /\ UNCHANGED <<hostVars, deviceVars, streamVars, teamVars, pc, todo, want, left, placed,
                       later, modeVars>>

(* place: a miss is copied into the least recently used slot in stream     *)
(* order.                                                                  *)
PlaceMiss ==
    \E e \in Expert :
        /\ Placing(e) /\ ~RowDecodes /\ ~Resident(block, e)
        /\ LET victim == Victim(held, block, tick) IN
           IF victim = {} THEN pc' = "error" /\ UNCHANGED <<want, row, placed>>
           ELSE \E p \in victim :
                  /\ want' = Fill(block, e, p, tick, "main", "place")
                  /\ pc' = "fill"
                  /\ row' = Tail(row) /\ placed' = placed \cup {<<p, e>>}
        /\ UNCHANGED <<hostVars, deviceVars, streamVars, teamVars, todo, left, misses, later,
                       modeVars>>

Kernel == [op |-> "kernel", block |-> block, reads |-> placed]

PlacedRow == pc = "place" /\ row = <<>>

(* The row's kernels follow its copies.                                    *)
LaunchRow ==
    /\ PlacedRow /\ ~RowDecodes
    /\ main' = Append(main, Kernel)
    /\ predicted' = [predicted EXCEPT ![block] = IF kind = "prompt" THEN @ ELSE FALSE]
    /\ pc' = "step"
    /\ UNCHANGED <<hostVars, per, held, slotOf, fetched, arriving, refills, tick, resident, copy, issued,
                   teamVars, todo, want, left, rowVars, modeVars>>

(* The first of a decode row's misses becomes a refill, unless a prefetch  *)
(* was its block's copy.                                                   *)
QueueRefill ==
    IF misses = <<>> \/ predicted[block] THEN UNCHANGED refills
    ELSE refills' = Append(refills, [block |-> block, expert |-> Head(misses), slot |-> NoSlot,
                                     tick |-> tick])

Release(h) == [s \in HostSlot |-> IF s \in teamHolds THEN h[s] - 1 ELSE h[s]]

(* start_host_misses: the last row's team is joined and its slots let go,  *)
(* then the misses the host cache holds are held and the row started.  The *)
(* main stream adds its result after the row's kernels.                    *)
StartMisses ==
    LET slots == HeldAt(block, misses) IN
    /\ PlacedRow /\ RowDecodes /\ ~team
    /\ team' = TRUE /\ teamHolds' = Range(slots)
    /\ holds' = [s \in HostSlot |-> Release(holds)[s] + IF s \in Range(slots) THEN 1 ELSE 0]
    /\ lru' = Touched(slots)
    /\ main' = main \o <<Kernel, [op |-> "add"]>>
    /\ QueueRefill /\ predicted' = [predicted EXCEPT ![block] = FALSE]
    /\ pc' = "step"
    /\ UNCHANGED <<owner, hostOf, content, done, planned, batch, jobs, results, received, per,
                   held, slotOf, fetched, arriving, tick, resident, copy, issued, todo, want,
                   left, rowVars, modeVars>>

(* The block's end.  A wide pass runs the host's share from the slots that *)
(* hold it, and waits for the stream before the next block; every pass     *)
(* waits for it at the end.                                                *)
NextBlock ==
    /\ pc = "step" /\ later = <<>>
    /\ (kind = "prompt" \/ block = Blocks) => main = <<>>
    /\ lru' = IF kind # "prompt" THEN lru ELSE Touched(HeldAt(block, misses))
    /\ row' = <<>> /\ placed' = {} /\ misses' = <<>>
    /\ IF block < Blocks THEN block' = block + 1 /\ pc' = "route"
                         ELSE block' = 1 /\ pc' = "between"
    /\ UNCHANGED <<owner, hostOf, content, done, holds, planned, batch, jobs, results, received,
                   deviceVars, streamVars, teamVars, todo, want, left, later, traffic,
                   pass>>

-----------------------------------------------------------------------------
(* Between passes.                                                         *)

(* A pass of several rows is a wide one when its rows could choose more    *)
(* experts than the block has slots.                                       *)
BeginPass ==
    /\ pc = "between" /\ pass < Passes
    /\ traffic.kinds[pass + 1] = "rows" => 2 * Used <= per
    /\ pass' = pass + 1 /\ pc' = "route"
    /\ UNCHANGED <<hostVars, deviceVars, streamVars, teamVars, todo, want, left, rowVars, block,
                   traffic>>

(* cool: the residents are forgotten, once the worker is done.  Its caller *)
(* has waited for the main stream, not for the copy stream.                *)
Cool ==
    /\ pc = "between" /\ MayCool /\ pass \in 1..(Passes - 1)
    /\ ~team /\ jobs = <<>>
    /\ holds' = Release(holds) /\ teamHolds' = {}
    /\ refills' = <<>> /\ results' = <<>> /\ received' = <<>>
    /\ slotOf' = NoneResident /\ held' = EmptySlots
    /\ fetched' = NoFetches /\ arriving' = NoneArriving /\ predicted' = NonePredicted
    /\ copy' = Disown({c.id : c \in ToSet(copy)})
    /\ UNCHANGED <<owner, hostOf, content, lru, done, planned, batch, jobs, per, tick, resident,
                   main, issued, team, threadVars>>

SlipKeepResidents ==
    /\ pc = "between" /\ pass \in 1..(Passes - 1)
    /\ ~team /\ copy = <<>> /\ main = <<>>
    /\ per' \in PerBlocks \ {per}
    /\ holds' = Release(holds) /\ teamHolds' = {}
    /\ refills' = <<>>
    /\ UNCHANGED <<owner, hostOf, content, lru, done, planned, batch, jobs, results, received,
                   held, slotOf, fetched, arriving, predicted, resident, tick, main, copy,
                   issued, team, threadVars>>

(* keep_headroom: blocks get another number of slots, laid out anew, once  *)
(* both streams and the team are done.  The worker's slots stay out.       *)
Resize ==
    /\ pc = "between" /\ pass \in 1..(Passes - 1)
    /\ ~team /\ copy = <<>> /\ main = <<>>
    /\ per' \in PerBlocks \ {per}
    /\ holds' = Release(holds) /\ teamHolds' = {}
    /\ refills' = <<>>
    /\ slotOf' = NoneResident /\ held' = EmptySlots
    /\ fetched' = NoFetches /\ arriving' = NoneArriving /\ predicted' = NonePredicted
    /\ resident' = NoBytes
    /\ UNCHANGED <<owner, hostOf, content, lru, done, planned, batch, jobs, results, received,
                   tick, main, copy, issued, team, threadVars>>

-----------------------------------------------------------------------------
(* The device runs each stream in order, both at once.                     *)

(* A copy whose slot was forgotten or filled anew meanwhile, or one from a *)
(* host slot that was claimed for another expert after the worker wrote it.*)
Stray(c) == c.of = NoExpert

Lands(c) == resident' = [resident EXCEPT ![c.block][c.slot] =
                [expert |-> IF content[c.src][1] = c.block THEN content[c.src][2] ELSE NoExpert,
                 stray |-> Stray(c)]]

CopyRuns ==
    /\ copy # <<>>
    /\ Lands(Head(copy)) /\ copy' = Tail(copy)
    /\ UNCHANGED <<hostVars, deviceVars, main, issued, teamVars, threadVars>>

MainRuns ==
    /\ main # <<>>
    /\ LET op == Head(main) IN
       /\ op.op = "wait" => Passed(op.id)
       /\ op.op = "add" => ~team
       /\ IF op.op = "copy" THEN Lands(op) ELSE UNCHANGED resident
    /\ main' = Tail(main)
    /\ UNCHANGED <<hostVars, deviceVars, copy, issued, teamVars, threadVars>>

TeamDone ==
    /\ team /\ team' = FALSE
    /\ UNCHANGED <<hostVars, deviceVars, streamVars, teamHolds, threadVars>>

Thread ==
    \/ FillHeld \/ FillWaits \/ FillAlone \/ FillAhead \/ ClaimAhead \/ WriteAhead \/ ClaimWaits
    \/ Route \/ RefillFrom \/ RefillResident \/ Submit \/ SubmitBusy \/ Synced \/ Prefetch
    \/ Choose \/ Step \/ PlaceHit \/ LeaveMiss \/ PlaceMiss \/ LaunchRow \/ StartMisses
    \/ NextBlock \/ BeginPass
Next == Thread \/ Cool \/ Resize \/ WorkerWrites \/ CopyRuns \/ MainRuns \/ TeamDone

Spec == Init /\ [][Next]_vars
Fairness == WF_vars(Thread) /\ WF_vars(WorkerWrites) /\ WF_vars(CopyRuns) /\ WF_vars(MainRuns)
            /\ WF_vars(TeamDone)
FairSpec == Spec /\ Fairness

-----------------------------------------------------------------------------
(* Correctness.                                                            *)

RefillRecord == [block : Block, expert : Expert, slot : 0..HostSlots, tick : Nat]

(* Types of the state of host_cache.rs and experts/mod.rs.                 *)
TypeOK ==
    /\ owner \in [HostSlot -> (Block \X Expert) \cup {Nobody}]
    /\ content \in [HostSlot -> (Block \X Expert) \cup {Nobody}]
    /\ hostOf \in [Block -> [Expert -> 0..HostSlots]]
    /\ done \in [HostSlot -> 0..issued] /\ holds \in [HostSlot -> Nat]
    /\ ToSet(lru) = 1..traffic.slots /\ Len(lru) = traffic.slots
    /\ ToSet(jobs \o results \o received \o refills \o todo) \subseteq RefillRecord
    /\ per \in PerBlocks
    /\ held \in [Block -> [DeviceSlot -> [expert : 0..Experts, used : 0..tick]]]
    /\ slotOf \in [Block -> [Expert -> 0..per]]
    /\ fetched \in [Block -> 0..issued] /\ arriving \in [Block -> SUBSET (1..per)]
    /\ predicted \in [Block -> BOOLEAN]
    /\ resident \in [Block -> [DeviceSlot -> [expert : 0..Experts, stray : BOOLEAN]]]
    /\ team \in BOOLEAN /\ teamHolds \subseteq HostSlot
    /\ pass \in 0..Passes /\ block \in Block /\ left \in 0..Ahead

(* The two maps of each cache are each other's inverse, whatever a claim,  *)
(* a fill, a cool or a resize replaced: an expert is in at most one slot,  *)
(* and the slot said to hold it does (slot_of and owner; slot_of and held).*)
MapsAgree ==
    /\ \A s \in HostSlot, b \in Block, e \in Expert : hostOf[b][e] = s <=> owner[s] = <<b, e>>
    /\ \A b \in Block, e \in Expert, p \in 1..per : slotOf[b][e] = p <=> held[b][p].expert = e

(* "A slot is not rewritten until its copies have run" (mod.rs fill): the  *)
(* host slot a queued copy reads has the bytes it had when the copy was    *)
(* issued, and a slot the host team reads is neither out nor rewritten.    *)
SourceStable ==
    /\ \A c \in ToSet(main \o copy) :
          c.op = "copy" => content[c.src] = c.bytes /\ ~Writing(c.src)
    /\ \A s \in teamHolds : content[s] = owner[s] /\ ~Writing(s)

(* What the kernel at the head of the main stream reads.                   *)
Reading == IF main # <<>> /\ Head(main).op = "kernel"
           THEN {[block |-> Head(main).block, slot |-> r[1], expert |-> r[2]] :
                     r \in Head(main).reads}
           ELSE {}
LandsOn(c, b, p) == c.block = b /\ c.slot = p

(* A kernel reads its own experts: while it may run, each slot of its row  *)
(* holds the bytes of the row's expert.                                    *)
ReadsOwn == \A r \in Reading : resident[r.block][r.slot].expert = r.expert

(* refill: "so a late copy never lands in a slot a kernel reads".          *)
NoLateCopy == \A r \in Reading, c \in ToSet(copy) : ~LandsOn(c, r.block, r.slot)

(* A device slot is not filled by both streams at once: the later copy     *)
(* could land first, and the slot would not hold what is recorded of it.   *)
OneStreamFills ==
    main # <<>> /\ Head(main).op = "copy" =>
        \A c \in ToSet(copy) : Stray(c) \/ ~LandsOn(c, Head(main).block, Head(main).slot)

(* Copies land in time: what a kernel reads is there, whichever stream it  *)
(* came by, and nothing older lands on it afterwards.  Excepted are what   *)
(* stray copies do, and blocks with no slot more than a row takes; in      *)
(* each of these cases ReadsOwn or NoLateCopy fails.                       *)
CopiesInTime ==
    Used < per =>
        /\ \A r \in Reading :
              /\ LET at == resident[r.block][r.slot] IN at.stray \/ at.expert = r.expert
              /\ \A c \in ToSet(copy) : Stray(c) \/ ~LandsOn(c, r.block, r.slot)
        /\ OneStreamFills

(* write_ahead: "each write has its own claimed slot".                     *)
EachWriteItsSlot == \A v, w \in batch : v # w => v.slot # w.slot

(* A batch takes a slot it has again only when it has every slot that a     *)
(* claim may take without waiting: the copies of all others have not run.  *)
InBatch(s) == \E w \in batch : w.slot = s
TakenAgainLast ==
    [][\A v \in batch' \ batch :
           InBatch(v.slot) => \A s \in ToSet(lru) : Claimable(s) => InBatch(s)]_vars

(* No legal order of refills, prefetches, rows and groups runs out of host *)
(* slots to claim or of device slots to place into.                        *)
NeverOutOfSlots == pc # "error"

(* Every pass ends: a claim, a sync point or a join never waits for what   *)
(* waits for it.                                                           *)
PassesEnd == <>(pass = Passes /\ pc = "between")
=============================================================================
