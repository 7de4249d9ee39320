--------------------------- MODULE InferenceServer ---------------------------
(***************************************************************************)
(* phobos-inference: HTTP handlers hand requests to one worker thread      *)
(* through a bounded channel and read the answers from a channel of their  *)
(* own.  The worker keeps the last session and rewinds it to what the next *)
(* prompt shares with it.  A client may hang up and the user may quit at   *)
(* any moment, and any call into the model may fail.                       *)
(***************************************************************************)
EXTENDS Integers, FiniteSets, SequencesExt

CONSTANTS
    Reqs,           \* requests clients may send, each at most once
    Prompt,         \* Prompt[r]: its token ids
    LastTurn,       \* LastTurn[r]: where its last turn opens, counted from 0
    MaxNew,         \* MaxNew[r]: its token limit
    Stream,         \* the requests answered as a stream
    Leaving,        \* the requests whose client may hang up
    Tokens,         \* tokens of prompts and answers
    Chosen,        \* those the model may choose
    Halves,         \* those whose bytes end inside a character
    Eog,            \* the end-of-generation token
    QueueCap,       \* slots of the request channel
    ContextLimit,   \* positions the model's context holds
    Batch,          \* positions a prompt pass takes; 0 for a session without
    Kind,           \* how a session rewinds: "llama", "qwen35" or "default"
    Reuse,          \* whether a finished session is kept
    MaxFail         \* how many calls into the model may fail

NoReq == "no request"
NoSession == [rows |-> <<>>, rec |-> <<>>, saved |-> <<>>, live |-> FALSE]
FreshSession == [rows |-> <<>>, rec |-> <<>>, saved |-> <<>>, live |-> TRUE]

ASSUME ServerAssumption ==
    /\ NoReq \notin Reqs
    /\ Prompt \in [Reqs -> Seq(Tokens)]
    /\ \A r \in Reqs : Prompt[r] # <<>>
    /\ LastTurn \in [Reqs -> Nat]
    /\ MaxNew \in [Reqs -> Nat]
    /\ Stream \subseteq Reqs /\ Leaving \subseteq Reqs
    /\ Halves \subseteq Tokens /\ Chosen \subseteq Tokens
    /\ Eog \notin Tokens
    /\ {QueueCap, ContextLimit, Batch, MaxFail} \subseteq Nat
    /\ Kind \in {"llama", "qwen35", "default"}
    /\ Reuse \in BOOLEAN

VARIABLES
    worker,     \* what the worker thread does next
    running,    \* the meter's flag, cleared by a request to quit
    queue,      \* the request channel
    cur,        \* the request the worker holds
    session,    \* the worker's session: the kept one, or the current request's
    held,       \* the tokens the worker believes a kept session holds
    mark,       \* where the current prompt pass leaves its checkpoint
    gen,        \* tokens chosen for the current request and fed back
    pending,    \* tokens whose bytes do not end a character yet
    handler,    \* per request: where its handler is
    chan,       \* per request: messages the handler has not read
    client,     \* per request: what its client was told
    fails       \* calls that failed so far

vars == <<worker, running, queue, cur, session, held, mark, gen, pending,
          handler, chan, client, fails>>
requestVars == <<mark, gen, pending>>
workerVars == <<worker, queue, cur, session, held, requestVars>>

Nothing == [status |-> "none", finish |-> "none", text |-> <<>>, used |-> 0, eos |-> FALSE]

Init ==
    /\ worker = "warm_up"
    /\ running = TRUE
    /\ queue = <<>>
    /\ cur = NoReq
    /\ session = NoSession
    /\ held = <<>>
    /\ mark = 0 /\ gen = <<>> /\ pending = <<>>
    /\ handler = [r \in Reqs |-> "unsent"]
    /\ chan = [r \in Reqs |-> <<>>]
    /\ client = [r \in Reqs |-> Nothing]
    /\ fails = 0

-----------------------------------------------------------------------------
(* Channels.  A handler waits while its receiver is open; the sender is    *)
(* open while the request is queued or with the worker.                    *)

Waiting(r) == handler[r] \in {"collect", "first", "body"}
Sending(r) == r = cur \/ r \in ToSet(queue)

Message(kind) == [kind |-> kind, text |-> <<>>, used |-> 0, reason |-> "none"]
Send(c, r, m) == IF Waiting(r) THEN [c EXCEPT ![r] = Append(@, m)] ELSE c

(* A call that may fail: `out` is whether it does.                         *)
Call(out) ==
    \/ out = "ok" /\ UNCHANGED fails
    \/ out = "err" /\ fails < MaxFail /\ fails' = fails + 1

-----------------------------------------------------------------------------
(* Sessions.  `rows` are the positions an attention cache holds, `rec` the *)
(* tokens a recurrent state summarises, `saved` the checkpoint.            *)

Length(s) == Len(s.rows)

Extend(s, ids) == [s EXCEPT !.rows = @ \o ids, !.rec = @ \o ids]

Checkpoint(s) == IF Kind = "qwen35" THEN [s EXCEPT !.saved = s.rec] ELSE s

(* The definitions named Slip... are plausible mistakes in the definition  *)
(* that follows; nothing refers to them.                                   *)
SlipRestoreLater(s, n) ==
    IF s.saved # <<>> /\ Len(s.saved) <= Length(s)
    THEN {[s EXCEPT !.rows = SubSeq(@, 1, Len(s.saved)), !.rec = s.saved]}
    ELSE {}

(* Every point the session can return to when asked for `n` positions: the *)
(* one it is at, any (llama), or the checkpoint (qwen35); {} when none.    *)
Truncate(s, n) ==
    CASE Kind = "llama" /\ n <= Length(s) ->
            {[s EXCEPT !.rows = SubSeq(@, 1, n), !.rec = SubSeq(@, 1, n)]}
      [] Kind # "llama" /\ n = Length(s) -> {s}
      [] Kind = "qwen35" /\ n # Length(s) /\ s.saved # <<>>
                         /\ Len(s.saved) <= n /\ Len(s.saved) <= Length(s) ->
            {[s EXCEPT !.rows = SubSeq(@, 1, Len(s.saved)), !.rec = s.saved]}
      [] OTHER -> {}

CommonPrefix(a, b) == Len(LongestCommonPrefix({a, b}))

(* The session a request starts from: the kept one rewound to where `held` *)
(* and the prompt part, short of the whole prompt, or a fresh one.         *)
Shared(ids) ==
    LET n == CommonPrefix(held, ids) IN IF n < Len(ids) THEN n ELSE Len(ids) - 1

Rewound(ids) ==
    IF session.live /\ Reuse /\ Shared(ids) > 0
    THEN {s \in Truncate(session, Shared(ids)) : Length(s) > 0}
    ELSE {}

-----------------------------------------------------------------------------
(* Handlers and clients.                                                   *)

SlipOneTooMany == Len(queue) > QueueCap
QueueFull == Len(queue) >= QueueCap

(* dispatch(): try_send on the channel.  A full one answers 429, one whose *)
(* worker has left 503.                                                    *)
Post(r) ==
    /\ handler[r] = "unsent"
    /\ \/ /\ worker = "stopped"
          /\ handler' = [handler EXCEPT ![r] = "done"]
          /\ client' = [client EXCEPT ![r].status = "503"]
          /\ UNCHANGED queue
       \/ /\ worker # "stopped" /\ QueueFull
          /\ handler' = [handler EXCEPT ![r] = "done"]
          /\ client' = [client EXCEPT ![r].status = "429"]
          /\ UNCHANGED queue
       \/ /\ worker # "stopped" /\ ~QueueFull
          /\ handler' = [handler EXCEPT ![r] = IF r \in Stream THEN "first" ELSE "collect"]
          /\ queue' = Append(queue, r)
          /\ UNCHANGED client
    /\ UNCHANGED <<worker, running, cur, session, held, requestVars, chan, fails>>

(* The client hangs up: its handler is dropped, and the receiver with it.  *)
HangUp(r) ==
    /\ r \in Leaving /\ Waiting(r)
    /\ handler' = [handler EXCEPT ![r] = "gone"]
    /\ chan' = [chan EXCEPT ![r] = <<>>]
    /\ UNCHANGED <<workerVars, running, client, fails>>

Finish(reason) == IF reason = "length" THEN "length" ELSE "stop"

Answer(r, changed, next) ==
    /\ client' = [client EXCEPT ![r] = changed]
    /\ handler' = [handler EXCEPT ![r] = next]

(* One message read by a handler.  While a stream has not begun a failure  *)
(* is still an error status; after that it is an error event.              *)
Read(r) ==
    LET m == Head(chan[r])
        c == client[r]
        began == IF handler[r] = "collect" THEN c ELSE [c EXCEPT !.status = "200"]
        on == IF handler[r] = "collect" THEN "collect" ELSE "body"
    IN
    /\ Waiting(r) /\ chan[r] # <<>>
    /\ chan' = [chan EXCEPT ![r] = IF m.kind \in {"rejected", "err"} THEN <<>> ELSE Tail(@)]
    /\ \/ m.kind = "start" /\ UNCHANGED <<client, handler>>
       \/ m.kind = "chunk" /\ Answer(r, [began EXCEPT !.text = @ \o m.text], on)
       \/ m.kind = "done"
          /\ Answer(r, [began EXCEPT !.finish = Finish(m.reason), !.used = m.used,
                                     !.eos = (m.reason = "stop")], on)
       \/ m.kind = "rejected" /\ Answer(r, [c EXCEPT !.status = "400"], "done")
       \/ m.kind = "err" /\ handler[r] # "body"
          /\ Answer(r, [c EXCEPT !.status = "500"], "done")
       \/ m.kind = "err" /\ handler[r] = "body"
          /\ Answer(r, [c EXCEPT !.finish = "error"], "done")
    /\ UNCHANGED <<workerVars, running, fails>>

(* The channel is closed and empty: the answer ends, as a "stop" when no   *)
(* message said otherwise.                                                 *)
Close(r) ==
    /\ Waiting(r) /\ chan[r] = <<>> /\ ~Sending(r)
    /\ Answer(r, [client[r] EXCEPT !.status = "200",
                                   !.finish = IF @ = "none" THEN "stop" ELSE @], "done")
    /\ UNCHANGED <<workerVars, running, chan, fails>>

(* The dashboard's quit key or a signal.                                   *)
Quit ==
    /\ running
    /\ running' = FALSE
    /\ UNCHANGED <<workerVars, handler, chan, client, fails>>

-----------------------------------------------------------------------------
(* The worker.                                                             *)

SlipLeaveQueued ==
    /\ worker' = "stopped"
    /\ session' = NoSession
    /\ held' = <<>>
    /\ UNCHANGED queue

(* serve() returns: the channel's receiver goes, and what is queued with   *)
(* it.                                                                     *)
Leave ==
    /\ worker' = "stopped"
    /\ queue' = <<>>
    /\ session' = NoSession
    /\ held' = <<>>

WarmUp ==
    /\ worker = "warm_up"
    /\ \/ Call("ok") /\ worker' = "check" /\ UNCHANGED <<queue, session, held>>
       \/ Call("err") /\ Leave
    /\ UNCHANGED <<running, cur, requestVars, handler, chan, client>>

Check ==
    /\ worker = "check"
    /\ \/ running /\ worker' = "wait" /\ UNCHANGED <<queue, session, held>>
       \/ ~running /\ Leave
    /\ UNCHANGED <<running, cur, requestVars, handler, chan, client, fails>>

(* IDLE_TICK passes with no request.                                       *)
Tick ==
    /\ worker = "wait" /\ queue = <<>>
    /\ worker' = "check"
    /\ UNCHANGED <<running, queue, cur, session, held, requestVars, handler, chan, client, fails>>

Take ==
    /\ worker = "wait" /\ queue # <<>>
    /\ queue' = Tail(queue)
    /\ IF Waiting(Head(queue))
       THEN worker' = "admit" /\ cur' = Head(queue)
       ELSE worker' = "check" /\ UNCHANGED cur
    /\ UNCHANGED <<running, session, held, requestVars, handler, chan, client, fails>>

(* The end of a turn of the loop: the request and its sender are dropped.  *)
NextTurn(kept, tokens) ==
    /\ worker' = "check"
    /\ cur' = NoReq
    /\ session' = kept
    /\ held' = tokens
    /\ mark' = 0 /\ gen' = <<>> /\ pending' = <<>>

Refuse ==
    LET ids == Prompt[cur] IN
    /\ worker = "admit"
    /\ \/ Call("err") /\ chan' = Send(chan, cur, Message("err"))
       \/ /\ Len(ids) >= ContextLimit
          /\ Call("ok")
          /\ chan' = Send(chan, cur, Message("rejected"))
    /\ NextTurn(session, held)
    /\ UNCHANGED <<running, queue, handler, client>>

(* A session for the request, and the answer's start.  A client gone by    *)
(* now takes the session with it.                                          *)
Admit ==
    LET ids == Prompt[cur] IN
    /\ worker = "admit"
    /\ Len(ids) < ContextLimit
    /\ \/ /\ Rewound(ids) = {} /\ Call("err")
          /\ chan' = Send(chan, cur, Message("err"))
          /\ NextTurn(NoSession, <<>>)
       \/ /\ Call("ok")
          /\ chan' = Send(chan, cur, Message("start"))
          /\ IF Waiting(cur)
             THEN /\ worker' = "prefill"
                  /\ session' \in (IF Rewound(ids) = {} THEN {FreshSession} ELSE Rewound(ids))
                  /\ held' = <<>>
                  /\ mark' = IF LastTurn[cur] \in Length(session')+1..Len(ids)-1
                             THEN LastTurn[cur] ELSE Len(ids)
                  /\ UNCHANGED <<cur, gen, pending>>
             ELSE NextTurn(NoSession, <<>>)
    /\ UNCHANGED <<running, queue, handler, client>>

(* A generation that ends well: what is left of a character goes out, the  *)
(* session is kept with the tokens it was recorded to hold, and the client *)
(* is told.                                                                *)
SlipSinkWhole(text) ==
    IF running /\ text # <<>> /\ Last(text) \notin Halves
    THEN Send(chan, cur, [Message("chunk") EXCEPT !.text = text])
    ELSE chan
Sink(text) ==
    IF running /\ text # <<>>
    THEN Send(chan, cur, [Message("chunk") EXCEPT !.text = text])
    ELSE chan

Tell(c, reason, used) ==
    Send(c, cur, [Message("done") EXCEPT !.reason = reason, !.used = used])

Keep(s, tokens) ==
    IF Reuse THEN NextTurn(s, tokens) ELSE NextTurn(NoSession, <<>>)

Fail ==
    /\ worker \in {"prefill", "decode", "feed"}
    /\ Call("err")
    /\ chan' = Send(chan, cur, Message("err"))
    /\ NextTurn(NoSession, <<>>)
    /\ UNCHANGED <<running, queue, handler, client>>

SlipWholePrompt == Prompt[cur]

(* What a cancelled prompt pass fed.                                       *)
Fed == SubSeq(Prompt[cur], 1, Length(session))

(* One batch of the prompt pass, which ends at the checkpoint's position   *)
(* first.  A client gone ends the pass between two batches.                *)
Prefill ==
    LET ids == Prompt[cur]
        at == Length(session)
        stop == IF Batch # 0 /\ at < mark THEN mark ELSE Len(ids)
        to == IF Batch # 0 /\ at + Batch < stop THEN at + Batch ELSE stop
        fed == Extend(session, SubSeq(ids, at + 1, to))
    IN
    /\ worker = "prefill"
    /\ \/ /\ Batch # 0 /\ ~Waiting(cur)
          /\ Keep(session, Fed)
          /\ chan' = Tell(chan, "client_disconnect", 0)
       \/ /\ Batch = 0 \/ Waiting(cur)
          /\ session' = IF to = mark \/ Batch = 0 THEN Checkpoint(fed) ELSE fed
          /\ worker' = IF to = Len(ids) THEN "decode" ELSE "prefill"
          /\ UNCHANGED <<cur, held, requestVars, chan>>
    /\ UNCHANGED <<running, queue, handler, client, fails>>

SlipLateLimit == Length(session) > ContextLimit
ContextFull == Length(session) >= ContextLimit

(* The top of the decode loop with the next token `t`: the generation ends *)
(* or the token's text goes to the client, who may be gone.                *)
Decode(t) ==
    LET text == Append(pending, t)
        whole == t \notin Halves
        stopped == whole /\ ~(running /\ Waiting(cur))
        used == Len(gen)
        ended == Keep(session, Prompt[cur] \o gen)
    IN
    /\ worker = "decode"
    /\ \/ t = Eog /\ ended /\ chan' = Tell(Sink(pending), "stop", used)
       \/ /\ t # Eog /\ ContextFull
          /\ ended
          /\ chan' = Tell(Sink(pending), "length", used)
       \/ /\ t # Eog /\ ~ContextFull /\ stopped
          /\ ended
          /\ chan' = Tell(chan, "client_disconnect", used + 1)
       \/ /\ t # Eog /\ ~ContextFull /\ ~stopped
          /\ worker' = "feed"
          /\ gen' = Append(gen, t)
          /\ pending' = IF whole THEN <<>> ELSE text
          /\ chan' = IF whole THEN Sink(text) ELSE chan
          /\ UNCHANGED <<cur, session, held, mark>>
    /\ UNCHANGED <<running, queue, handler, client, fails>>

(* The token is fed back; the token limit is looked at after it.           *)
Feed ==
    LET fed == Extend(session, <<Last(gen)>>) IN
    /\ worker = "feed"
    /\ IF Len(gen) >= MaxNew[cur]
       THEN /\ Keep(fed, Prompt[cur] \o gen)
            /\ chan' = Tell(Sink(pending), "length", Len(gen))
       ELSE /\ worker' = "decode"
            /\ session' = fed
            /\ UNCHANGED <<cur, held, requestVars, chan>>
    /\ UNCHANGED <<running, queue, handler, client, fails>>

-----------------------------------------------------------------------------
WorkerStep ==
    \/ WarmUp \/ Check \/ Tick \/ Take \/ Refuse \/ Admit \/ Prefill \/ Feed \/ Fail
    \/ \E t \in Chosen \cup {Eog} : Decode(t)

HandlerStep(r) == Read(r) \/ Close(r)

Next ==
    \/ WorkerStep
    \/ Quit
    \/ \E r \in Reqs : Post(r) \/ HangUp(r) \/ HandlerStep(r)

Spec == Init /\ [][Next]_vars

(* The worker thread runs and calls into the model return; the runtime     *)
(* polls a handler that has something to read.                             *)
Fairness == WF_vars(WorkerStep) /\ \A r \in Reqs : WF_vars(HandlerStep(r))

FairSpec == Spec /\ Fairness

-----------------------------------------------------------------------------
SessionType ==
    [rows : Seq(Tokens), rec : Seq(Tokens), saved : Seq(Tokens), live : BOOLEAN]
MessageType ==
    [kind : {"start", "chunk", "rejected", "done", "err"}, text : Seq(Tokens),
     used : Nat, reason : {"none", "stop", "length", "client_disconnect"}]

TypeOK ==
    /\ worker \in {"warm_up", "check", "wait", "admit", "prefill", "decode", "feed", "stopped"}
    /\ running \in BOOLEAN
    /\ queue \in Seq(Reqs) /\ Len(queue) <= QueueCap
    /\ cur \in Reqs \cup {NoReq}
    /\ (cur # NoReq) <=> worker \in {"admit", "prefill", "decode", "feed"}
    /\ session \in SessionType
    /\ held \in Seq(Tokens) /\ gen \in Seq(Tokens) /\ pending \in Seq(Tokens)
    /\ mark \in Nat
    /\ handler \in [Reqs -> {"unsent", "collect", "first", "body", "done", "gone"}]
    /\ chan \in [Reqs -> Seq(MessageType)]
    /\ fails \in 0..MaxFail

(* What a session the worker keeps between requests holds, in every layer, *)
(* is the token list recorded for it: a list that was longer, shorter or   *)
(* of another request would rewind it against the wrong tokens.            *)
SessionHoldsHeld ==
    worker \in {"check", "wait", "admit"} =>
        session.rows = held /\ session.rec = held

(* Whatever the worker kept, rewound or restored, a request is answered    *)
(* from its own prompt and the tokens chosen for it, and nothing else.     *)
AnswersOwnPrompt ==
    LET whole == Prompt[cur] \o gen IN
    /\ worker = "prefill" =>
          /\ IsStrictPrefix(session.rows, Prompt[cur])
          /\ session.rec = session.rows
    /\ worker = "decode" => session.rows = whole /\ session.rec = whole
    /\ worker = "feed" => session.rows = Front(whole) /\ session.rec = Front(whole)

(* No sequence of requests feeds a position past the context's end.        *)
ContextRespected == Length(session) <= ContextLimit

(* A client told that a generation ended got all of its text, in order and *)
(* counted right, characters split between tokens included.  A quit is the *)
(* one reason for text that was counted and never sent.                    *)
TextComplete ==
    \A r \in Reqs :
        client[r].finish \in {"stop", "length"} /\ running =>
            Len(client[r].text) = client[r].used

(* "stop" tells a client that the model ended its answer.  Only a server   *)
(* that is going away says so of an answer that was cut off.               *)
StopIsTrue ==
    \A r \in Reqs :
        client[r].finish = "stop" => client[r].eos \/ ~running \/ worker = "stopped"

(* What a client is told of the end of its answer is true of its text.     *)
EndIsTrue == TextComplete /\ StopIsTrue

(* A request that was accepted is answered, or its client hangs up: no     *)
(* failure, refusal, cancelled neighbour or shutdown leaves it waiting.    *)
Answered == \A r \in Reqs : Waiting(r) ~> ~Waiting(r)
=============================================================================
