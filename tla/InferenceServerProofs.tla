------------------------ MODULE InferenceServerProofs ------------------------
(***************************************************************************)
(* Theorems about InferenceServer, for every set of requests, every        *)
(* prompt, every kind of session and every size of batch, queue and        *)
(* context: what the worker recorded of a kept session is what the session *)
(* holds, so that a request is answered from its own prompt; no sequence   *)
(* of requests overruns the context; and what a client is told of the end  *)
(* of its answer is true of the text it was sent.                          *)
(***************************************************************************)
EXTENDS InferenceServer, SequenceTheorems, WellFoundedInduction, TLAPS

-----------------------------------------------------------------------------
(* Prefixes.                                                               *)

(* A set of naturals that is not empty has a least element.                *)
LEMMA LeastExists ==
    ASSUME NEW T \in SUBSET Nat, T # {}
    PROVE  \E x \in T : \A y \in T : x <= y
<1>1. \E x \in T : \A y \in T : <<y, x>> \notin OpToRel(<, Nat)
  BY NatLessThanWellFounded, WFMin
<1>2. \A x, y \in Nat : y < x => <<y, x>> \in OpToRel(<, Nat)
  <2> SUFFICES ASSUME NEW x \in Nat, NEW y \in Nat, y < x
               PROVE  <<y, x>> \in {ss \in Nat \X Nat : ss[1] < ss[2]}
    BY DEF OpToRel
  <2> QED OBVIOUS
<1>3. PICK x \in T : \A y \in T : <<y, x>> \notin OpToRel(<, Nat)
  BY <1>1
<1>4. ASSUME NEW y \in T PROVE x <= y
  <2>1. ~(y < x)
    BY <1>2, <1>3
  <2> QED BY <2>1
<1> QED BY <1>4

(* The first n elements of a sequence, by themselves.                      *)
LEMMA FirstFew ==
    ASSUME NEW S, NEW s \in Seq(S), NEW n \in 0..Len(s)
    PROVE  /\ SubSeq(s, 1, n) \in Seq(S)
           /\ Len(SubSeq(s, 1, n)) = n
           /\ \A i \in 1..n : SubSeq(s, 1, n)[i] = s[i]
<1>1. Len(s) \in Nat
  BY LenProperties
<1>2. \A i \in 1..n : s[i] \in S
  BY <1>1, ElementOfSeq
<1> QED BY <1>1, <1>2, SubSeqProperties

(* Sequences that share a prefix share every shorter one.                  *)
LEMMA ShorterShared ==
    ASSUME NEW S, NEW a \in Seq(S), NEW b \in Seq(S), NEW m \in Nat, NEW n \in 0..m,
           m <= Len(a), m <= Len(b), SubSeq(a, 1, m) = SubSeq(b, 1, m)
    PROVE  SubSeq(a, 1, n) = SubSeq(b, 1, n)
<1>0. Len(a) \in Nat /\ Len(b) \in Nat
  BY LenProperties
<1>1. m \in 0..Len(a) /\ m \in 0..Len(b) /\ n \in 0..Len(a) /\ n \in 0..Len(b)
  BY <1>0
<1>2. \A i \in 1..m : a[i] = b[i]
  BY <1>1, FirstFew
<1>3. \A i \in 1..n : SubSeq(a, 1, n)[i] = SubSeq(b, 1, n)[i]
  BY <1>1, <1>2, FirstFew
<1>4. /\ SubSeq(a, 1, n) \in Seq(S) /\ SubSeq(b, 1, n) \in Seq(S)
      /\ Len(SubSeq(a, 1, n)) = n /\ Len(SubSeq(b, 1, n)) = n
  BY <1>1, FirstFew
<1> QED BY <1>3, <1>4, SeqEqual

(* CommonPrefix(a, b) is a number of positions that a and b share.         *)
LEMMA CommonPrefixFact ==
    ASSUME NEW S, NEW a \in Seq(S), NEW b \in Seq(S)
    PROVE  /\ CommonPrefix(a, b) \in 0..Len(a)
           /\ CommonPrefix(a, b) <= Len(b)
           /\ \A n \in 0..CommonPrefix(a, b) : SubSeq(a, 1, n) = SubSeq(b, 1, n)
<1> DEFINE C == CommonPrefixes({a, b})
           T == {Len(a) - Len(p) : p \in C}
           best == LongestCommonPrefix({a, b})
<1>0. Len(a) \in Nat /\ Len(b) \in Nat
  BY LenProperties
<1>1. \A p \in C : IsPrefix(p, a) /\ IsPrefix(p, b)
  BY DEF CommonPrefixes
<1>2. \A p \in C : p \in Seq(S)
  <2> SUFFICES ASSUME NEW p \in C PROVE p \in Seq(S)
    OBVIOUS
  <2>1. PICK s \in {a, b} : p \in Prefixes(s)
    BY DEF CommonPrefixes
  <2>2. PICK l \in 0..Len(s) : p = SubSeq(s, 1, l)
    BY <2>1 DEF Prefixes
  <2> QED BY <2>2, <1>0, FirstFew
<1>3. <<>> \in C
  <2>1. SubSeq(a, 1, 0) = <<>> /\ 0 \in 0..Len(a)
    BY <1>0, SubSeqEmpty
  <2>2. <<>> \in Prefixes(a)
    BY <2>1 DEF Prefixes
  <2>3. \A s \in {a, b} : IsPrefix(<<>>, s)
    BY <1>0, EmptySeq, SubSeqEmpty DEF IsPrefix
  <2> QED BY <2>2, <2>3 DEF CommonPrefixes
<1>4. \A p \in C : Len(p) \in Nat /\ Len(p) <= Len(a)
  BY <1>1, <1>2, LenProperties DEF IsPrefix
<1> HIDE DEF C
<1>5. T \in SUBSET Nat /\ T # {}
  BY <1>0, <1>3, <1>4
<1>6. PICK x \in T : \A y \in T : x <= y
  BY <1>5, LeastExists
<1>7. PICK p \in C : x = Len(a) - Len(p)
  BY <1>6
<1>8. \A q \in C : Len(q) <= Len(p)
  <2> SUFFICES ASSUME NEW q \in C PROVE Len(q) <= Len(p)
    OBVIOUS
  <2>1. Len(a) - Len(p) <= Len(a) - Len(q)
    BY <1>6, <1>7
  <2> QED BY <2>1, <1>0, <1>4
<1>9. best \in C
  <2>1. \E q \in C : \A r \in C : Len(r) <= Len(q)
    BY <1>8
  <2>2. best = CHOOSE q \in C : \A r \in C : Len(r) <= Len(q)
    BY DEF LongestCommonPrefix, C
  <2> QED BY <2>1, <2>2
<1> HIDE DEF T, best
<1>10. /\ Len(best) \in 0..Len(a) /\ Len(best) <= Len(b)
       /\ SubSeq(best, 1, Len(best)) = SubSeq(a, 1, Len(best))
       /\ SubSeq(best, 1, Len(best)) = SubSeq(b, 1, Len(best))
  BY <1>0, <1>1, <1>4, <1>9 DEF IsPrefix
<1>11. \A n \in 0..Len(best) : SubSeq(a, 1, n) = SubSeq(b, 1, n)
  <2> SUFFICES ASSUME NEW n \in 0..Len(best)
               PROVE  SubSeq(a, 1, n) = SubSeq(b, 1, n)
    OBVIOUS
  <2> DEFINE m == Len(best)
  <2>1. /\ m \in Nat /\ m <= Len(a) /\ m <= Len(b) /\ n \in 0..m
        /\ SubSeq(a, 1, m) = SubSeq(b, 1, m)
    BY <1>0, <1>10
  <2> HIDE DEF m
  <2> QED BY <2>1, ShorterShared
<1> QED BY <1>10, <1>11 DEF CommonPrefix, best

-----------------------------------------------------------------------------
(* Sessions.                                                               *)

(* Every layer of a session holds the same tokens, and a checkpoint, which *)
(* only qwen35 takes, is of tokens it still holds.                         *)
SoundSession(s) ==
    /\ s \in SessionType
    /\ s.rec = s.rows
    /\ Len(s.saved) <= Len(s.rows)
    /\ s.saved = SubSeq(s.rows, 1, Len(s.saved))
    /\ Kind # "qwen35" => s.saved = <<>>

(* A session that holds nothing is sound.                                  *)
LEMMA EmptySound == SoundSession(NoSession) /\ SoundSession(FreshSession)
<1>1. <<>> \in Seq(Tokens) /\ Len(<<>>) = 0 /\ SubSeq(<<>>, 1, 0) = <<>>
  BY EmptySeq, SubSeqEmpty
<1>2. ASSUME NEW z \in BOOLEAN
      PROVE  SoundSession([rows |-> <<>>, rec |-> <<>>, saved |-> <<>>, live |-> z])
  <2> DEFINE s == [rows |-> <<>>, rec |-> <<>>, saved |-> <<>>, live |-> z]
  <2>1. s.rows = <<>> /\ s.rec = <<>> /\ s.saved = <<>>
    OBVIOUS
  <2>2. s \in SessionType
    BY <1>1 DEF SessionType
  <2>3. SoundSession(s)
    <3> HIDE DEF s
    <3> QED BY <1>1, <2>1, <2>2 DEF SoundSession
  <2> QED BY <2>3
<1> QED BY <1>2 DEF NoSession, FreshSession

(* truncate() leaves a sound session that holds a prefix of what it held,  *)
(* no longer than asked for.                                               *)
LEMMA TruncateSound ==
    ASSUME NEW s, SoundSession(s), NEW n \in Nat, NEW u \in Truncate(s, n)
    PROVE  /\ SoundSession(u)
           /\ Length(u) <= n /\ Length(u) <= Length(s)
           /\ u.rows = SubSeq(s.rows, 1, Length(u))
<1>1. /\ s.rows \in Seq(Tokens) /\ s.rec \in Seq(Tokens) /\ s.saved \in Seq(Tokens)
      /\ Len(s.rows) \in Nat /\ Len(s.saved) \in Nat
  BY LenProperties DEF SoundSession, SessionType
<1>2. CASE Kind = "llama" /\ n <= Length(s)
  <2>1. u = [s EXCEPT !.rows = SubSeq(s.rows, 1, n), !.rec = SubSeq(s.rec, 1, n)]
    BY <1>2 DEF Truncate
  <2>2. SubSeq(s.rows, 1, n) \in Seq(Tokens) /\ Len(SubSeq(s.rows, 1, n)) = n
    BY <1>1, <1>2, FirstFew DEF Length
  <2>3. /\ u.rows = SubSeq(s.rows, 1, n) /\ u.rec = u.rows /\ u.saved = <<>>
        /\ u \in SessionType
    BY <2>1, <2>2, <1>2 DEF SoundSession, SessionType
  <2>4. Len(<<>>) = 0 /\ SubSeq(u.rows, 1, 0) = <<>>
    BY SubSeqEmpty, EmptySeq
  <2> QED BY <2>2, <2>3, <2>4, <1>2, <1>1 DEF SoundSession, Length
<1>3. CASE Kind # "llama" /\ n = Length(s)
  <2>1. u = s
    BY <1>3 DEF Truncate
  <2> QED BY <2>1, <1>1, <1>3, SubSeqFull DEF Length
<1>4. CASE Kind # "llama" /\ n # Length(s)
  <2>1. /\ Len(s.saved) <= n /\ Kind = "qwen35"
        /\ u = [s EXCEPT !.rows = SubSeq(s.rows, 1, Len(s.saved)), !.rec = s.saved]
    BY <1>4 DEF Truncate
  <2>2. u.rows = s.saved /\ u.rec = s.saved /\ u.saved = s.saved /\ u \in SessionType
    BY <2>1, <1>1 DEF SoundSession, SessionType
  <2>3. SubSeq(s.saved, 1, Len(s.saved)) = s.saved
    BY <1>1, SubSeqFull
  <2> QED BY <2>1, <2>2, <2>3, <1>1 DEF SoundSession, Length
<1>5. CASE Kind = "llama" /\ ~(n <= Length(s))
  BY <1>5 DEF Truncate
<1> QED BY <1>2, <1>3, <1>4, <1>5

(* Feeding tokens extends every layer.                                     *)
LEMMA ExtendSound ==
    ASSUME NEW s, SoundSession(s), NEW ids \in Seq(Tokens)
    PROVE  /\ SoundSession(Extend(s, ids))
           /\ Extend(s, ids).rows = s.rows \o ids
<1> DEFINE e == Extend(s, ids)
           k == Len(s.saved)
<1>1. /\ s.rows \in Seq(Tokens) /\ s.saved \in Seq(Tokens)
      /\ Len(s.rows) \in Nat /\ k \in Nat /\ Len(ids) \in Nat
  BY LenProperties DEF SoundSession, SessionType
<1>2. /\ s.rows \o ids \in Seq(Tokens)
      /\ Len(s.rows \o ids) = Len(s.rows) + Len(ids)
      /\ \A i \in 1..Len(s.rows) : (s.rows \o ids)[i] = s.rows[i]
  BY <1>1, ConcatProperties
<1>3. /\ e.rows = s.rows \o ids /\ e.rec = e.rows /\ e.saved = s.saved
      /\ e \in SessionType
  BY <1>2, <1>1 DEF SoundSession, SessionType, Extend
<1>4. s.saved = SubSeq(s.rows \o ids, 1, k)
  <2>1. k \in 0..Len(s.rows) /\ k \in 0..Len(s.rows \o ids)
    BY <1>1, <1>2 DEF SoundSession
  <2>2. /\ Len(SubSeq(s.rows \o ids, 1, k)) = k
        /\ SubSeq(s.rows \o ids, 1, k) \in Seq(Tokens)
        /\ \A i \in 1..k : SubSeq(s.rows \o ids, 1, k)[i] = (s.rows \o ids)[i]
    BY <2>1, <1>2, FirstFew
  <2>3. \A i \in 1..k : SubSeq(s.rows, 1, k)[i] = s.rows[i]
    BY <2>1, <1>1, FirstFew
  <2>4. \A i \in 1..k : s.saved[i] = SubSeq(s.rows \o ids, 1, k)[i]
    BY <2>1, <2>2, <2>3, <1>1, <1>2 DEF SoundSession
  <2> QED BY <2>2, <2>4, <1>1, SeqEqual
<1> QED BY <1>1, <1>2, <1>3, <1>4 DEF SoundSession

(* A checkpoint changes nothing but what the session can return to.        *)
LEMMA CheckpointSound ==
    ASSUME NEW s, SoundSession(s)
    PROVE  SoundSession(Checkpoint(s)) /\ Checkpoint(s).rows = s.rows
<1>1. CASE Kind = "qwen35"
  <2>1. s.rows \in Seq(Tokens) /\ Len(s.rows) \in Nat
    BY LenProperties DEF SoundSession, SessionType
  <2>2. SubSeq(s.rows, 1, Len(s.rows)) = s.rows
    BY <2>1, SubSeqFull
  <2>3. Checkpoint(s) = [s EXCEPT !.saved = s.rec]
    BY <1>1 DEF Checkpoint
  <2> QED BY <2>1, <2>2, <2>3, <1>1 DEF SoundSession, SessionType
<1>2. CASE Kind # "qwen35"
  BY <1>2 DEF Checkpoint
<1> QED BY <1>1, <1>2

(* The session a request starts from, if it is the kept one, holds a       *)
(* strict prefix of the request's prompt.                                  *)
LEMMA RewoundFact ==
    ASSUME SoundSession(session), session.rows = held,
           NEW ids \in Seq(Tokens), ids # <<>>, NEW u \in Rewound(ids)
    PROVE  /\ SoundSession(u)
           /\ Length(u) \in Nat /\ Length(u) < Len(ids)
           /\ u.rows = SubSeq(ids, 1, Length(u))
<1> DEFINE n == Shared(ids)
           c == CommonPrefix(held, ids)
<1>1. held \in Seq(Tokens) /\ Len(held) \in Nat /\ Len(ids) \in Nat \ {0}
  BY LenProperties, EmptySeq DEF SoundSession, SessionType
<1>2. /\ c \in Nat /\ c <= Len(held) /\ c <= Len(ids)
      /\ \A k \in 0..c : SubSeq(held, 1, k) = SubSeq(ids, 1, k)
  BY <1>1, CommonPrefixFact
<1>3. n \in Nat /\ n <= c /\ n < Len(ids)
  <2> HIDE DEF c
  <2> QED BY <1>1, <1>2 DEF Shared, c
<1> HIDE DEF n, c
<1>4. u \in Truncate(session, n)
  BY DEF Rewound, n
<1>5. /\ SoundSession(u) /\ Length(u) <= n
      /\ u.rows = SubSeq(held, 1, Length(u))
  BY <1>3, <1>4, TruncateSound
<1>6. Length(u) \in Nat
  BY <1>5, LenProperties DEF SoundSession, SessionType, Length
<1>7. Length(u) <= c /\ Length(u) < Len(ids)
  BY <1>1, <1>2, <1>3, <1>5, <1>6
<1>8. Length(u) \in 0..c
  BY <1>2, <1>6, <1>7
<1>9. SubSeq(held, 1, Length(u)) = SubSeq(ids, 1, Length(u))
  BY <1>2, <1>8
<1> QED BY <1>5, <1>6, <1>7, <1>9

-----------------------------------------------------------------------------
(* The inductive invariant.                                                *)

(* What the session holds in each phase of the worker: between requests    *)
(* the tokens recorded for it, while a prompt is fed a strict prefix of    *)
(* it, afterwards the prompt and the tokens chosen, of which the last is   *)
(* still to be fed in "feed".                                              *)
Resting == session.rows = held /\ gen = <<>>

Prefilling ==
    /\ gen = <<>>
    /\ Length(session) < Len(Prompt[cur]) /\ Len(Prompt[cur]) < ContextLimit
    /\ session.rows = SubSeq(Prompt[cur], 1, Length(session))
    /\ mark <= Len(Prompt[cur])

Decoding == session.rows = Prompt[cur] \o gen

Feeding ==
    /\ gen # <<>>
    /\ session.rows \o <<Last(gen)>> = Prompt[cur] \o gen
    /\ Length(session) < ContextLimit

Phases ==
    /\ worker \in {"warm_up", "check", "wait", "admit"} => Resting
    /\ worker = "prefill" => Prefilling
    /\ worker = "decode" => Decoding
    /\ worker = "feed" => Feeding

WorkerTypes ==
    /\ worker \in {"warm_up", "check", "wait", "admit", "prefill", "decode", "feed", "stopped"}
    /\ cur \in Reqs \cup {NoReq}
    /\ (cur # NoReq) <=> worker \in {"admit", "prefill", "decode", "feed"}
    /\ held \in Seq(Tokens) /\ gen \in Seq(Tokens) /\ pending \in Seq(Tokens)
    /\ mark \in Nat

(* What concerns the worker's own variables, and what concerns the others. *)
WorkerInv ==
    /\ WorkerTypes
    /\ SoundSession(session)
    /\ Length(session) <= ContextLimit
    /\ Phases

OtherTypes ==
    /\ running \in BOOLEAN
    /\ queue \in Seq(Reqs) /\ Len(queue) <= QueueCap
    /\ handler \in [Reqs -> {"unsent", "collect", "first", "body", "done", "gone"}]
    /\ chan \in [Reqs -> Seq(MessageType)]
    /\ fails \in 0..MaxFail

ServerInv == WorkerInv /\ OtherTypes

-----------------------------------------------------------------------------
(* Steps that several actions share.                                       *)

(* Sending a message to a request, open or gone.                           *)
LEMMA SendType ==
    ASSUME NEW c \in [Reqs -> Seq(MessageType)], NEW r \in Reqs, NEW m \in MessageType
    PROVE  Send(c, r, m) \in [Reqs -> Seq(MessageType)]
<1>1. c[r] \in Seq(MessageType)
  OBVIOUS
<1>2. Append(c[r], m) \in Seq(MessageType)
  BY <1>1, AppendProperties
<1> QED BY <1>2 DEF Send

(* The messages the worker sends.                                          *)
LEMMA MessageTypes ==
    /\ \A kind \in {"start", "chunk", "rejected", "done", "err"} :
          Message(kind) \in MessageType
    /\ \A text \in Seq(Tokens) :
          [Message("chunk") EXCEPT !.text = text] \in MessageType
    /\ \A reason \in {"stop", "length", "client_disconnect"}, used \in Nat :
          [Message("done") EXCEPT !.reason = reason, !.used = used] \in MessageType
<1>1. <<>> \in Seq(Tokens)
  BY EmptySeq
<1>2. \A kind \in {"start", "chunk", "rejected", "done", "err"} :
          Message(kind) \in MessageType
  BY <1>1 DEF Message, MessageType
<1>3. Message("chunk") \in MessageType /\ Message("done") \in MessageType
  BY <1>2
<1> QED BY <1>2, <1>3 DEF MessageType

(* The text left of an answer, sent to the worker's request.               *)
LEMMA SinkType ==
    ASSUME chan \in [Reqs -> Seq(MessageType)], cur \in Reqs, NEW text \in Seq(Tokens)
    PROVE  Sink(text) \in [Reqs -> Seq(MessageType)]
BY MessageTypes, SendType DEF Sink

(* The end of an answer, sent after whatever `c` already holds.            *)
LEMMA TellType ==
    ASSUME NEW c \in [Reqs -> Seq(MessageType)], cur \in Reqs,
           NEW reason \in {"stop", "length", "client_disconnect"}, NEW used \in Nat
    PROVE  Tell(c, reason, used) \in [Reqs -> Seq(MessageType)]
BY MessageTypes, SendType DEF Tell

(* A call that may fail is counted up to the bound.                        *)
LEMMA CallType ==
    ASSUME fails \in 0..MaxFail, NEW out, Call(out)
    PROVE  fails' \in 0..MaxFail
<1>1. MaxFail \in Nat
  BY ServerAssumption
<1> QED BY <1>1 DEF Call

(* The end of a turn: the session kept holds the tokens recorded for it.   *)
LEMMA TurnEnds ==
    ASSUME NEW kept, SoundSession(kept), Length(kept) <= ContextLimit,
           NEW tokens \in Seq(Tokens), kept.rows = tokens, NextTurn(kept, tokens)
    PROVE  WorkerInv'
<1>1. /\ worker' = "check" /\ cur' = NoReq /\ session' = kept /\ held' = tokens
      /\ mark' = 0 /\ gen' = <<>> /\ pending' = <<>> /\ <<>> \in Seq(Tokens)
  BY EmptySeq DEF NextTurn
<1>2. WorkerTypes'
  BY <1>1 DEF WorkerTypes
<1>3. Phases'
  BY <1>1 DEF Phases, Resting
<1>4. SoundSession(session') /\ Length(session') <= ContextLimit
  BY <1>1
<1> QED BY <1>2, <1>3, <1>4 DEF WorkerInv, SoundSession, Length

(* A turn that keeps nothing.                                              *)
LEMMA TurnEndsEmpty ==
    ASSUME NextTurn(NoSession, <<>>)
    PROVE  WorkerInv'
<1>1. <<>> \in Seq(Tokens) /\ Len(<<>>) = 0 /\ ContextLimit \in Nat
  BY EmptySeq, ServerAssumption
<1>2. NoSession.rows = <<>>
  BY DEF NoSession
<1>3. Length(NoSession) <= ContextLimit
  BY <1>1, <1>2 DEF Length
<1> QED BY <1>1, <1>2, <1>3, EmptySound, TurnEnds

(* A turn whose session is kept, or dropped when sessions are not reused.  *)
LEMMA KeepEnds ==
    ASSUME NEW kept, SoundSession(kept), Length(kept) <= ContextLimit,
           NEW tokens \in Seq(Tokens), kept.rows = tokens, Keep(kept, tokens)
    PROVE  WorkerInv'
BY TurnEnds, TurnEndsEmpty DEF Keep

(* What handlers and clients do leaves the worker's variables alone.       *)
LEMMA WorkerFrame ==
    ASSUME WorkerInv, UNCHANGED <<worker, cur, session, held, requestVars>>
    PROVE  WorkerInv'
BY DEF WorkerInv, WorkerTypes, Phases, Resting, Prefilling, Decoding, Feeding, requestVars,
       SoundSession, Length

-----------------------------------------------------------------------------
(* The steps of handlers, clients and the user.                            *)

(* A step outside the worker keeps the invariant.                          *)
LEMMA OutsideSteps ==
    ASSUME ServerInv, Quit \/ \E r \in Reqs : Post(r) \/ HangUp(r) \/ HandlerStep(r)
    PROVE  ServerInv'
<1> USE DEF ServerInv
<1>1. CASE Quit
  <2>1. WorkerInv'
    BY <1>1, WorkerFrame DEF Quit, workerVars
  <2>2. OtherTypes'
    BY <1>1 DEF Quit, workerVars, OtherTypes
  <2> QED BY <2>1, <2>2
<1>2. ASSUME NEW r \in Reqs, Post(r) PROVE ServerInv'
  <2>1. WorkerInv'
    BY <1>2, WorkerFrame DEF Post
  <2>2. queue' \in Seq(Reqs) /\ Len(queue') <= QueueCap
    <3>1. QueueCap \in Nat /\ Len(queue) \in Nat
      BY ServerAssumption, LenProperties DEF OtherTypes
    <3>2. CASE queue' = queue
      BY <3>2 DEF OtherTypes
    <3>3. CASE queue' = Append(queue, r) /\ ~QueueFull
      BY <3>1, <3>3, AppendProperties DEF OtherTypes, QueueFull
    <3> QED BY <1>2, <3>2, <3>3 DEF Post
  <2>3. handler' \in [Reqs -> {"unsent", "collect", "first", "body", "done", "gone"}]
    BY <1>2 DEF Post, OtherTypes
  <2>4. UNCHANGED <<running, chan, fails>>
    BY <1>2 DEF Post
  <2> QED BY <2>1, <2>2, <2>3, <2>4 DEF OtherTypes
<1>3. ASSUME NEW r \in Reqs, HangUp(r) PROVE ServerInv'
  <2>1. WorkerInv'
    BY <1>3, WorkerFrame DEF HangUp, workerVars
  <2>2. <<>> \in Seq(MessageType)
    BY EmptySeq
  <2>3. OtherTypes'
    BY <1>3, <2>2 DEF HangUp, workerVars, OtherTypes
  <2> QED BY <2>1, <2>3
<1>4. ASSUME NEW r \in Reqs, Read(r) PROVE ServerInv'
  <2>1. WorkerInv'
    BY <1>4, WorkerFrame DEF Read, workerVars
  <2>2. <<>> \in Seq(MessageType) /\ Tail(chan[r]) \in Seq(MessageType)
    BY <1>4, EmptySeq, HeadTailProperties DEF Read, OtherTypes
  <2>3. chan' \in [Reqs -> Seq(MessageType)]
    BY <1>4, <2>2 DEF Read, OtherTypes
  <2>4. handler' \in [Reqs -> {"unsent", "collect", "first", "body", "done", "gone"}]
    BY <1>4 DEF Read, Answer, OtherTypes
  <2>5. UNCHANGED <<running, queue, fails>>
    BY <1>4 DEF Read, workerVars
  <2> QED BY <2>1, <2>3, <2>4, <2>5 DEF OtherTypes
<1>5. ASSUME NEW r \in Reqs, Close(r) PROVE ServerInv'
  <2>1. WorkerInv'
    BY <1>5, WorkerFrame DEF Close, workerVars
  <2>2. OtherTypes'
    BY <1>5 DEF Close, Answer, workerVars, OtherTypes
  <2> QED BY <2>1, <2>2
<1> QED BY <1>1, <1>2, <1>3, <1>4, <1>5 DEF HandlerStep

-----------------------------------------------------------------------------
(* The worker between two requests.                                        *)

(* Waiting, taking a request and leaving keep the invariant.               *)
LEMMA IdleSteps ==
    ASSUME ServerInv, WarmUp \/ Check \/ Tick \/ Take
    PROVE  ServerInv'
<1> USE DEF ServerInv
<1>1. ASSUME worker \in {"warm_up", "check"}, Leave, UNCHANGED <<cur, requestVars>>
      PROVE  WorkerInv' /\ queue' = <<>>
  <2>1. /\ worker' = "stopped" /\ session' = NoSession /\ held' = <<>> /\ queue' = <<>>
        /\ UNCHANGED <<cur, mark, gen, pending>>
    BY <1>1 DEF Leave, requestVars
  <2>2. WorkerTypes'
    BY <1>1, <2>1, EmptySeq DEF WorkerInv, WorkerTypes
  <2>3. Phases'
    BY <2>1 DEF Phases
  <2>4. Len(<<>>) = 0 /\ ContextLimit \in Nat /\ NoSession.rows = <<>>
    BY EmptySeq, ServerAssumption DEF NoSession
  <2>5. Length(session') <= ContextLimit
    BY <2>1, <2>4 DEF Length
  <2>6. SoundSession(session')
    BY <2>1, EmptySound
  <2> QED BY <2>1, <2>2, <2>3, <2>5, <2>6 DEF WorkerInv, SoundSession, Length
<1>2. ASSUME worker \in {"warm_up", "check", "wait"}, worker' \in {"check", "wait"},
             UNCHANGED <<cur, session, held, requestVars>>
      PROVE  WorkerInv'
  BY <1>2 DEF WorkerInv, WorkerTypes, Phases, Resting, requestVars, SoundSession, Length
<1>3. ASSUME NEW q \in {queue, <<>>}
      PROVE  q \in Seq(Reqs) /\ Len(q) <= QueueCap
  <2>1. CASE q = queue
    BY <2>1 DEF OtherTypes
  <2>2. CASE q = <<>>
    <3>1. <<>> \in Seq(Reqs) /\ Len(<<>>) = 0 /\ QueueCap \in Nat
      BY EmptySeq, ServerAssumption
    <3> QED BY <2>2, <3>1
  <2> QED BY <2>1, <2>2
<1>4. CASE WarmUp
  <2>1. WorkerInv' /\ queue' \in {queue, <<>>}
    BY <1>1, <1>2, <1>4 DEF WarmUp
  <2>2. fails' \in 0..MaxFail
    BY <1>4, CallType DEF WarmUp, OtherTypes
  <2>3. UNCHANGED <<running, handler, chan>>
    BY <1>4 DEF WarmUp
  <2>4. queue' \in Seq(Reqs) /\ Len(queue') <= QueueCap
    BY <1>3, <2>1
  <2> QED BY <2>1, <2>2, <2>3, <2>4 DEF OtherTypes
<1>5. CASE Check
  <2>1. WorkerInv' /\ queue' \in {queue, <<>>}
    BY <1>1, <1>2, <1>5 DEF Check
  <2>2. UNCHANGED <<running, handler, chan, fails>>
    BY <1>5 DEF Check
  <2>3. queue' \in Seq(Reqs) /\ Len(queue') <= QueueCap
    BY <1>3, <2>1
  <2> QED BY <2>1, <2>2, <2>3 DEF OtherTypes
<1>6. CASE Tick
  <2>1. WorkerInv'
    BY <1>2, <1>6 DEF Tick
  <2>2. OtherTypes'
    BY <1>6 DEF Tick, OtherTypes
  <2> QED BY <2>1, <2>2
<1>7. CASE Take
  <2>1. /\ worker = "wait" /\ queue # <<>> /\ queue' = Tail(queue)
        /\ UNCHANGED <<running, session, held, requestVars, handler, chan, fails>>
    BY <1>7 DEF Take
  <2>2. /\ Head(queue) \in Reqs /\ Tail(queue) \in Seq(Reqs)
        /\ Len(Tail(queue)) = Len(queue) - 1 /\ Len(queue) \in Nat
    BY <2>1, HeadTailProperties, LenProperties DEF OtherTypes
  <2>3. OtherTypes'
    BY <2>1, <2>2, ServerAssumption DEF OtherTypes
  <2>4. Head(queue) # NoReq
    BY <2>2, ServerAssumption
  <2>5. WorkerInv'
    <3>1. CASE worker' = "admit" /\ cur' = Head(queue)
      BY <3>1, <2>1, <2>2, <2>4
         DEF WorkerInv, WorkerTypes, Phases, Resting, requestVars, SoundSession, Length
    <3>2. CASE worker' = "check" /\ UNCHANGED cur
      BY <3>2, <2>1, <1>2
    <3> QED BY <1>7, <3>1, <3>2 DEF Take
  <2> QED BY <2>3, <2>5
<1> QED BY <1>4, <1>5, <1>6, <1>7

-----------------------------------------------------------------------------
(* The worker with a request.                                              *)

(* What the steps below know of the request the worker holds.              *)
LEMMA Holding ==
    ASSUME ServerInv, worker \in {"admit", "prefill", "decode", "feed"}
    PROVE  /\ cur \in Reqs /\ Prompt[cur] \in Seq(Tokens)
           /\ Len(Prompt[cur]) \in Nat \ {0}
           /\ ContextLimit \in Nat
           /\ session.rows \in Seq(Tokens) /\ Length(session) \in Nat
           /\ chan \in [Reqs -> Seq(MessageType)]
           /\ <<>> \in Seq(Tokens)
<1>1. cur \in Reqs
  BY DEF ServerInv, WorkerInv, WorkerTypes
<1>2. Prompt[cur] \in Seq(Tokens) /\ Prompt[cur] # <<>> /\ ContextLimit \in Nat
  BY <1>1, ServerAssumption
<1>3. Len(Prompt[cur]) \in Nat \ {0}
  BY <1>2, EmptySeq
<1>4. session.rows \in Seq(Tokens) /\ chan \in [Reqs -> Seq(MessageType)]
  BY DEF ServerInv, WorkerInv, SoundSession, SessionType, OtherTypes
<1>5. Length(session) \in Nat
  BY <1>4, LenProperties DEF Length
<1> QED BY <1>1, <1>2, <1>3, <1>4, <1>5, EmptySeq

(* Refusing a request keeps the session for the next one; failing drops    *)
(* it.                                                                     *)
LEMMA RefuseOrFail ==
    ASSUME ServerInv, Refuse \/ Fail
    PROVE  ServerInv'
<1>1. CASE Refuse
  <2>1. worker = "admit" /\ NextTurn(session, held) /\ UNCHANGED <<running, queue, handler>>
    BY <1>1 DEF Refuse
  <2>2. WorkerInv'
    BY <2>1, TurnEnds DEF ServerInv, WorkerInv, WorkerTypes, Phases, Resting
  <2>3. fails' \in 0..MaxFail
    BY <1>1, CallType DEF Refuse, ServerInv, OtherTypes
  <2>4. chan' \in [Reqs -> Seq(MessageType)]
    <3>1. /\ Message("err") \in MessageType /\ Message("rejected") \in MessageType
          /\ cur \in Reqs /\ chan \in [Reqs -> Seq(MessageType)]
      BY <2>1, Holding, MessageTypes
    <3>2. chan' = Send(chan, cur, Message("err")) \/ chan' = Send(chan, cur, Message("rejected"))
      BY <1>1 DEF Refuse
    <3> QED BY <3>1, <3>2, SendType
  <2> QED BY <2>1, <2>2, <2>3, <2>4 DEF ServerInv, OtherTypes
<1>2. CASE Fail
  <2>1. /\ worker \in {"prefill", "decode", "feed"} /\ NextTurn(NoSession, <<>>)
        /\ Call("err") /\ chan' = Send(chan, cur, Message("err"))
        /\ UNCHANGED <<running, queue, handler>>
    BY <1>2 DEF Fail
  <2>2. WorkerInv'
    BY <2>1, TurnEndsEmpty
  <2>3. fails' \in 0..MaxFail
    BY <2>1, CallType DEF ServerInv, OtherTypes
  <2>4. chan' \in [Reqs -> Seq(MessageType)]
    BY <2>1, Holding, MessageTypes, SendType
  <2> QED BY <2>1, <2>2, <2>3, <2>4 DEF ServerInv, OtherTypes
<1> QED BY <1>1, <1>2

(* A request starts from a session that holds a strict prefix of its       *)
(* prompt: the kept one rewound, or an empty one.                          *)
LEMMA AdmitStep ==
    ASSUME ServerInv, Admit
    PROVE  ServerInv'
<1> DEFINE ids == Prompt[cur]
<1>1. /\ worker = "admit" /\ Len(ids) < ContextLimit
      /\ UNCHANGED <<running, queue, handler>>
  BY DEF Admit
<1>2. /\ cur \in Reqs /\ ids \in Seq(Tokens) /\ Len(ids) \in Nat \ {0}
      /\ ContextLimit \in Nat /\ chan \in [Reqs -> Seq(MessageType)]
  BY <1>1, Holding
<1>3. fails' \in 0..MaxFail
  BY CallType DEF Admit, ServerInv, OtherTypes
<1>4. chan' \in [Reqs -> Seq(MessageType)]
  <2>1. Message("err") \in MessageType /\ Message("start") \in MessageType
    BY MessageTypes
  <2>2. chan' = Send(chan, cur, Message("err")) \/ chan' = Send(chan, cur, Message("start"))
    BY DEF Admit
  <2> QED BY <1>2, <2>1, <2>2, SendType
<1>5. CASE NextTurn(NoSession, <<>>)
  BY <1>1, <1>3, <1>4, <1>5, TurnEndsEmpty DEF ServerInv, OtherTypes
<1>6. CASE /\ worker' = "prefill"
           /\ session' \in (IF Rewound(ids) = {} THEN {FreshSession} ELSE Rewound(ids))
           /\ held' = <<>>
           /\ mark' = IF LastTurn[cur] \in Length(session')+1..Len(ids)-1
                      THEN LastTurn[cur] ELSE Len(ids)
           /\ UNCHANGED <<cur, gen, pending>>
  <2>1. /\ SoundSession(session') /\ Length(session') \in Nat
        /\ Length(session') < Len(ids)
        /\ session'.rows = SubSeq(ids, 1, Length(session'))
    <3>1. CASE session' = FreshSession
      <4>1. session'.rows = <<>>
        BY <3>1 DEF FreshSession
      <4>2. Len(<<>>) = 0 /\ SubSeq(ids, 1, 0) = <<>>
        BY EmptySeq, SubSeqEmpty
      <4> QED BY <3>1, <4>1, <4>2, <1>2, EmptySound DEF Length
    <3>2. CASE session' \in Rewound(ids)
      <4>1. SoundSession(session) /\ session.rows = held
        BY <1>1 DEF ServerInv, WorkerInv, Phases, Resting
      <4>2. ids # <<>>
        BY <1>2, EmptySeq
      <4> HIDE DEF ids
      <4> QED BY <3>2, <4>1, <4>2, <1>2, RewoundFact
    <3> QED BY <1>6, <3>1, <3>2
  <2>2. gen = <<>> /\ gen \in Seq(Tokens) /\ pending \in Seq(Tokens) /\ <<>> \in Seq(Tokens)
    BY <1>1, EmptySeq DEF ServerInv, WorkerInv, WorkerTypes, Phases, Resting
  <2>3. mark' \in Nat /\ mark' <= Len(ids)
    <3>1. LastTurn[cur] \in Nat
      BY <1>2, ServerAssumption
    <3> QED BY <1>6, <3>1, <1>2, <2>1
  <2>4. cur # NoReq
    BY <1>2, ServerAssumption
  <2>5. WorkerTypes'
    BY <1>2, <1>6, <2>2, <2>3, <2>4 DEF WorkerTypes
  <2>6. Prefilling'
    BY <1>1, <1>6, <2>1, <2>2, <2>3 DEF Prefilling, Length
  <2>7. Phases'
    BY <1>6, <2>6 DEF Phases
  <2>8. Length(session') <= ContextLimit
    BY <1>1, <1>2, <2>1
  <2>9. WorkerInv'
    BY <2>1, <2>5, <2>7, <2>8 DEF WorkerInv, SoundSession, Length
  <2> QED BY <1>1, <1>3, <1>4, <2>9 DEF ServerInv, OtherTypes
<1> QED BY <1>5, <1>6 DEF Admit

(* A batch of the prompt pass feeds the next tokens of the prompt, never   *)
(* past its end; a pass cut off records what it fed.                       *)
LEMMA PrefillStep ==
    ASSUME ServerInv, Prefill
    PROVE  ServerInv'
<1> DEFINE ids == Prompt[cur]
           at == Length(session)
           stop == IF Batch # 0 /\ at < mark THEN mark ELSE Len(ids)
           to == IF Batch # 0 /\ at + Batch < stop THEN at + Batch ELSE stop
           fed == Extend(session, SubSeq(ids, at + 1, to))
<1>1. worker = "prefill" /\ UNCHANGED <<running, queue, handler, fails>>
  BY DEF Prefill
<1>2. /\ cur \in Reqs /\ ids \in Seq(Tokens) /\ Len(ids) \in Nat \ {0}
      /\ ContextLimit \in Nat /\ chan \in [Reqs -> Seq(MessageType)]
      /\ session.rows \in Seq(Tokens) /\ at \in Nat
  BY <1>1, Holding
<1>3. /\ gen = <<>> /\ at < Len(ids) /\ Len(ids) < ContextLimit
      /\ session.rows = SubSeq(ids, 1, at) /\ mark <= Len(ids) /\ mark \in Nat
      /\ SoundSession(session) /\ at <= ContextLimit
  BY <1>1 DEF ServerInv, WorkerInv, WorkerTypes, Phases, Prefilling
<1>4. CASE Keep(session, Fed) /\ chan' = Tell(chan, "client_disconnect", 0)
  <2>1. Fed \in Seq(Tokens) /\ session.rows = Fed
    BY <1>2, <1>3 DEF Fed
  <2>2. WorkerInv'
    BY <1>3, <1>4, <2>1, KeepEnds
  <2>3. chan' \in [Reqs -> Seq(MessageType)]
    BY <1>2, <1>4, TellType
  <2> QED BY <1>1, <2>2, <2>3 DEF ServerInv, OtherTypes
<1>5. CASE /\ session' = IF to = mark \/ Batch = 0 THEN Checkpoint(fed) ELSE fed
           /\ worker' = IF to = Len(ids) THEN "decode" ELSE "prefill"
           /\ UNCHANGED <<cur, held, requestVars, chan>>
  <2>1. stop \in Nat /\ at < stop /\ stop <= Len(ids)
    BY <1>2, <1>3
  <2>2. to \in Nat /\ at < to /\ to <= Len(ids)
    <3>1. Batch \in Nat
      BY ServerAssumption
    <3> HIDE DEF stop, at, ids
    <3> QED BY <2>1, <3>1, <1>2
  <2> HIDE DEF stop, to
  <2>3. SubSeq(ids, at + 1, to) \in Seq(Tokens)
    <3>1. \A i \in at + 1..to : ids[i] \in Tokens
      BY <1>2, <2>2, ElementOfSeq
    <3> QED BY <3>1, <1>2, <2>2, SubSeqProperties
  <2>4. SoundSession(fed) /\ fed.rows = session.rows \o SubSeq(ids, at + 1, to)
    BY <1>3, <2>3, ExtendSound
  <2>5. fed.rows = SubSeq(ids, 1, to)
    <3>1. /\ 1 \in 1..Len(ids) + 1 /\ at \in 1 - 1..Len(ids) /\ to \in at..Len(ids)
      BY <1>2, <1>3, <2>2
    <3> HIDE DEF at, ids, fed
    <3>2. SubSeq(ids, 1, at) \o SubSeq(ids, at + 1, to) = SubSeq(ids, 1, to)
      BY <1>2, <3>1, ConcatAdjacentSubSeq
    <3> QED BY <1>3, <2>4, <3>2
  <2>6. SoundSession(session') /\ session'.rows = SubSeq(ids, 1, to)
    <3> HIDE DEF fed, ids
    <3> QED BY <1>5, <2>4, <2>5, CheckpointSound
  <2>7. Length(session') = to
    BY <1>2, <2>2, <2>6, FirstFew DEF Length
  <2>8. WorkerTypes'
    BY <1>1, <1>5 DEF ServerInv, WorkerInv, WorkerTypes, requestVars
  <2>9. Phases'
    <3>1. CASE to = Len(ids)
      <4>1. worker' = "decode"
        BY <1>5, <3>1
      <4>2. session'.rows = ids
        BY <2>6, <3>1, <1>2, SubSeqFull
      <4>3. ids \o <<>> = ids
        BY <1>2, ConcatEmptySeq
      <4> QED BY <1>3, <1>5, <4>1, <4>2, <4>3 DEF Phases, Decoding, requestVars
    <3>2. CASE to # Len(ids)
      <4>1. worker' = "prefill"
        BY <1>5, <3>2
      <4>2. to < Len(ids)
        BY <1>2, <2>2, <3>2
      <4> QED BY <1>3, <1>5, <2>6, <2>7, <4>1, <4>2 DEF Phases, Prefilling, requestVars
    <3> QED BY <3>1, <3>2
  <2>10. Length(session') <= ContextLimit
    BY <1>2, <1>3, <2>2, <2>7
  <2>11. WorkerInv'
    BY <2>6, <2>8, <2>9, <2>10 DEF WorkerInv, SoundSession, Length
  <2>12. OtherTypes'
    BY <1>1, <1>5 DEF ServerInv, OtherTypes
  <2> QED BY <2>11, <2>12 DEF ServerInv
<1>6. \/ Keep(session, Fed) /\ chan' = Tell(chan, "client_disconnect", 0)
      \/ /\ session' = IF to = mark \/ Batch = 0 THEN Checkpoint(fed) ELSE fed
         /\ worker' = IF to = Len(ids) THEN "decode" ELSE "prefill"
         /\ UNCHANGED <<cur, held, requestVars, chan>>
  BY DEF Prefill
<1> QED BY <1>4, <1>5, <1>6

(* What is fed and kept at the end of an answer: the prompt and the tokens *)
(* chosen.                                                                 *)
LEMMA WholeType ==
    ASSUME ServerInv, worker \in {"decode", "feed"}
    PROVE  Prompt[cur] \o gen \in Seq(Tokens) /\ gen \in Seq(Tokens) /\ Len(gen) \in Nat
<1>1. gen \in Seq(Tokens) /\ Prompt[cur] \in Seq(Tokens)
  BY Holding DEF ServerInv, WorkerInv, WorkerTypes
<1> QED BY <1>1, ConcatProperties, LenProperties

(* The end of a generation, or one more token chosen for it.               *)
LEMMA DecodeStep ==
    ASSUME ServerInv, NEW t \in Chosen \cup {Eog}, Decode(t)
    PROVE  ServerInv'
<1> DEFINE whole == Prompt[cur] \o gen
           text == Append(pending, t)
<1>1. worker = "decode" /\ UNCHANGED <<running, queue, handler, fails>>
  BY DEF Decode
<1>2. /\ cur \in Reqs /\ Prompt[cur] \in Seq(Tokens) /\ ContextLimit \in Nat
      /\ chan \in [Reqs -> Seq(MessageType)]
      /\ session.rows \in Seq(Tokens) /\ Length(session) \in Nat
      /\ <<>> \in Seq(Tokens)
  BY <1>1, Holding
<1>3. whole \in Seq(Tokens) /\ gen \in Seq(Tokens) /\ Len(gen) \in Nat
  BY <1>1, WholeType
<1>4. /\ session.rows = whole /\ SoundSession(session)
      /\ Length(session) <= ContextLimit /\ pending \in Seq(Tokens)
  BY <1>1 DEF ServerInv, WorkerInv, WorkerTypes, Phases, Decoding
<1>5. ASSUME Keep(session, whole),
             \/ chan' = Tell(Sink(pending), "stop", Len(gen))
             \/ chan' = Tell(Sink(pending), "length", Len(gen))
             \/ chan' = Tell(chan, "client_disconnect", Len(gen) + 1)
      PROVE  ServerInv'
  <2>1. WorkerInv'
    BY <1>3, <1>4, <1>5, KeepEnds
  <2>2. Sink(pending) \in [Reqs -> Seq(MessageType)]
    BY <1>2, <1>4, SinkType
  <2>3. chan' \in [Reqs -> Seq(MessageType)]
    <3>1. ASSUME NEW c \in [Reqs -> Seq(MessageType)], NEW n \in Nat,
                 NEW reason \in {"stop", "length", "client_disconnect"}
          PROVE  Tell(c, reason, n) \in [Reqs -> Seq(MessageType)]
      BY <1>2, TellType
    <3>2. Len(gen) + 1 \in Nat
      BY <1>3
    <3>3. CASE chan' = Tell(Sink(pending), "stop", Len(gen))
      BY <1>3, <2>2, <3>1, <3>3
    <3>4. CASE chan' = Tell(Sink(pending), "length", Len(gen))
      BY <1>3, <2>2, <3>1, <3>4
    <3>5. CASE chan' = Tell(chan, "client_disconnect", Len(gen) + 1)
      BY <1>2, <3>1, <3>2, <3>5
    <3> QED BY <1>5, <3>3, <3>4, <3>5
  <2> QED BY <1>1, <2>1, <2>3 DEF ServerInv, OtherTypes
<1>6. ASSUME t # Eog, ~ContextFull, worker' = "feed", gen' = Append(gen, t),
             pending' = IF t \notin Halves THEN <<>> ELSE text,
             chan' = IF t \notin Halves THEN Sink(text) ELSE chan,
             UNCHANGED <<cur, session, held, mark>>
      PROVE  ServerInv'
  <2>1. t \in Tokens
    BY <1>6, ServerAssumption
  <2>2. /\ gen' \in Seq(Tokens) /\ gen' # <<>> /\ Len(gen') = Len(gen) + 1
        /\ gen'[Len(gen) + 1] = t /\ gen' = gen \o <<t>> /\ text \in Seq(Tokens)
    BY <1>3, <1>4, <1>6, <2>1, AppendProperties, AppendIsConcat
  <2>3. Last(gen') = t
    BY <2>2 DEF Last
  <2>4. session.rows \o <<Last(gen')>> = Prompt[cur] \o gen'
    <3>1. <<t>> \in Seq(Tokens)
      BY <2>1
    <3>2. Prompt[cur] \in Seq(Tokens) /\ gen \in Seq(Tokens)
      BY <1>2, <1>3
    <3>3. (Prompt[cur] \o gen) \o <<t>> = Prompt[cur] \o (gen \o <<t>>)
      <4>1. \A a, b, c \in Seq(Tokens) : (a \o b) \o c = a \o (b \o c)
        BY ConcatAssociative
      <4> QED BY <3>1, <3>2, <4>1, Zenon
    <3> QED BY <1>4, <2>2, <2>3, <3>3
  <2>5. Length(session) < ContextLimit
    BY <1>2, <1>6 DEF ContextFull
  <2>6. WorkerTypes'
    BY <1>1, <1>2, <1>4, <1>6, <2>2 DEF ServerInv, WorkerInv, WorkerTypes
  <2>7. Phases'
    BY <1>6, <2>2, <2>4, <2>5 DEF Phases, Feeding, Length
  <2>8. WorkerInv'
    BY <1>4, <1>6, <2>6, <2>7 DEF WorkerInv, SoundSession, Length
  <2>9. chan' \in [Reqs -> Seq(MessageType)]
    BY <1>2, <1>6, <2>2, SinkType
  <2> QED BY <1>1, <2>8, <2>9 DEF ServerInv, OtherTypes
<1> QED BY <1>5, <1>6 DEF Decode

(* The last token chosen is fed, and is the last of the answer's when the  *)
(* limit is reached.                                                       *)
LEMMA FeedStep ==
    ASSUME ServerInv, Feed
    PROVE  ServerInv'
<1> DEFINE whole == Prompt[cur] \o gen
           fed == Extend(session, <<Last(gen)>>)
<1>1. worker = "feed" /\ UNCHANGED <<running, queue, handler, fails>>
  BY DEF Feed
<1>2. /\ cur \in Reqs /\ ContextLimit \in Nat /\ chan \in [Reqs -> Seq(MessageType)]
      /\ session.rows \in Seq(Tokens) /\ Length(session) \in Nat
  BY <1>1, Holding
<1>3. whole \in Seq(Tokens) /\ gen \in Seq(Tokens) /\ Len(gen) \in Nat
  BY <1>1, WholeType
<1>4. /\ gen # <<>> /\ session.rows \o <<Last(gen)>> = whole
      /\ Length(session) < ContextLimit /\ SoundSession(session)
      /\ pending \in Seq(Tokens)
  BY <1>1 DEF ServerInv, WorkerInv, WorkerTypes, Phases, Feeding
<1>5. <<Last(gen)>> \in Seq(Tokens) /\ Len(<<Last(gen)>>) = 1
  <2>1. Len(gen) \in 1..Len(gen)
    BY <1>3, <1>4, EmptySeq
  <2>2. Last(gen) \in Tokens
    BY <1>3, <2>1, ElementOfSeq DEF Last
  <2> QED BY <2>2
<1>6. SoundSession(fed) /\ fed.rows = whole
  BY <1>4, <1>5, ExtendSound
<1>7. Length(fed) <= ContextLimit
  <2>1. Len(session.rows \o <<Last(gen)>>) = Len(session.rows) + 1
    BY <1>2, <1>5, ConcatProperties
  <2> QED BY <1>2, <1>4, <1>6, <2>1 DEF Length
<1>8. ASSUME Keep(fed, whole), chan' = Tell(Sink(pending), "length", Len(gen))
      PROVE  ServerInv'
  <2>1. WorkerInv'
    BY <1>3, <1>6, <1>7, <1>8, KeepEnds
  <2>2. Sink(pending) \in [Reqs -> Seq(MessageType)]
    BY <1>2, <1>4, SinkType
  <2>3. chan' \in [Reqs -> Seq(MessageType)]
    BY <1>2, <1>3, <1>8, <2>2, TellType
  <2> QED BY <1>1, <2>1, <2>3 DEF ServerInv, OtherTypes
<1>9. ASSUME worker' = "decode", session' = fed,
             UNCHANGED <<cur, held, requestVars, chan>>
      PROVE  ServerInv'
  <2>1. WorkerTypes'
    BY <1>1, <1>9 DEF ServerInv, WorkerInv, WorkerTypes, requestVars
  <2>2. Phases'
    BY <1>6, <1>9 DEF Phases, Decoding, requestVars
  <2>3. SoundSession(session') /\ Length(session') <= ContextLimit
    BY <1>6, <1>7, <1>9
  <2>4. WorkerInv'
    BY <2>1, <2>2, <2>3 DEF WorkerInv, SoundSession, Length
  <2>5. OtherTypes'
    BY <1>1, <1>9 DEF ServerInv, OtherTypes
  <2> QED BY <2>4, <2>5 DEF ServerInv
<1> QED BY <1>8, <1>9 DEF Feed

-----------------------------------------------------------------------------
(* The theorems.                                                           *)

(* Initially nothing is kept and nobody waits.                             *)
LEMMA ServerInit == Init => ServerInv
<1> SUFFICES ASSUME Init PROVE ServerInv
  OBVIOUS
<1>1. /\ <<>> \in Seq(Tokens) /\ <<>> \in Seq(Reqs) /\ <<>> \in Seq(MessageType)
      /\ Len(<<>>) = 0
  BY EmptySeq
<1>2. {QueueCap, ContextLimit, MaxFail} \subseteq Nat /\ NoReq \notin Reqs
  BY ServerAssumption
<1>3. WorkerTypes
  BY <1>1, <1>2 DEF Init, WorkerTypes
<1>4. Phases
  BY DEF Init, Phases, Resting, NoSession
<1>5. SoundSession(session)
  BY EmptySound DEF Init
<1>6. Length(session) <= ContextLimit
  <2>1. session.rows = <<>>
    BY DEF Init, NoSession
  <2> QED BY <1>1, <1>2, <2>1 DEF Length
<1>7. OtherTypes
  <2>1. running \in BOOLEAN /\ fails \in 0..MaxFail
    BY <1>2 DEF Init
  <2>2. queue \in Seq(Reqs) /\ Len(queue) <= QueueCap
    BY <1>1, <1>2 DEF Init
  <2>3. handler \in [Reqs -> {"unsent", "collect", "first", "body", "done", "gone"}]
    BY DEF Init
  <2>4. chan \in [Reqs -> Seq(MessageType)]
    BY <1>1 DEF Init
  <2> QED BY <2>1, <2>2, <2>3, <2>4 DEF OtherTypes
<1> QED BY <1>3, <1>4, <1>5, <1>6, <1>7 DEF ServerInv, WorkerInv

(* Every step keeps the invariant.                                         *)
LEMMA ServerNext == ServerInv /\ [Next]_vars => ServerInv'
<1> SUFFICES ASSUME ServerInv, [Next]_vars PROVE ServerInv'
  OBVIOUS
<1>1. CASE WorkerStep
  BY <1>1, IdleSteps, RefuseOrFail, AdmitStep, PrefillStep, FeedStep, DecodeStep DEF WorkerStep
<1>2. CASE Quit \/ \E r \in Reqs : Post(r) \/ HangUp(r) \/ HandlerStep(r)
  BY <1>2, OutsideSteps
<1>3. CASE UNCHANGED vars
  <2>1. WorkerInv'
    BY <1>3, WorkerFrame DEF vars, requestVars, ServerInv
  <2>2. OtherTypes'
    BY <1>3 DEF vars, ServerInv, OtherTypes
  <2> QED BY <2>1, <2>2 DEF ServerInv
<1> QED BY <1>1, <1>2, <1>3 DEF Next

(* The invariant holds throughout.                                         *)
LEMMA ServerInvariant == Spec => []ServerInv
BY ServerInit, ServerNext, PTL DEF Spec

(* The type invariant, whatever clients, the user and failures do.         *)
THEOREM ServerTypes == Spec => []TypeOK
<1>1. ServerInv => TypeOK
  BY DEF ServerInv, WorkerInv, WorkerTypes, OtherTypes, SoundSession, TypeOK
<1> QED BY <1>1, ServerInvariant, PTL

(* A kept session holds, in every layer, the tokens recorded for it: the   *)
(* rewind for the next prompt compares it with the right list.             *)
THEOREM KeptSessionTrue == Spec => []SessionHoldsHeld
<1>1. ServerInv => SessionHoldsHeld
  BY DEF ServerInv, WorkerInv, Phases, Resting, SoundSession, SessionHoldsHeld
<1> QED BY <1>1, ServerInvariant, PTL

(* A request is answered from its own prompt and the tokens chosen for it, *)
(* for every history of requests, hang-ups and failures before it.         *)
THEOREM OwnPrompt == Spec => []AnswersOwnPrompt
<1>1. ServerInv => AnswersOwnPrompt
  <2> SUFFICES ASSUME ServerInv PROVE AnswersOwnPrompt
    OBVIOUS
  <2> DEFINE whole == Prompt[cur] \o gen
  <2>1. session.rec = session.rows
    BY DEF ServerInv, WorkerInv, SoundSession
  <2>2. ASSUME worker = "prefill" PROVE IsStrictPrefix(session.rows, Prompt[cur])
    <3>1. /\ session.rows \in Seq(Tokens) /\ Prompt[cur] \in Seq(Tokens)
          /\ Len(session.rows) < Len(Prompt[cur])
          /\ session.rows = SubSeq(Prompt[cur], 1, Len(session.rows))
          /\ Len(session.rows) \in Nat /\ Len(Prompt[cur]) \in Nat
      BY <2>2, Holding DEF ServerInv, WorkerInv, Phases, Prefilling, Length
    <3>2. SubSeq(session.rows, 1, Len(session.rows)) = session.rows
      BY <3>1, SubSeqFull
    <3>3. session.rows # Prompt[cur]
      BY <3>1
    <3> QED BY <3>1, <3>2, <3>3 DEF IsStrictPrefix, IsPrefix
  <2>3. ASSUME worker = "decode" PROVE session.rows = whole
    BY <2>3 DEF ServerInv, WorkerInv, Phases, Decoding
  <2>4. ASSUME worker = "feed" PROVE session.rows = Front(whole)
    <3> DEFINE rows == session.rows
               last == Last(gen)
    <3>1. /\ rows \in Seq(Tokens) /\ Len(rows) \in Nat /\ gen # <<>>
          /\ gen \in Seq(Tokens) /\ rows \o <<last>> = whole
      BY <2>4, Holding DEF ServerInv, WorkerInv, WorkerTypes, Phases, Feeding, Length
    <3>2. last \in Tokens
      <4>1. Len(gen) \in 1..Len(gen)
        BY <3>1, EmptySeq
      <4> QED BY <3>1, <4>1, ElementOfSeq DEF Last
    <3> HIDE DEF rows, last
    <3>3. /\ <<last>> \in Seq(Tokens) /\ Len(<<last>>) = 1
      BY <3>2
    <3>4. /\ rows \o <<last>> \in Seq(Tokens)
          /\ Len(rows \o <<last>>) = Len(rows) + 1
          /\ \A i \in 1..Len(rows) : (rows \o <<last>>)[i] = rows[i]
      BY <3>1, <3>3, ConcatProperties
    <3> DEFINE all == rows \o <<last>>
    <3>5. all \in Seq(Tokens) /\ Len(all) = Len(rows) + 1
      BY <3>4
    <3>6. \A i \in 1..Len(rows) : all[i] = rows[i]
      BY <3>1, <3>4
    <3> HIDE DEF all
    <3>7. /\ SubSeq(all, 1, Len(rows)) \in Seq(Tokens)
          /\ Len(SubSeq(all, 1, Len(rows))) = Len(rows)
          /\ \A i \in 1..Len(rows) : SubSeq(all, 1, Len(rows))[i] = all[i]
      <4>1. Len(rows) \in 0..Len(all)
        BY <3>1, <3>5
      <4> QED BY <3>5, <4>1, FirstFew
    <3>8. SubSeq(all, 1, Len(rows)) = rows
      BY <3>1, <3>6, <3>7, SeqEqual
    <3>9. Front(all) = rows
      BY <3>1, <3>5, <3>8 DEF Front
    <3> QED BY <3>1, <3>9 DEF all, rows
  <2> QED BY <2>1, <2>2, <2>3, <2>4 DEF AnswersOwnPrompt
<1> QED BY <1>1, ServerInvariant, PTL

(* No sequence of requests, rewinds and answers puts a position past the   *)
(* context's end into the session.                                         *)
THEOREM ContextHolds == Spec => []ContextRespected
<1>1. ServerInv => ContextRespected
  BY DEF ServerInv, WorkerInv, ContextRespected
<1> QED BY <1>1, ServerInvariant, PTL
-----------------------------------------------------------------------------
(* What a client is told.                                                  *)

(* The messages after which a request's sender is dropped.                 *)
Ends(m) == m.kind \in {"rejected", "done", "err"}

(* The messages of c carry, after the first `base` tokens of an answer,    *)
(* its tokens up to `total`.                                               *)
Carry(c, base, total) ==
    \E f \in [0..Len(c) -> 0..total] :
        /\ f[0] = base /\ f[Len(c)] = total
        /\ \A i \in 1..Len(c) : f[i] = f[i - 1] + Len(c[i].text)

(* The messages of c go on from an answer's first `base` tokens: text is   *)
(* in chunks, the last message alone may end the answer, and one that says *)
(* how long the answer is counts what was sent.                            *)
GoesOn(c, base) ==
    \A i \in 1..Len(c) :
        /\ c[i].kind # "chunk" => c[i].text = <<>>
        /\ Ends(c[i]) => i = Len(c)
        /\ c[i].kind = "done" =>
              c[i].reason \in {"stop", "length"} /\ Carry(c, base, c[i].used)

(* A request whose handler is at h, with c unread and k told to its        *)
(* client, while it is at `place` and the worker has sent n tokens for the *)
(* request it holds.                                                       *)
Open(h) == h \in {"collect", "first", "body"}

Tracked(h, c, k, place, n) ==
    /\ ~Open(h) => c = <<>>
    /\ h = "unsent" => place = "off" /\ k.text = <<>> /\ k.finish = "none"
    /\ k.finish \in {"stop", "length"} => Len(k.text) = k.used
    /\ k.finish = "stop" => k.eos
    /\ Open(h) /\ k.finish # "none" =>
          c = <<>> /\ place = "off" /\ k.finish \in {"stop", "length"}
    /\ Open(h) /\ place = "queue" => c = <<>> /\ k.text = <<>>
    /\ Open(h) /\ place = "worker" =>
          Carry(c, Len(k.text), n) /\ \A i \in 1..Len(c) : ~Ends(c[i])
    /\ Open(h) /\ place = "off" =>
          k.finish # "none" \/ (c # <<>> /\ Ends(c[Len(c)]))
    /\ GoesOn(c, Len(k.text))

Place(r) == IF r = cur THEN "worker" ELSE IF r \in ToSet(queue) THEN "queue" ELSE "off"

Emitted == Len(gen) - Len(pending)

ClientRecord ==
    [status : {"none", "200", "400", "429", "500", "503"},
     finish : {"none", "stop", "length", "error"},
     text : Seq(Tokens), used : Nat, eos : BOOLEAN]

ClientType == client \in [Reqs -> ClientRecord]

(* A request is in one place: once in the queue, or with the worker.       *)
OnePlace ==
    /\ \A i, j \in 1..Len(queue) : queue[i] = queue[j] => i = j
    /\ cur \notin ToSet(queue)

(* What waits for the end of a character was chosen for this answer.       *)
PendingChosen ==
    /\ Len(pending) <= Len(gen)
    /\ worker \notin {"decode", "feed"} => pending = <<>>

(* Before the first request nobody was sent anything.                      *)
Untouched == \A r \in Reqs : chan[r] = <<>> /\ client[r].text = <<>> /\ client[r].used = 0

AllTracked ==
    \A r \in Reqs : Tracked(handler[r], chan[r], client[r], Place(r), Emitted)

(* Once the server is leaving nothing is promised of answers any more.     *)
Serving == running /\ worker # "stopped"

AnswerInv ==
    /\ ClientType
    /\ PendingChosen
    /\ worker = "warm_up" \/ (worker = "stopped" /\ running) => Untouched
    /\ Serving => OnePlace /\ AllTracked

-----------------------------------------------------------------------------
(* What messages carry.                                                    *)

(* No messages carry nothing.                                              *)
LEMMA CarryNone ==
    ASSUME NEW base \in Nat
    PROVE  Carry(<<>>, base, base)
<1> DEFINE f == [i \in 0..0 |-> base]
<1>1. Len(<<>>) = 0
  BY EmptySeq
<1>2. f \in [0..0 -> 0..base] /\ f[0] = base
  OBVIOUS
<1> HIDE DEF f
<1>3. f \in [0..Len(<<>>) -> 0..base] /\ f[Len(<<>>)] = base
  BY <1>1, <1>2
<1>4. \A i \in 1..Len(<<>>) : f[i] = f[i - 1] + Len(<<>>[i].text)
  BY <1>1
<1> QED BY <1>2, <1>3, <1>4 DEF Carry

(* ... and what they carry is what they began from.                        *)
LEMMA CarryNothing ==
    ASSUME NEW base \in Nat, NEW total \in Nat, Carry(<<>>, base, total)
    PROVE  total = base
<1>1. Len(<<>>) = 0
  BY EmptySeq
<1> QED BY <1>1 DEF Carry

(* A message more carries its text more.                                   *)
LEMMA CarryMore ==
    ASSUME NEW c \in Seq(MessageType), NEW m \in MessageType,
           NEW base \in Nat, NEW total \in Nat, Carry(c, base, total)
    PROVE  Carry(Append(c, m), base, total + Len(m.text))
<1> DEFINE k == Len(c)
           e == Append(c, m)
           more == total + Len(m.text)
<1>1. k \in Nat /\ Len(m.text) \in Nat
  BY LenProperties DEF MessageType
<1>2. /\ Len(e) = k + 1 /\ e[k + 1] = m
      /\ \A i \in 1..k : e[i] = c[i]
  BY AppendProperties
<1>3. PICK f \in [0..k -> 0..total] :
          /\ f[0] = base /\ f[k] = total
          /\ \A i \in 1..k : f[i] = f[i - 1] + Len(c[i].text)
  BY DEF Carry
<1> DEFINE g == [i \in 0..k + 1 |-> IF i = k + 1 THEN more ELSE f[i]]
<1>4. \A i \in 0..k : g[i] = f[i]
  BY <1>1
<1>5. g[k + 1] = more
  BY <1>1
<1>6. g \in [0..k + 1 -> 0..more]
  <2>1. more \in 0..more
    BY <1>1
  <2>2. \A i \in 0..k : f[i] \in 0..more
    <3>1. ASSUME NEW i \in 0..k PROVE f[i] \in 0..more
      <4>1. f[i] \in 0..total
        BY <1>3
      <4> QED BY <4>1, <1>1
    <3> QED BY <3>1
  <2>3. \A i \in 0..k + 1 : i = k + 1 \/ i \in 0..k
    BY <1>1
  <2> HIDE DEF more, k
  <2> QED BY <2>1, <2>2, <2>3
<1> HIDE DEF g, e, more
<1>7. \A i \in 1..k + 1 : g[i] = g[i - 1] + Len(e[i].text)
  <2> SUFFICES ASSUME NEW i \in 1..k + 1 PROVE g[i] = g[i - 1] + Len(e[i].text)
    OBVIOUS
  <2>1. CASE i = k + 1
    <3>1. g[i - 1] = total
      BY <1>1, <1>3, <1>4, <2>1
    <3> QED BY <1>2, <1>5, <2>1, <3>1 DEF more
  <2>2. CASE i \in 1..k
    <3>1. g[i] = f[i] /\ g[i - 1] = f[i - 1]
      BY <1>1, <1>4, <2>2
    <3> QED BY <1>2, <1>3, <2>2, <3>1
  <2> QED BY <2>1, <2>2, <1>1
<1>8. g[0] = base
  BY <1>1, <1>3, <1>4
<1>9. /\ g \in [0..Len(e) -> 0..more] /\ g[0] = base /\ g[Len(e)] = more
      /\ \A i \in 1..Len(e) : g[i] = g[i - 1] + Len(e[i].text)
  BY <1>2, <1>5, <1>6, <1>7, <1>8
<1>10. Carry(e, base, more)
  BY <1>9 DEF Carry
<1> QED BY <1>10 DEF e, more

(* Once the first is read, the others carry what is left.                  *)
LEMMA CarryRead ==
    ASSUME NEW c \in Seq(MessageType), c # <<>>,
           NEW base \in Nat, NEW total \in Nat, Carry(c, base, total)
    PROVE  Carry(Tail(c), base + Len(Head(c).text), total)
<1> DEFINE k == Len(c)
           e == Tail(c)
<1>1. k \in Nat \ {0} /\ c[1] = Head(c)
  BY EmptySeq, HeadTailProperties
<1>2. Len(e) = k - 1 /\ \A i \in 1..k - 1 : e[i] = c[i + 1]
  BY HeadTailProperties
<1>3. PICK f \in [0..k -> 0..total] :
          /\ f[0] = base /\ f[k] = total
          /\ \A i \in 1..k : f[i] = f[i - 1] + Len(c[i].text)
  BY DEF Carry
<1> DEFINE g == [i \in 0..k - 1 |-> f[i + 1]]
<1> HIDE DEF k, e
<1>4. \A i \in 0..k - 1 : i + 1 \in 0..k /\ g[i] = f[i + 1]
  BY <1>1
<1>5. g \in [0..k - 1 -> 0..total]
  BY <1>3, <1>4
<1> HIDE DEF g
<1>6. g[0] = base + Len(Head(c).text)
  <2>1. g[0] = f[1] /\ 1 \in 1..k
    BY <1>1, <1>4
  <2>2. 1 - 1 = 0
    OBVIOUS
  <2>3. f[1] = f[0] + Len(c[1].text)
    BY <1>3, <2>1, <2>2
  <2> QED BY <1>1, <1>3, <2>1, <2>3
<1>7. g[k - 1] = total
  BY <1>1, <1>3, <1>4
<1>8. \A i \in 1..k - 1 : g[i] = g[i - 1] + Len(e[i].text)
  <2> SUFFICES ASSUME NEW i \in 1..k - 1 PROVE g[i] = g[i - 1] + Len(e[i].text)
    OBVIOUS
  <2>1. g[i] = f[i + 1] /\ g[i - 1] = f[i] /\ i + 1 \in 1..k
    BY <1>1, <1>4
  <2>2. i + 1 - 1 = i
    OBVIOUS
  <2>3. f[i + 1] = f[i] + Len(c[i + 1].text)
    <3> DEFINE j == i + 1
    <3>1. j \in 1..k /\ j - 1 = i
      BY <2>1, <2>2
    <3> HIDE DEF j
    <3>2. f[j] = f[j - 1] + Len(c[j].text)
      BY <1>3, <3>1
    <3> QED BY <3>1, <3>2 DEF j
  <2> QED BY <1>1, <1>2, <2>1, <2>3
<1>9. Carry(e, base + Len(Head(c).text), total)
  BY <1>2, <1>5, <1>6, <1>7, <1>8 DEF Carry
<1> QED BY <1>9 DEF e

(* A message more after messages that do not end the answer.               *)
LEMMA GoesOnMore ==
    ASSUME NEW c \in Seq(MessageType), NEW m \in MessageType, NEW base \in Nat,
           GoesOn(c, base), \A i \in 1..Len(c) : ~Ends(c[i]),
           m.kind # "chunk" => m.text = <<>>,
           m.kind = "done" =>
               m.reason \in {"stop", "length"} /\ Carry(c, base, m.used)
    PROVE  GoesOn(Append(c, m), base)
<1> DEFINE e == Append(c, m)
           k == Len(c)
<1>1. /\ k \in Nat /\ Len(e) = k + 1 /\ e[k + 1] = m
      /\ \A i \in 1..k : e[i] = c[i]
  BY LenProperties, AppendProperties
<1>2. m.kind = "done" => Carry(e, base, m.used)
  <2> SUFFICES ASSUME m.kind = "done" PROVE Carry(e, base, m.used)
    OBVIOUS
  <2>1. m.text = <<>> /\ m.used \in Nat /\ Len(m.text) = 0
    BY EmptySeq DEF MessageType
  <2>2. Carry(c, base, m.used)
    OBVIOUS
  <2>3. Carry(e, base, m.used + Len(m.text))
    BY <2>1, <2>2, CarryMore
  <2>4. m.used + Len(m.text) = m.used
    BY <2>1
  <2> QED BY <2>3, <2>4
<1> HIDE DEF e, k
<1>3. ASSUME NEW i \in 1..Len(e)
      PROVE  /\ e[i].kind # "chunk" => e[i].text = <<>>
             /\ Ends(e[i]) => i = Len(e)
             /\ e[i].kind = "done" =>
                   e[i].reason \in {"stop", "length"} /\ Carry(e, base, e[i].used)
  <2>1. CASE i = k + 1
    BY <1>1, <1>2, <2>1
  <2>2. CASE i \in 1..k
    <3>1. e[i] = c[i] /\ ~Ends(c[i])
      BY <1>1, <2>2 DEF k
    <3>2. c[i].kind # "done"
      BY <3>1 DEF Ends
    <3>3. c[i].kind # "chunk" => c[i].text = <<>>
      BY <2>2 DEF GoesOn, k
    <3> QED BY <3>1, <3>2, <3>3
  <2> QED BY <1>1, <2>1, <2>2
<1> QED BY <1>3 DEF GoesOn, e

(* What follows a message that has been read.                              *)
LEMMA GoesOnRead ==
    ASSUME NEW c \in Seq(MessageType), c # <<>>, NEW base \in Nat, GoesOn(c, base)
    PROVE  GoesOn(Tail(c), base + Len(Head(c).text))
<1> DEFINE e == Tail(c)
           k == Len(c)
           next == base + Len(Head(c).text)
<1>1. /\ k \in Nat \ {0} /\ e \in Seq(MessageType) /\ Len(e) = k - 1
      /\ \A i \in 1..k - 1 : e[i] = c[i + 1]
  BY EmptySeq, HeadTailProperties
<1>2. \A total \in Nat : Carry(c, base, total) => Carry(e, next, total)
  BY CarryRead
<1> HIDE DEF e, k, next
<1>3. ASSUME NEW i \in 1..Len(e)
      PROVE  /\ e[i].kind # "chunk" => e[i].text = <<>>
             /\ Ends(e[i]) => i = Len(e)
             /\ e[i].kind = "done" =>
                   e[i].reason \in {"stop", "length"} /\ Carry(e, next, e[i].used)
  <2> DEFINE j == i + 1
  <2>1. j \in 1..Len(c) /\ i = j - 1 /\ j \in 1..k
    BY <1>1 DEF k
  <2>2. e[i] = c[j]
    BY <1>1
  <2> HIDE DEF j
  <2>3. /\ c[j].kind # "chunk" => c[j].text = <<>>
        /\ Ends(c[j]) => j = Len(c)
        /\ c[j].kind = "done" =>
              c[j].reason \in {"stop", "length"} /\ Carry(c, base, c[j].used)
    BY <2>1 DEF GoesOn
  <2>4. c[j].used \in Nat
    <3>1. c[j] \in MessageType
      BY <2>1, ElementOfSeq
    <3> QED BY <3>1 DEF MessageType
  <2>5. j = Len(c) => i = Len(e)
    BY <1>1, <2>1 DEF k
  <2> QED BY <1>2, <2>2, <2>3, <2>4, <2>5
<1>4. GoesOn(e, next)
  BY <1>3 DEF GoesOn
<1> QED BY <1>4 DEF e, next

(* Nothing unread goes on from anywhere.                                   *)
LEMMA GoesOnEmpty ==
    ASSUME NEW base
    PROVE  GoesOn(<<>>, base)
<1>1. Len(<<>>) = 0
  BY EmptySeq
<1> QED BY <1>1 DEF GoesOn

-----------------------------------------------------------------------------
(* What happens to one request.                                            *)

(* The worker sends it a message that does not end its answer.             *)
LEMMA TrackedSend ==
    ASSUME NEW h, NEW c \in Seq(MessageType), NEW k \in ClientRecord, NEW n \in Nat,
           NEW m \in MessageType, m.kind \in {"start", "chunk"},
           m.kind = "start" => m.text = <<>>,
           Open(h), Tracked(h, c, k, "worker", n)
    PROVE  Tracked(h, Append(c, m), k, "worker", n + Len(m.text))
<1> DEFINE e == Append(c, m)
           base == Len(k.text)
<1>1. base \in Nat
  BY LenProperties DEF ClientRecord
<1>2. /\ h # "unsent" /\ k.finish = "none"
      /\ Carry(c, base, n) /\ GoesOn(c, base)
      /\ \A i \in 1..Len(c) : ~Ends(c[i])
  BY DEF Tracked, Open
<1>3. ~Ends(m) /\ m.kind # "done"
  BY DEF Ends
<1>4. Carry(e, base, n + Len(m.text)) /\ GoesOn(e, base)
  BY <1>1, <1>2, <1>3, CarryMore, GoesOnMore
<1>5. \A i \in 1..Len(e) : ~Ends(e[i])
  <2>1. /\ Len(c) \in Nat /\ Len(e) = Len(c) + 1 /\ e[Len(c) + 1] = m
        /\ \A i \in 1..Len(c) : e[i] = c[i]
    BY LenProperties, AppendProperties
  <2>2. \A i \in 1..Len(e) : i \in 1..Len(c) \/ i = Len(c) + 1
    BY <2>1
  <2> HIDE DEF e
  <2> QED BY <1>2, <1>3, <2>1, <2>2
<1>6. k.finish \notin {"stop", "length"} /\ k.finish # "stop"
  BY <1>2
<1> HIDE DEF e, base
<1>7. Tracked(h, e, k, "worker", n + Len(m.text))
  BY <1>2, <1>4, <1>5, <1>6 DEF Tracked, base
<1> QED BY <1>7 DEF e

(* The worker sends it the last message and drops it.                      *)
LEMMA TrackedEnd ==
    ASSUME NEW h, NEW c \in Seq(MessageType), NEW k \in ClientRecord, NEW n \in Nat,
           NEW m \in MessageType, Ends(m), m.text = <<>>,
           m.kind = "done" => m.reason \in {"stop", "length"} /\ m.used = n,
           Open(h), Tracked(h, c, k, "worker", n), NEW n2
    PROVE  Tracked(h, Append(c, m), k, "off", n2)
<1> DEFINE e == Append(c, m)
           base == Len(k.text)
<1>1. base \in Nat
  BY LenProperties DEF ClientRecord
<1>2. /\ h # "unsent" /\ k.finish = "none"
      /\ Carry(c, base, n) /\ GoesOn(c, base)
      /\ \A i \in 1..Len(c) : ~Ends(c[i])
  BY DEF Tracked, Open
<1>3. m.kind = "done" => m.reason \in {"stop", "length"} /\ Carry(c, base, m.used)
  BY <1>2
<1>4. GoesOn(e, base)
  BY <1>1, <1>2, <1>3, GoesOnMore
<1>5. e # <<>> /\ Ends(e[Len(e)])
  <2>1. /\ Len(c) \in Nat /\ Len(e) = Len(c) + 1 /\ e[Len(c) + 1] = m
    BY LenProperties, AppendProperties
  <2>2. Len(<<>>) = 0
    BY EmptySeq
  <2> HIDE DEF e
  <2> QED BY <2>1, <2>2
<1>6. k.finish \notin {"stop", "length"} /\ k.finish # "stop"
  BY <1>2
<1> HIDE DEF e, base
<1>7. Tracked(h, e, k, "off", n2)
  BY <1>2, <1>4, <1>5, <1>6 DEF Tracked, base
<1> QED BY <1>7 DEF e

(* Nobody listens: where the request is does not matter.                   *)
LEMMA TrackedShut ==
    ASSUME NEW h, NEW c, NEW k, NEW place, NEW n, ~Open(h), Tracked(h, c, k, place, n),
           NEW place2, NEW n2, h = "unsent" => place2 = "off"
    PROVE  Tracked(h, c, k, place2, n2)
BY DEF Tracked

(* The worker's count is about the request it holds.                       *)
LEMMA TrackedElsewhere ==
    ASSUME NEW h, NEW c, NEW k, NEW place, NEW n, place # "worker",
           Tracked(h, c, k, place, n), NEW n2
    PROVE  Tracked(h, c, k, place, n2)
BY DEF Tracked

(* The worker takes it off the queue.                                      *)
LEMMA TrackedTaken ==
    ASSUME NEW h, NEW c, NEW k \in ClientRecord, NEW n, Open(h),
           Tracked(h, c, k, "queue", n)
    PROVE  Tracked(h, c, k, "worker", 0)
<1>1. /\ h # "unsent" /\ c = <<>> /\ k.text = <<>> /\ k.finish = "none"
      /\ GoesOn(c, Len(k.text))
  BY DEF Tracked, Open
<1>2. Len(<<>>) = 0 /\ Carry(<<>>, 0, 0)
  BY EmptySeq, CarryNone
<1>3. Carry(c, Len(k.text), 0) /\ \A i \in 1..Len(c) : ~Ends(c[i])
  BY <1>1, <1>2
<1> QED BY <1>1, <1>3 DEF Tracked

(* It is posted, or turned away.                                           *)
LEMMA TrackedPosted ==
    ASSUME NEW c, NEW k, NEW place, NEW n, Tracked("unsent", c, k, place, n),
           NEW h \in {"first", "collect"}, NEW n2
    PROVE  Tracked(h, c, k, "queue", n2)
<1>1. /\ c = <<>> /\ k.text = <<>> /\ k.finish = "none" /\ GoesOn(c, Len(k.text))
  BY DEF Tracked, Open
<1> QED BY <1>1 DEF Tracked, Open

LEMMA TrackedAway ==
    ASSUME NEW c, NEW k \in ClientRecord, NEW place, NEW n,
           Tracked("unsent", c, k, place, n), NEW status, NEW place2, NEW n2
    PROVE  Tracked("done", c, [k EXCEPT !.status = status], place2, n2)
<1> DEFINE q == [k EXCEPT !.status = status]
<1>1. /\ c = <<>> /\ k.text = <<>> /\ k.finish = "none" /\ GoesOn(c, Len(k.text))
  BY DEF Tracked, Open
<1>2. q.text = k.text /\ q.finish = k.finish /\ q.used = k.used /\ q.eos = k.eos
  BY DEF ClientRecord
<1> HIDE DEF q
<1>3. Tracked("done", c, q, place2, n2)
  BY <1>1, <1>2 DEF Tracked, Open
<1> QED BY <1>3 DEF q

(* Its client hangs up.                                                    *)
LEMMA TrackedGone ==
    ASSUME NEW h, NEW c, NEW k, NEW place, NEW n, Tracked(h, c, k, place, n), Open(h),
           NEW place2, NEW n2
    PROVE  Tracked("gone", <<>>, k, place2, n2)
BY GoesOnEmpty DEF Tracked, Open

(* Its handler reads a message that does not end the answer.               *)
LEMMA TrackedRead ==
    ASSUME NEW h, NEW c \in Seq(MessageType), NEW k \in ClientRecord,
           NEW place \in {"worker", "queue", "off"}, NEW n \in Nat,
           Open(h), Tracked(h, c, k, place, n), c # <<>>, ~Ends(Head(c)),
           NEW h2, Open(h2), NEW q \in ClientRecord, q.finish = k.finish,
           Len(q.text) = Len(k.text) + Len(Head(c).text)
    PROVE  Tracked(h2, Tail(c), q, place, n)
<1> DEFINE e == Tail(c)
           base == Len(k.text)
<1>1. base \in Nat
  BY LenProperties DEF ClientRecord
<1>2. /\ k.finish = "none" /\ place # "queue" /\ GoesOn(c, base)
  BY DEF Tracked, Open
<1>3. /\ Len(c) \in Nat \ {0} /\ c[1] = Head(c)
      /\ e \in Seq(MessageType) /\ Len(e) = Len(c) - 1
      /\ \A i \in 1..Len(c) - 1 : e[i] = c[i + 1]
  BY EmptySeq, HeadTailProperties
<1>4. GoesOn(e, Len(q.text))
  BY <1>1, <1>2, GoesOnRead
<1> HIDE DEF e
<1>5. ASSUME place = "worker"
      PROVE  Carry(e, Len(q.text), n) /\ \A i \in 1..Len(e) : ~Ends(e[i])
  <2>1. Carry(c, base, n) /\ \A i \in 1..Len(c) : ~Ends(c[i])
    BY <1>5 DEF Tracked
  <2>2. Carry(Tail(c), base + Len(Head(c).text), n)
    BY <1>1, <2>1, CarryRead
  <2>3. Carry(e, Len(q.text), n)
    BY <2>2 DEF e
  <2>4. ASSUME NEW i \in 1..Len(e) PROVE ~Ends(e[i])
    <3>1. i + 1 \in 1..Len(c) /\ e[i] = c[i + 1]
      BY <1>3
    <3> QED BY <2>1, <3>1
  <2> QED BY <2>3, <2>4
<1>6. ASSUME place = "off" PROVE e # <<>> /\ Ends(e[Len(e)])
  <2>1. Ends(c[Len(c)])
    BY <1>2, <1>6 DEF Tracked
  <2>2. Len(c) # 1
    BY <1>3, <2>1
  <2>3. Len(e) \in 1..Len(c) - 1 /\ Len(e) + 1 = Len(c)
    BY <1>3, <2>2
  <2>4. e[Len(e)] = c[Len(c)]
    BY <1>3, <2>3
  <2>5. Len(<<>>) = 0
    BY EmptySeq
  <2> QED BY <2>1, <2>3, <2>4, <2>5
<1>7. q.finish = "none" /\ h2 # "unsent"
  BY <1>2 DEF Open
<1>8. q.finish \notin {"stop", "length"} /\ q.finish # "stop"
  BY <1>7
<1>9. Tracked(h2, e, q, place, n)
  BY <1>2, <1>4, <1>5, <1>6, <1>7, <1>8 DEF Tracked
<1> QED BY <1>9 DEF e

(* Its handler reads how the answer ended: all that was counted has come.  *)
LEMMA TrackedTold ==
    ASSUME NEW h, NEW c \in Seq(MessageType), NEW k \in ClientRecord,
           NEW place, NEW n \in Nat,
           Open(h), Tracked(h, c, k, place, n), c # <<>>, Head(c).kind = "done",
           place \in {"worker", "queue", "off"},
           NEW h2, Open(h2), NEW q \in ClientRecord, q.text = k.text,
           q.finish = Finish(Head(c).reason), q.used = Head(c).used,
           q.eos = (Head(c).reason = "stop")
    PROVE  Tracked(h2, Tail(c), q, place, n)
<1> DEFINE m == Head(c)
           base == Len(k.text)
<1>1. base \in Nat
  BY LenProperties DEF ClientRecord
<1>2. /\ k.finish = "none" /\ place # "queue" /\ GoesOn(c, base)
  BY DEF Tracked, Open
<1>3. /\ Len(c) \in Nat \ {0} /\ c[1] = m /\ 1 \in 1..Len(c)
      /\ m \in MessageType
      /\ Tail(c) \in Seq(MessageType) /\ Len(Tail(c)) = Len(c) - 1
  BY EmptySeq, HeadTailProperties
<1>4. /\ m.text = <<>> /\ Len(c) = 1
      /\ m.reason \in {"stop", "length"} /\ Carry(c, base, m.used)
  BY <1>2, <1>3 DEF GoesOn, Ends
<1>5. place = "off"
  <2>1. place # "worker"
    BY <1>3 DEF Tracked, Ends
  <2> QED BY <1>2, <2>1
<1>6. Tail(c) = <<>>
  <2>1. Len(Tail(c)) = 0
    BY <1>3, <1>4
  <2> QED BY <1>3, <2>1, EmptySeq
<1>7. m.used = base
  <2>1. m.used \in Nat /\ Len(m.text) = 0
    BY <1>3, <1>4, EmptySeq DEF MessageType
  <2>2. Carry(Tail(c), base + Len(m.text), m.used)
    BY <1>1, <1>4, <2>1, CarryRead
  <2>3. base + Len(m.text) = base
    <3>1. Len(m.text) = 0
      BY <2>1
    <3> HIDE DEF base, m
    <3> QED BY <1>1, <3>1
  <2>4. Carry(<<>>, base, m.used)
    BY <1>6, <2>2, <2>3
  <2> QED BY <1>1, <2>1, <2>4, CarryNothing
<1>8. /\ q.finish = m.reason /\ q.used = Len(q.text) /\ q.eos = (m.reason = "stop")
  BY <1>4, <1>7 DEF Finish
<1>9. GoesOn(Tail(c), Len(q.text))
  BY <1>6, GoesOnEmpty
<1>10. q.finish = "stop" => q.eos
  BY <1>8
<1> HIDE DEF m, base
<1>11. q.finish \in {"stop", "length"} /\ h2 # "unsent"
  BY <1>4, <1>8 DEF Open
<1>12. q.finish # "none"
  BY <1>11
<1> QED BY <1>5, <1>6, <1>8, <1>9, <1>10, <1>11, <1>12 DEF Tracked

(* Its handler reads that it was refused or has failed.                    *)
LEMMA TrackedFailed ==
    ASSUME NEW h, NEW c, NEW k \in ClientRecord, NEW place, NEW n,
           Open(h), Tracked(h, c, k, place, n), c # <<>>,
           NEW q \in ClientRecord, q.text = k.text, q.used = k.used, q.eos = k.eos,
           q.finish \in {k.finish, "error"}, NEW place2, NEW n2
    PROVE  Tracked("done", <<>>, q, place2, n2)
<1>1. k.finish = "none"
  BY DEF Tracked
<1>2. q.finish \notin {"stop", "length"} /\ q.finish # "stop"
  BY <1>1
<1> QED BY <1>2, GoesOnEmpty DEF Tracked, Open

(* Its answer ends: it has been told how.                                  *)
LEMMA TrackedClosed ==
    ASSUME NEW h, NEW k \in ClientRecord, NEW n, Open(h), Tracked(h, <<>>, k, "off", n),
           NEW q \in ClientRecord, q.text = k.text, q.used = k.used, q.eos = k.eos,
           q.finish = IF k.finish = "none" THEN "stop" ELSE k.finish,
           NEW place2, NEW n2
    PROVE  Tracked("done", <<>>, q, place2, n2)
<1>1. k.finish # "none"
  BY DEF Tracked
<1>2. /\ k.finish \in {"stop", "length"} => Len(k.text) = k.used
      /\ k.finish = "stop" => k.eos
  BY DEF Tracked
<1> QED BY <1>1, <1>2, GoesOnEmpty DEF Tracked, Open

-----------------------------------------------------------------------------
(* The steps of handlers, clients and the user, for what clients are told. *)

(* A step about one request, that moves no request.                        *)
LEMMA OnlyOne ==
    ASSUME AllTracked, NEW r \in Reqs, UNCHANGED <<queue, cur, gen, pending>>,
           \A s \in Reqs \ {r} :
               /\ handler'[s] = handler[s] /\ chan'[s] = chan[s]
               /\ client'[s] = client[s],
           Tracked(handler'[r], chan'[r], client'[r], Place(r), Emitted)
    PROVE  AllTracked'
<1>1. Emitted' = Emitted
  BY DEF Emitted
<1>2. ASSUME NEW s \in Reqs
      PROVE  Tracked(handler[s], chan[s], client[s], Place(s), Emitted)'
  <2>1. Place(s)' = Place(s)
    BY DEF Place
  <2>2. CASE s = r
    BY <1>1, <2>1, <2>2
  <2>3. CASE s # r
    <3>1. Tracked(handler[s], chan[s], client[s], Place(s), Emitted)
      BY DEF AllTracked
    <3>2. handler'[s] = handler[s] /\ chan'[s] = chan[s] /\ client'[s] = client[s]
      BY <2>3
    <3> QED BY <1>1, <2>1, <3>1, <3>2
  <2> QED BY <2>2, <2>3
<1> QED BY <1>2 DEF AllTracked

(* What a step outside the worker, and outside the queue, leaves true.     *)
LEMMA AnswerFrame ==
    ASSUME AnswerInv, UNCHANGED <<worker, queue, cur, gen, pending>>,
           running' => running, ClientType', Untouched => Untouched',
           Serving /\ running' => AllTracked'
    PROVE  AnswerInv'
BY DEF AnswerInv, OnePlace, PendingChosen, Serving

(* A handler that waits has somewhere to be found.                         *)
LEMMA WaitingOpen == \A r : Waiting(r) <=> Open(handler[r])
BY DEF Waiting, Open

LEMMA PlaceKinds == \A r : Place(r) \in {"worker", "queue", "off"}
BY DEF Place

LEMMA EmittedType ==
    ASSUME ServerInv, PendingChosen
    PROVE  Emitted \in Nat
<1>1. Len(gen) \in Nat /\ Len(pending) \in Nat
  BY LenProperties DEF ServerInv, WorkerInv, WorkerTypes
<1> QED BY <1>1 DEF PendingChosen, Emitted

(* A message read.                                                         *)
LEMMA ReadTold ==
    ASSUME ServerInv, AnswerInv, NEW r \in Reqs, Read(r)
    PROVE  AnswerInv'
<1> DEFINE h == handler[r]
           c == chan[r]
           k == client[r]
           m == Head(c)
           began == IF h = "collect" THEN k ELSE [k EXCEPT !.status = "200"]
           on == IF h = "collect" THEN "collect" ELSE "body"
<1>1. /\ Open(h) /\ c # <<>> /\ c \in Seq(MessageType) /\ k \in ClientRecord
      /\ m \in MessageType /\ h \in {"collect", "first", "body"}
  <2>1. Open(h) /\ c # <<>>
    BY WaitingOpen DEF Read
  <2>2. c \in Seq(MessageType) /\ k \in ClientRecord
    BY DEF ServerInv, OtherTypes, AnswerInv, ClientType
  <2> QED BY <2>1, <2>2, HeadTailProperties DEF Open
<1>2. /\ UNCHANGED <<worker, queue, cur, gen, pending, running>>
      /\ chan' = [chan EXCEPT ![r] = IF m.kind \in {"rejected", "err"} THEN <<>> ELSE Tail(c)]
      /\ chan \in [Reqs -> Seq(MessageType)] /\ client \in [Reqs -> ClientRecord]
      /\ handler \in [Reqs -> {"unsent", "collect", "first", "body", "done", "gone"}]
  BY DEF Read, workerVars, requestVars, ServerInv, OtherTypes, AnswerInv, ClientType
<1>3. \/ m.kind = "start" /\ UNCHANGED <<client, handler>>
      \/ m.kind = "chunk" /\ Answer(r, [began EXCEPT !.text = @ \o m.text], on)
      \/ m.kind = "done"
         /\ Answer(r, [began EXCEPT !.finish = Finish(m.reason), !.used = m.used,
                                    !.eos = (m.reason = "stop")], on)
      \/ m.kind \in {"rejected", "err"}
         /\ \E status \in {"400", "500"} : Answer(r, [k EXCEPT !.status = status], "done")
      \/ m.kind = "err" /\ Answer(r, [k EXCEPT !.finish = "error"], "done")
  BY DEF Read
<1> DEFINE q == client'[r]
<1>4. ~Untouched
  BY <1>1 DEF Untouched
<1>5. /\ began \in ClientRecord /\ began.text = k.text /\ began.finish = k.finish
      /\ Open(on)
  BY <1>1 DEF ClientRecord, Open
<1> HIDE DEF began, on
<1>6. /\ \A s \in Reqs \ {r} : handler'[s] = handler[s] /\ client'[s] = client[s]
      /\ \A s \in Reqs \ {r} : chan'[s] = chan[s]
  BY <1>2, <1>3 DEF Answer
<1>7. ASSUME NEW next, NEW new \in ClientRecord, Answer(r, new, next)
      PROVE  handler'[r] = next /\ q = new /\ client' \in [Reqs -> ClientRecord]
  BY <1>2, <1>7 DEF Answer
<1>8. /\ m.text \in Seq(Tokens) /\ k.text \in Seq(Tokens) /\ m.used \in Nat
      /\ Len(m.text) \in Nat /\ Len(k.text) \in Nat
      /\ k.text \o m.text \in Seq(Tokens)
      /\ Len(k.text \o m.text) = Len(k.text) + Len(m.text)
  <2>1. m.text \in Seq(Tokens) /\ k.text \in Seq(Tokens) /\ m.used \in Nat
    BY <1>1 DEF MessageType, ClientRecord
  <2> HIDE DEF m, k
  <2> QED BY <2>1, ConcatProperties, LenProperties
<1>9. ASSUME ClientType',
             AllTracked => Tracked(handler'[r], chan'[r], q, Place(r), Emitted)
      PROVE  AnswerInv'
  <2>1. Serving => AllTracked'
    BY <1>2, <1>6, <1>9, OnlyOne DEF AnswerInv
  <2> QED BY <1>2, <1>4, <1>9, <2>1, AnswerFrame DEF AnswerInv
<1>10. AllTracked => Tracked(h, c, k, Place(r), Emitted)
  BY DEF AllTracked
<1>11. Emitted \in Nat /\ Place(r) \in {"worker", "queue", "off"}
  BY EmittedType, PlaceKinds DEF AnswerInv
<1> HIDE DEF h, c, k, m, q
<1>12. CASE m.kind = "start" /\ UNCHANGED <<client, handler>>
  <2>1. chan'[r] = Tail(c) /\ q = k /\ handler'[r] = h /\ ~Ends(m)
    BY <1>2, <1>12 DEF Ends, q, k, h
  <2>2. AllTracked => Len(q.text) = Len(k.text) + Len(m.text)
    <3> SUFFICES ASSUME AllTracked PROVE Len(q.text) = Len(k.text) + Len(m.text)
      OBVIOUS
    <3>1. GoesOn(c, Len(k.text))
      BY <1>10 DEF Tracked
    <3>2. 1 \in 1..Len(c) /\ c[1] = m
      BY <1>1, EmptySeq, HeadTailProperties DEF m
    <3>3. m.text = <<>> /\ Len(<<>>) = 0
      BY <1>12, <3>1, <3>2, EmptySeq DEF GoesOn
    <3> QED BY <1>8, <2>1, <3>3
  <2>3. AllTracked => Tracked(handler'[r], chan'[r], q, Place(r), Emitted)
    BY <1>1, <1>10, <1>11, <2>1, <2>2, TrackedRead DEF m
  <2>4. ClientType'
    BY <1>2, <1>12 DEF ClientType
  <2> QED BY <1>9, <2>3, <2>4
<1>13. CASE m.kind = "chunk" /\ Answer(r, [began EXCEPT !.text = @ \o m.text], on)
  <2> DEFINE new == [began EXCEPT !.text = @ \o m.text]
  <2>1. new \in ClientRecord /\ new.text = k.text \o m.text /\ new.finish = k.finish
    BY <1>5, <1>8 DEF ClientRecord
  <2> HIDE DEF new
  <2>2. q = new /\ handler'[r] = on /\ ClientType'
    BY <1>7, <1>13, <2>1 DEF new, ClientType
  <2>3. chan'[r] = Tail(c) /\ ~Ends(m)
    BY <1>2, <1>13 DEF Ends
  <2>4. Len(q.text) = Len(k.text) + Len(m.text)
    BY <1>8, <2>1, <2>2
  <2>5. AllTracked => Tracked(handler'[r], chan'[r], q, Place(r), Emitted)
    BY <1>1, <1>5, <1>10, <1>11, <2>1, <2>2, <2>3, <2>4, TrackedRead DEF m
  <2> QED BY <1>9, <2>2, <2>5
<1>14. CASE /\ m.kind = "done"
            /\ Answer(r, [began EXCEPT !.finish = Finish(m.reason), !.used = m.used,
                                       !.eos = (m.reason = "stop")], on)
  <2> DEFINE new == [began EXCEPT !.finish = Finish(m.reason), !.used = m.used,
                                  !.eos = (m.reason = "stop")]
  <2>1. /\ new \in ClientRecord /\ new.text = k.text /\ new.used = m.used
        /\ new.finish = Finish(m.reason) /\ new.eos = (m.reason = "stop")
    BY <1>5, <1>8 DEF ClientRecord, Finish
  <2> HIDE DEF new
  <2>2. q = new /\ handler'[r] = on /\ ClientType'
    BY <1>7, <1>14, <2>1 DEF new, ClientType
  <2>3. chan'[r] = Tail(c)
    BY <1>2, <1>14
  <2>4. AllTracked => Tracked(handler'[r], chan'[r], q, Place(r), Emitted)
    BY <1>1, <1>5, <1>10, <1>11, <1>14, <2>1, <2>2, <2>3, TrackedTold DEF m
  <2> QED BY <1>9, <2>2, <2>4
<1>15. CASE /\ m.kind \in {"rejected", "err"}
            /\ \/ \E status \in {"400", "500"} :
                     Answer(r, [k EXCEPT !.status = status], "done")
               \/ Answer(r, [k EXCEPT !.finish = "error"], "done")
  <2>1. ASSUME NEW new \in ClientRecord, Answer(r, new, "done"),
               new.text = k.text, new.used = k.used, new.eos = k.eos,
               new.finish \in {k.finish, "error"}
        PROVE  AnswerInv'
    <3>1. q = new /\ handler'[r] = "done" /\ ClientType'
      BY <1>7, <2>1 DEF ClientType
    <3>2. chan'[r] = <<>>
      BY <1>2, <1>15
    <3>3. AllTracked => Tracked(handler'[r], chan'[r], q, Place(r), Emitted)
      BY <1>1, <1>10, <2>1, <3>1, <3>2, TrackedFailed
    <3> QED BY <1>9, <3>1, <3>3
  <2>2. ASSUME NEW status \in {"400", "500"}, Answer(r, [k EXCEPT !.status = status], "done")
        PROVE  AnswerInv'
    <3> DEFINE new == [k EXCEPT !.status = status]
    <3>1. /\ new \in ClientRecord /\ new.text = k.text /\ new.used = k.used
          /\ new.eos = k.eos /\ new.finish = k.finish
      BY <1>1 DEF ClientRecord
    <3> HIDE DEF new
    <3>2. Answer(r, new, "done")
      BY <2>2 DEF new
    <3> QED BY <2>1, <3>1, <3>2
  <2>3. ASSUME Answer(r, [k EXCEPT !.finish = "error"], "done")
        PROVE  AnswerInv'
    <3> DEFINE new == [k EXCEPT !.finish = "error"]
    <3>1. /\ new \in ClientRecord /\ new.text = k.text /\ new.used = k.used
          /\ new.eos = k.eos /\ new.finish = "error"
      BY <1>1 DEF ClientRecord
    <3> HIDE DEF new
    <3>2. Answer(r, new, "done")
      BY <2>3 DEF new
    <3> QED BY <2>1, <3>1, <3>2
  <2> QED BY <1>15, <2>2, <2>3
<1> QED BY <1>3, <1>12, <1>13, <1>14, <1>15

(* What is in the queue.                                                   *)
LEMMA QueueSet ==
    ASSUME NEW q \in Seq(Reqs)
    PROVE  \A r : r \in ToSet(q) <=> \E i \in 1..Len(q) : q[i] = r
<1>1. DOMAIN q = 1..Len(q)
  BY LenProperties
<1> QED BY <1>1 DEF ToSet

(* A client hangs up.                                                      *)
LEMMA HangUpTold ==
    ASSUME ServerInv, AnswerInv, NEW r \in Reqs, HangUp(r)
    PROVE  AnswerInv'
<1>1. /\ UNCHANGED <<worker, queue, cur, gen, pending, running, client>>
      /\ handler' = [handler EXCEPT ![r] = "gone"]
      /\ chan' = [chan EXCEPT ![r] = <<>>]
      /\ Open(handler[r])
  BY WaitingOpen DEF HangUp, workerVars, requestVars
<1>2. /\ handler \in [Reqs -> {"unsent", "collect", "first", "body", "done", "gone"}]
      /\ chan \in [Reqs -> Seq(MessageType)]
  BY DEF ServerInv, OtherTypes
<1>3. ClientType'
  BY <1>1 DEF AnswerInv, ClientType
<1>4. Untouched => Untouched'
  BY <1>1, <1>2 DEF Untouched
<1>5. ASSUME AllTracked PROVE AllTracked'
  <2>1. Tracked(handler[r], chan[r], client[r], Place(r), Emitted)
    BY <1>5 DEF AllTracked
  <2>2. Tracked("gone", <<>>, client[r], Place(r), Emitted)
    BY <1>1, <2>1, TrackedGone
  <2>3. handler'[r] = "gone" /\ chan'[r] = <<>> /\ client'[r] = client[r]
    BY <1>1, <1>2
  <2>4. \A s \in Reqs \ {r} :
            handler'[s] = handler[s] /\ chan'[s] = chan[s] /\ client'[s] = client[s]
    BY <1>1, <1>2
  <2>5. Tracked(handler'[r], chan'[r], client'[r], Place(r), Emitted)
    BY <2>2, <2>3
  <2> QED BY <1>1, <1>5, <2>4, <2>5, OnlyOne
<1> QED BY <1>1, <1>3, <1>4, <1>5, AnswerFrame DEF AnswerInv, Serving

(* An answer ends.                                                         *)
LEMMA CloseTold ==
    ASSUME ServerInv, AnswerInv, NEW r \in Reqs, Close(r)
    PROVE  AnswerInv'
<1> DEFINE k == client[r]
           q == [k EXCEPT !.status = "200",
                          !.finish = IF @ = "none" THEN "stop" ELSE @]
<1>1. /\ UNCHANGED <<worker, queue, cur, gen, pending, running, chan>>
      /\ handler' = [handler EXCEPT ![r] = "done"]
      /\ client' = [client EXCEPT ![r] = q]
      /\ Open(handler[r]) /\ chan[r] = <<>> /\ ~Sending(r)
  BY WaitingOpen DEF Close, Answer, workerVars, requestVars
<1>2. /\ handler \in [Reqs -> {"unsent", "collect", "first", "body", "done", "gone"}]
      /\ client \in [Reqs -> ClientRecord] /\ k \in ClientRecord
  BY DEF ServerInv, OtherTypes, AnswerInv, ClientType
<1>3. /\ q \in ClientRecord /\ q.text = k.text /\ q.used = k.used /\ q.eos = k.eos
      /\ q.finish = IF k.finish = "none" THEN "stop" ELSE k.finish
  BY <1>2 DEF ClientRecord
<1> HIDE DEF q
<1>4. /\ client' \in [Reqs -> ClientRecord] /\ client'[r] = q /\ handler'[r] = "done"
      /\ \A s \in Reqs \ {r} :
            handler'[s] = handler[s] /\ chan'[s] = chan[s] /\ client'[s] = client[s]
  BY <1>1, <1>2, <1>3
<1>5. ClientType'
  BY <1>4 DEF ClientType
<1>6. Untouched => Untouched'
  <2> SUFFICES ASSUME Untouched, NEW s \in Reqs
               PROVE  (chan[s] = <<>> /\ client[s].text = <<>> /\ client[s].used = 0)'
    BY DEF Untouched
  <2>1. chan[s] = <<>> /\ client[s].text = <<>> /\ client[s].used = 0
    BY DEF Untouched
  <2> QED BY <1>1, <1>3, <1>4, <2>1
<1>7. ASSUME AllTracked PROVE AllTracked'
  <2>1. Tracked(handler[r], chan[r], client[r], Place(r), Emitted)
    BY <1>7 DEF AllTracked
  <2>2. Place(r) = "off"
    BY <1>1 DEF Place, Sending
  <2>3. Tracked(handler[r], <<>>, k, "off", Emitted)
    BY <1>1, <2>1, <2>2
  <2> HIDE DEF k
  <2>4. Tracked("done", <<>>, q, "off", Emitted)
    BY <1>1, <1>2, <1>3, <2>3, TrackedClosed
  <2>5. Tracked(handler'[r], chan'[r], client'[r], Place(r), Emitted)
    BY <1>1, <1>4, <2>2, <2>4
  <2> QED BY <1>1, <1>4, <1>7, <2>5, OnlyOne
<1> QED BY <1>1, <1>5, <1>6, <1>7, AnswerFrame DEF AnswerInv, Serving

(* A request arrives, and is queued or turned away.                        *)
LEMMA PostTold ==
    ASSUME ServerInv, AnswerInv, NEW r \in Reqs, Post(r)
    PROVE  AnswerInv'
<1>1. /\ UNCHANGED <<worker, cur, gen, pending, running, chan>>
      /\ handler[r] = "unsent"
  BY DEF Post, requestVars
<1>2. /\ handler \in [Reqs -> {"unsent", "collect", "first", "body", "done", "gone"}]
      /\ client \in [Reqs -> ClientRecord] /\ client[r] \in ClientRecord
      /\ queue \in Seq(Reqs)
  BY DEF ServerInv, OtherTypes, AnswerInv, ClientType
<1>3. CASE /\ handler' = [handler EXCEPT ![r] = "done"]
           /\ \E status \in {"503", "429"} :
                 client' = [client EXCEPT ![r].status = status]
           /\ UNCHANGED queue
  <2>1. PICK status \in {"503", "429"} :
            client' = [client EXCEPT ![r].status = status]
    BY <1>3
  <2> DEFINE q == [client[r] EXCEPT !.status = status]
  <2>2. /\ q \in ClientRecord /\ q.text = client[r].text /\ q.used = client[r].used
    BY <1>2 DEF ClientRecord
  <2>3. /\ client' = [client EXCEPT ![r] = q]
    BY <1>2, <2>1
  <2>4. AllTracked => Tracked("done", chan[r], q, Place(r), Emitted)
    <3>1. AllTracked => Tracked("unsent", chan[r], client[r], Place(r), Emitted)
      BY <1>1 DEF AllTracked
    <3> QED BY <1>2, <3>1, TrackedAway
  <2> HIDE DEF q
  <2>5. /\ client' \in [Reqs -> ClientRecord] /\ client'[r] = q /\ handler'[r] = "done"
        /\ \A s \in Reqs \ {r} :
              handler'[s] = handler[s] /\ chan'[s] = chan[s] /\ client'[s] = client[s]
    BY <1>1, <1>2, <1>3, <2>2, <2>3
  <2>6. ClientType'
    BY <2>5 DEF ClientType
  <2>7. Untouched => Untouched'
    <3> SUFFICES ASSUME Untouched, NEW s \in Reqs
                 PROVE  (chan[s] = <<>> /\ client[s].text = <<>> /\ client[s].used = 0)'
      BY DEF Untouched
    <3>1. chan[s] = <<>> /\ client[s].text = <<>> /\ client[s].used = 0
      BY DEF Untouched
    <3> QED BY <1>1, <2>2, <2>5, <3>1
  <2>8. ASSUME AllTracked PROVE AllTracked'
    <3>1. Tracked(handler'[r], chan'[r], client'[r], Place(r), Emitted)
      BY <1>1, <2>4, <2>5, <2>8
    <3> QED BY <1>1, <1>3, <2>5, <2>8, <3>1, OnlyOne
  <2> QED BY <1>1, <1>3, <2>6, <2>7, <2>8, AnswerFrame DEF AnswerInv, Serving
<1>4. CASE /\ handler' = [handler EXCEPT ![r] = IF r \in Stream THEN "first" ELSE "collect"]
           /\ queue' = Append(queue, r)
           /\ UNCHANGED client
  <2>1. /\ handler'[r] \in {"first", "collect"}
        /\ \A s \in Reqs \ {r} : handler'[s] = handler[s]
    BY <1>2, <1>4
  <2>2. /\ queue' \in Seq(Reqs) /\ Len(queue') = Len(queue) + 1 /\ Len(queue) \in Nat
        /\ queue'[Len(queue) + 1] = r
        /\ \A i \in 1..Len(queue) : queue'[i] = queue[i]
    BY <1>2, <1>4, AppendProperties, LenProperties
  <2>3. \A s : s \in ToSet(queue') <=> s \in ToSet(queue) \/ s = r
    <3>1. \A s : s \in ToSet(queue) <=> \E i \in 1..Len(queue) : queue[i] = s
      BY <1>2, QueueSet
    <3>2. \A s : s \in ToSet(queue') <=> \E i \in 1..Len(queue') : queue'[i] = s
      BY <2>2, QueueSet
    <3>3. /\ \A i \in 1..Len(queue') : i = Len(queue) + 1 \/ i \in 1..Len(queue)
          /\ \A i \in 1..Len(queue) : i \in 1..Len(queue')
          /\ Len(queue) + 1 \in 1..Len(queue')
      BY <2>2
    <3> QED BY <2>2, <3>1, <3>2, <3>3
  <2>4. (ClientType /\ PendingChosen)'
    BY <1>1, <1>4 DEF AnswerInv, ClientType, PendingChosen
  <2>5. Untouched => Untouched'
    BY <1>1, <1>4 DEF Untouched
  <2>6. ASSUME OnePlace, AllTracked PROVE (OnePlace /\ AllTracked)'
    <3>1. Tracked("unsent", chan[r], client[r], Place(r), Emitted)
      BY <1>1, <2>6 DEF AllTracked
    <3>2. Place(r) = "off"
      BY <3>1 DEF Tracked
    <3>3. r # cur /\ r \notin ToSet(queue)
      BY <3>2 DEF Place
    <3>4. OnePlace'
      <4>1. cur' \notin ToSet(queue')
        BY <1>1, <2>3, <2>6, <3>3 DEF OnePlace
      <4>2. ASSUME NEW i \in 1..Len(queue'), NEW j \in 1..Len(queue'),
                   queue'[i] = queue'[j]
            PROVE  i = j
        <5>1. \A l \in 1..Len(queue) : queue[l] # r
          BY <1>2, <3>3, QueueSet
        <5> QED BY <2>2, <2>6, <4>2, <5>1 DEF OnePlace
      <4> QED BY <4>1, <4>2 DEF OnePlace
    <3>5. Emitted' = Emitted
      BY <1>1 DEF Emitted
    <3>6. ASSUME NEW s \in Reqs
          PROVE  Tracked(handler[s], chan[s], client[s], Place(s), Emitted)'
      <4>1. CASE s = r
        <5>1. Place(s)' = "queue"
          BY <1>1, <2>3, <3>3, <4>1 DEF Place
        <5>2. Tracked(handler'[r], chan[r], client[r], "queue", Emitted)
          BY <2>1, <3>1, TrackedPosted
        <5> QED BY <1>1, <1>4, <3>5, <4>1, <5>1, <5>2
      <4>2. CASE s # r
        <5>1. Place(s)' = Place(s)
          BY <1>1, <2>3, <4>2 DEF Place
        <5>2. Tracked(handler[s], chan[s], client[s], Place(s), Emitted)
          BY <2>6 DEF AllTracked
        <5> QED BY <1>1, <1>4, <2>1, <3>5, <4>2, <5>1, <5>2
      <4> QED BY <4>1, <4>2
    <3> QED BY <3>4, <3>6 DEF AllTracked
  <2> QED BY <1>1, <2>4, <2>5, <2>6 DEF AnswerInv, Serving
<1>5. \/ /\ handler' = [handler EXCEPT ![r] = "done"]
         /\ \E status \in {"503", "429"} :
               client' = [client EXCEPT ![r].status = status]
         /\ UNCHANGED queue
      \/ /\ handler' = [handler EXCEPT ![r] = IF r \in Stream THEN "first" ELSE "collect"]
         /\ queue' = Append(queue, r)
         /\ UNCHANGED client
  BY DEF Post
<1> QED BY <1>3, <1>4, <1>5

(* The steps of handlers, clients and the user.                            *)
LEMMA OutsideTold ==
    ASSUME ServerInv, AnswerInv,
           Quit \/ \E r \in Reqs : Post(r) \/ HangUp(r) \/ HandlerStep(r)
    PROVE  AnswerInv'
<1>1. CASE Quit
  <2>1. /\ UNCHANGED <<worker, queue, cur, gen, pending, chan, client>> /\ ~running'
        /\ running
    BY <1>1 DEF Quit, workerVars, requestVars
  <2>2. ClientType'
    BY <2>1 DEF ClientType, AnswerInv
  <2>3. Untouched => Untouched'
    BY <2>1 DEF Untouched
  <2> QED BY <2>1, <2>2, <2>3, AnswerFrame
<1>2. CASE \E r \in Reqs : Post(r) \/ HangUp(r) \/ HandlerStep(r)
  BY <1>2, PostTold, HangUpTold, CloseTold, ReadTold DEF HandlerStep
<1> QED BY <1>1, <1>2

-----------------------------------------------------------------------------
(* The steps of the worker, for what clients are told.                     *)

(* A request taken off the queue goes to the worker, or nowhere when its   *)
(* client has gone.                                                        *)
LEMMA TakeTold ==
    ASSUME ServerInv, AnswerInv, Take
    PROVE  AnswerInv'
<1> DEFINE r == Head(queue)
<1>1. /\ UNCHANGED <<running, handler, chan, client, gen, pending>>
      /\ worker = "wait" /\ queue # <<>> /\ queue' = Tail(queue)
      /\ queue \in Seq(Reqs) /\ r \in Reqs
  BY HeadTailProperties DEF Take, requestVars, ServerInv, OtherTypes
<1>2. \/ Open(handler[r]) /\ worker' = "admit" /\ cur' = r
      \/ ~Open(handler[r]) /\ worker' = "check" /\ cur' = cur
  BY WaitingOpen DEF Take
<1>3. /\ queue' \in Seq(Reqs) /\ Len(queue') = Len(queue) - 1 /\ Len(queue) \in Nat \ {0}
      /\ queue[1] = r /\ \A i \in 1..Len(queue) - 1 : queue'[i] = queue[i + 1]
  BY <1>1, EmptySeq, HeadTailProperties
<1>4. cur = NoReq /\ cur \notin Reqs /\ gen = <<>> /\ pending = <<>>
  BY <1>1, ServerAssumption
     DEF ServerInv, WorkerInv, WorkerTypes, Phases, Resting, AnswerInv, PendingChosen
<1>5. Emitted = 0 /\ Emitted' = 0
  <2>1. gen' = <<>> /\ pending' = <<>> /\ Len(<<>>) - Len(<<>>) = 0
    BY <1>1, <1>4, EmptySeq
  <2> QED BY <1>4, <2>1 DEF Emitted
<1>6. (ClientType /\ PendingChosen)'
  BY <1>1, <1>2, <1>4 DEF AnswerInv, ClientType, PendingChosen
<1>7. /\ \A s : s \in ToSet(queue) <=> \E i \in 1..Len(queue) : queue[i] = s
      /\ \A s : s \in ToSet(queue') <=> \E i \in 1..Len(queue') : queue'[i] = s
  BY <1>1, <1>3, QueueSet
<1> HIDE DEF r
<1>8. ASSUME OnePlace PROVE r \notin ToSet(queue')
  <2> SUFFICES ASSUME NEW i \in 1..Len(queue'), queue'[i] = r PROVE FALSE
    BY <1>7
  <2>1. i + 1 \in 1..Len(queue) /\ 1 \in 1..Len(queue) /\ queue[i + 1] = queue[1]
    BY <1>3
  <2>2. i + 1 = 1
    BY <1>8, <2>1 DEF OnePlace
  <2> QED BY <1>3, <2>2
<1>9. ASSUME NEW s \in Reqs, s # r
      PROVE  s \in ToSet(queue') <=> s \in ToSet(queue)
  <2>1. ASSUME NEW i \in 1..Len(queue'), queue'[i] = s
        PROVE  \E j \in 1..Len(queue) : queue[j] = s
    <3>1. i + 1 \in 1..Len(queue) /\ queue[i + 1] = s
      BY <1>3, <2>1
    <3> QED BY <3>1
  <2>2. ASSUME NEW j \in 1..Len(queue), queue[j] = s
        PROVE  \E i \in 1..Len(queue') : queue'[i] = s
    <3>1. j # 1
      BY <1>3, <1>9, <2>2
    <3>2. j - 1 \in 1..Len(queue') /\ queue'[j - 1] = queue[j - 1 + 1] /\ j - 1 + 1 = j
      BY <1>3, <3>1
    <3> QED BY <2>2, <3>2
  <2> QED BY <1>7, <2>1, <2>2
<1>10. ASSUME OnePlace, AllTracked PROVE (OnePlace /\ AllTracked)'
  <2>1. r \in ToSet(queue)
    BY <1>3, <1>7
  <2>2. Place(r) = "queue"
    BY <1>1, <1>4, <2>1 DEF Place
  <2>3. Tracked(handler[r], chan[r], client[r], "queue", 0) /\ client[r] \in ClientRecord
    BY <1>1, <1>5, <1>10, <2>2 DEF AllTracked, AnswerInv, ClientType
  <2>4. OnePlace'
    <3>1. cur' \notin ToSet(queue')
      <4>1. NoReq \notin ToSet(queue')
        BY <1>3, <1>4, <1>7, ElementOfSeq
      <4> QED BY <1>2, <1>4, <1>8, <1>10, <4>1
    <3>2. ASSUME NEW i \in 1..Len(queue'), NEW j \in 1..Len(queue'), queue'[i] = queue'[j]
          PROVE  i = j
      <4>1. /\ i + 1 \in 1..Len(queue) /\ j + 1 \in 1..Len(queue)
            /\ queue[i + 1] = queue[j + 1]
        BY <1>3, <3>2
      <4>2. i + 1 = j + 1
        BY <1>10, <4>1 DEF OnePlace
      <4> QED BY <1>3, <4>2
    <3> QED BY <3>1, <3>2 DEF OnePlace
  <2>5. ASSUME NEW s \in Reqs
        PROVE  Tracked(handler[s], chan[s], client[s], Place(s), Emitted)'
    <3>1. CASE s # r
      <4>1. Place(s)' = Place(s)
        BY <1>2, <1>4, <1>9, <3>1 DEF Place
      <4>2. Tracked(handler[s], chan[s], client[s], Place(s), Emitted)
        BY <1>10 DEF AllTracked
      <4> QED BY <1>1, <1>5, <4>1, <4>2
    <3>2. CASE s = r /\ Open(handler[r])
      <4>1. Place(s)' = "worker"
        BY <1>2, <3>2 DEF Place
      <4>2. Tracked(handler[r], chan[r], client[r], "worker", 0)
        BY <2>3, <3>2, TrackedTaken
      <4> QED BY <1>1, <1>5, <3>2, <4>1, <4>2
    <3>3. CASE s = r /\ ~Open(handler[r])
      <4>1. Place(s)' = "off"
        BY <1>1, <1>2, <1>4, <1>8, <1>10, <3>3 DEF Place
      <4>2. Tracked(handler[r], chan[r], client[r], "off", 0)
        BY <2>3, <3>3, TrackedShut
      <4> QED BY <1>1, <1>5, <3>3, <4>1, <4>2
    <3> QED BY <3>1, <3>2, <3>3
  <2> QED BY <2>4, <2>5 DEF AllTracked
<1> QED BY <1>1, <1>2, <1>6, <1>10 DEF AnswerInv, Serving

(* Waiting and leaving.                                                    *)
LEMMA IdleTold ==
    ASSUME ServerInv, AnswerInv, WarmUp \/ Check \/ Tick
    PROVE  AnswerInv'
<1>1. /\ UNCHANGED <<cur, gen, pending, running, handler, chan, client>>
      /\ worker \in {"warm_up", "check", "wait"}
  BY DEF WarmUp, Check, Tick, requestVars
<1>2. \/ worker' = "stopped" /\ (worker = "warm_up" \/ ~running)
      \/ worker' \in {"check", "wait"} /\ UNCHANGED queue
  BY DEF WarmUp, Check, Tick, Leave
<1>3. ClientType'
  BY <1>1 DEF AnswerInv, ClientType
<1>4. PendingChosen'
  BY <1>1, <1>2 DEF AnswerInv, PendingChosen
<1>5. Untouched => Untouched'
  BY <1>1 DEF Untouched
<1>6. ASSUME Serving' PROVE (OnePlace /\ AllTracked)'
  <2>1. Serving /\ UNCHANGED queue
    BY <1>1, <1>2, <1>6 DEF Serving
  <2>2. OnePlace /\ AllTracked
    BY <2>1 DEF AnswerInv
  <2>3. OnePlace'
    BY <1>1, <2>1, <2>2 DEF OnePlace
  <2>4. AllTracked'
    BY <1>1, <2>1, <2>2 DEF AllTracked, Place, Emitted
  <2> QED BY <2>3, <2>4
<1>7. (worker = "warm_up" \/ (worker = "stopped" /\ running))' => Untouched
  BY <1>1, <1>2 DEF AnswerInv
<1> QED BY <1>3, <1>4, <1>5, <1>6, <1>7 DEF AnswerInv

(* What the steps below know of the request the worker holds.              *)
LEMMA HoldingTold ==
    ASSUME ServerInv, AnswerInv, worker \in {"admit", "prefill", "decode", "feed"}
    PROVE  /\ cur \in Reqs /\ Place(cur) = "worker"
           /\ \A s \in Reqs \ {cur} : Place(s) # "worker"
           /\ chan \in [Reqs -> Seq(MessageType)] /\ client \in [Reqs -> ClientRecord]
           /\ Emitted \in Nat
           /\ Serving <=> running
           /\ running => OnePlace /\ AllTracked
<1>1. cur \in Reqs /\ chan \in [Reqs -> Seq(MessageType)]
  BY Holding
<1>2. client \in [Reqs -> ClientRecord] /\ Emitted \in Nat
  BY EmittedType DEF AnswerInv, ClientType
<1>3. Place(cur) = "worker" /\ \A s \in Reqs \ {cur} : Place(s) # "worker"
  BY DEF Place
<1>4. Serving <=> running
  BY DEF Serving
<1> QED BY <1>1, <1>2, <1>3, <1>4 DEF AnswerInv

(* Text sent to the request the worker holds, or its answer's start.       *)
LEMMA SentText ==
    ASSUME ServerInv, AnswerInv, worker \in {"admit", "prefill", "decode", "feed"},
           running, NEW m \in MessageType, m.kind \in {"start", "chunk"},
           m.kind = "start" => m.text = <<>>,
           NEW n \in Nat, n = Emitted + Len(m.text)
    PROVE  \A r \in Reqs :
              Tracked(handler[r], Send(chan, cur, m)[r], client[r], Place(r), n)
<1> DEFINE d == Send(chan, cur, m)
<1>1. /\ cur \in Reqs /\ Place(cur) = "worker"
      /\ \A s \in Reqs \ {cur} : Place(s) # "worker"
      /\ chan \in [Reqs -> Seq(MessageType)] /\ client \in [Reqs -> ClientRecord]
      /\ Emitted \in Nat /\ AllTracked
  BY HoldingTold
<1>2. ASSUME NEW r \in Reqs, r # cur
      PROVE  Tracked(handler[r], d[r], client[r], Place(r), n)
  <2>1. d[r] = chan[r]
    BY <1>1, <1>2 DEF Send
  <2>2. Tracked(handler[r], chan[r], client[r], Place(r), Emitted) /\ Place(r) # "worker"
    BY <1>1, <1>2 DEF AllTracked
  <2> QED BY <2>1, <2>2, TrackedElsewhere
<1>3. Tracked(handler[cur], d[cur], client[cur], Place(cur), n)
  <2>1. Tracked(handler[cur], chan[cur], client[cur], "worker", Emitted)
    BY <1>1 DEF AllTracked
  <2>2. CASE Open(handler[cur])
    <3>1. d[cur] = Append(chan[cur], m)
      BY <1>1, <2>2, WaitingOpen DEF Send
    <3>2. chan[cur] \in Seq(MessageType) /\ client[cur] \in ClientRecord
      BY <1>1
    <3>3. Tracked(handler[cur], Append(chan[cur], m), client[cur], "worker",
                  Emitted + Len(m.text))
      BY <1>1, <2>1, <2>2, <3>2, TrackedSend
    <3> QED BY <1>1, <3>1, <3>3
  <2>3. CASE ~Open(handler[cur])
    <3>1. d[cur] = chan[cur]
      BY <2>3, WaitingOpen DEF Send
    <3>2. handler[cur] # "unsent"
      BY <2>1 DEF Tracked
    <3> QED BY <1>1, <2>1, <2>3, <3>1, <3>2, TrackedShut
  <2> QED BY <2>2, <2>3
<1> QED BY <1>2, <1>3

(* ... and text that may be empty, as the sink sends it.                   *)
LEMMA SunkText ==
    ASSUME ServerInv, AnswerInv, worker \in {"decode", "feed"}, running,
           NEW text \in Seq(Tokens), NEW n \in Nat, n = Emitted + Len(text)
    PROVE  \A r \in Reqs :
              Tracked(handler[r], Sink(text)[r], client[r], Place(r), n)
<1>1. CASE text # <<>>
  <2> DEFINE m == [Message("chunk") EXCEPT !.text = text]
  <2>1. m \in MessageType /\ m.kind = "chunk" /\ m.text = text
    BY MessageTypes DEF Message
  <2>2. Sink(text) = Send(chan, cur, m)
    BY <1>1 DEF Sink
  <2> HIDE DEF m
  <2>3. n = Emitted + Len(m.text)
    BY <2>1
  <2> QED BY <2>1, <2>2, <2>3, SentText
<1>2. CASE text = <<>>
  <2>1. Sink(text) = chan
    BY <1>2 DEF Sink
  <2>2. n = Emitted
    BY <1>2, HoldingTold, EmptySeq
  <2>3. AllTracked
    BY HoldingTold
  <2> QED BY <2>1, <2>2, <2>3 DEF AllTracked
<1> QED BY <1>1, <1>2

(* The worker goes on with its request.                                    *)
LEMMA StaysTold ==
    ASSUME ServerInv, AnswerInv, worker \in {"admit", "prefill", "decode", "feed"},
           worker' \in {"prefill", "decode", "feed"},
           UNCHANGED <<running, queue, cur, handler, client>>, PendingChosen',
           running => \A r \in Reqs :
                         Tracked(handler[r], chan'[r], client[r], Place(r), Emitted')
    PROVE  AnswerInv'
<1>1. ClientType'
  BY DEF AnswerInv, ClientType
<1>2. Serving => OnePlace'
  BY DEF AnswerInv, OnePlace
<1>3. running => AllTracked'
  BY DEF AllTracked, Place
<1> QED BY <1>1, <1>2, <1>3 DEF AnswerInv, Serving

(* The end of a turn: the worker's request is told how it ended.           *)
LEMMA TurnTold ==
    ASSUME ServerInv, AnswerInv, worker \in {"admit", "prefill", "decode", "feed"},
           worker' = "check", cur' = NoReq, gen' = <<>>, pending' = <<>>,
           UNCHANGED <<running, queue, handler, client>>,
           NEW d \in [Reqs -> Seq(MessageType)], NEW n \in Nat,
           running => \A r \in Reqs :
                         Tracked(handler[r], d[r], client[r], Place(r), n),
           NEW m \in MessageType, Ends(m), m.text = <<>>,
           m.kind = "done" /\ running /\ Waiting(cur) =>
               m.reason \in {"stop", "length"} /\ m.used = n,
           chan' = Send(d, cur, m)
    PROVE  AnswerInv'
<1>1. /\ cur \in Reqs /\ Place(cur) = "worker"
      /\ \A s \in Reqs \ {cur} : Place(s) # "worker"
      /\ client \in [Reqs -> ClientRecord] /\ (running => OnePlace)
  BY HoldingTold
<1>2. ClientType' /\ PendingChosen'
  BY DEF AnswerInv, ClientType, PendingChosen
<1>3. ASSUME running PROVE (OnePlace /\ AllTracked)'
  <2>1. cur' \notin ToSet(queue) /\ cur' \notin Reqs /\ cur \notin ToSet(queue)
    <3>1. queue \in Seq(Reqs) /\ NoReq \notin Reqs
      BY ServerAssumption DEF ServerInv, OtherTypes
    <3>2. NoReq \notin ToSet(queue)
      BY <3>1, QueueSet, ElementOfSeq
    <3> QED BY <1>1, <1>3, <3>1, <3>2 DEF OnePlace
  <2>2. OnePlace'
    BY <1>1, <1>3, <2>1 DEF OnePlace
  <2>3. ASSUME NEW s \in Reqs
        PROVE  Tracked(handler[s], chan[s], client[s], Place(s), Emitted)'
    <3>1. Tracked(handler[s], d[s], client[s], Place(s), n)
      BY <1>3
    <3>2. CASE s # cur
      <4>1. Place(s)' = Place(s)
        BY <2>1, <3>2 DEF Place
      <4>2. chan'[s] = d[s]
        BY <1>1, <3>2 DEF Send
      <4>3. Tracked(handler[s], d[s], client[s], Place(s), Emitted')
        BY <1>1, <3>1, <3>2, TrackedElsewhere
      <4> QED BY <4>1, <4>2, <4>3
    <3>3. CASE s = cur
      <4>1. Place(s)' = "off"
        BY <2>1, <3>3 DEF Place
      <4>2. Tracked(handler[s], d[s], client[s], "worker", n)
        BY <1>1, <3>1, <3>3
      <4>3. CASE Open(handler[s])
        <5>1. chan'[s] = Append(d[s], m)
          BY <3>3, <4>3, WaitingOpen DEF Send
        <5>2. m.kind = "done" => m.reason \in {"stop", "length"} /\ m.used = n
          BY <1>3, <3>3, <4>3, WaitingOpen
        <5>3. d[s] \in Seq(MessageType) /\ client[s] \in ClientRecord
          BY <1>1
        <5>4. Tracked(handler[s], Append(d[s], m), client[s], "off", Emitted')
          BY <4>2, <4>3, <5>2, <5>3, TrackedEnd
        <5> QED BY <4>1, <5>1, <5>4
      <4>4. CASE ~Open(handler[s])
        <5>1. chan'[s] = d[s]
          BY <3>3, <4>4, WaitingOpen DEF Send
        <5>2. handler[s] # "unsent"
          BY <4>2 DEF Tracked
        <5>3. Tracked(handler[s], d[s], client[s], "off", Emitted')
          BY <4>2, <4>4, <5>2, TrackedShut
        <5> QED BY <4>1, <5>1, <5>3
      <4> QED BY <4>3, <4>4
    <3> QED BY <3>2, <3>3
  <2> QED BY <2>2, <2>3 DEF AllTracked
<1> QED BY <1>2, <1>3 DEF AnswerInv, Serving

(* A turn's end as the worker's actions write it.                          *)
LEMMA TurnLeaves ==
    ASSUME NEW kept, NEW tokens, NextTurn(kept, tokens) \/ Keep(kept, tokens)
    PROVE  worker' = "check" /\ cur' = NoReq /\ gen' = <<>> /\ pending' = <<>>
BY DEF Keep, NextTurn

(* A refusal, and the failure of a call.                                   *)
LEMMA FailTold ==
    ASSUME ServerInv, AnswerInv, worker \in {"admit", "prefill", "decode", "feed"},
           worker' = "check", cur' = NoReq, gen' = <<>>, pending' = <<>>,
           UNCHANGED <<running, queue, handler, client>>,
           NEW kind \in {"rejected", "err"}, chan' = Send(chan, cur, Message(kind))
    PROVE  AnswerInv'
<1> DEFINE m == Message(kind)
<1>1. m \in MessageType /\ m.text = <<>> /\ m.kind = kind
  BY MessageTypes DEF Message
<1>2. Ends(m) /\ m.kind # "done"
  BY <1>1 DEF Ends
<1>3. /\ chan \in [Reqs -> Seq(MessageType)] /\ Emitted \in Nat
      /\ running => AllTracked
  BY HoldingTold
<1>4. running => \A r \in Reqs :
                    Tracked(handler[r], chan[r], client[r], Place(r), Emitted)
  BY <1>3 DEF AllTracked
<1> HIDE DEF m
<1>5. chan' = Send(chan, cur, m)
  BY DEF m
<1> QED BY <1>1, <1>2, <1>3, <1>4, <1>5, TurnTold

LEMMA RefuseOrFailTold ==
    ASSUME ServerInv, AnswerInv, Refuse \/ Fail
    PROVE  AnswerInv'
<1>1. /\ worker \in {"admit", "prefill", "decode", "feed"}
      /\ UNCHANGED <<running, queue, handler, client>>
      /\ \E kind \in {"rejected", "err"} : chan' = Send(chan, cur, Message(kind))
  BY DEF Refuse, Fail
<1>2. worker' = "check" /\ cur' = NoReq /\ gen' = <<>> /\ pending' = <<>>
  BY TurnLeaves DEF Refuse, Fail
<1> QED BY <1>1, <1>2, FailTold

(* A session is made for the request, or fails to be; a client gone by     *)
(* then is told nothing.                                                   *)
LEMMA AdmitTold ==
    ASSUME ServerInv, AnswerInv, Admit
    PROVE  AnswerInv'
<1>1. worker = "admit" /\ UNCHANGED <<running, queue, handler, client>>
  BY DEF Admit
<1>2. CASE chan' = Send(chan, cur, Message("err")) /\ NextTurn(NoSession, <<>>)
  <2>1. worker' = "check" /\ cur' = NoReq /\ gen' = <<>> /\ pending' = <<>>
    BY <1>2, TurnLeaves
  <2> QED BY <1>1, <1>2, <2>1, FailTold
<1>3. CASE /\ chan' = Send(chan, cur, Message("start")) /\ Waiting(cur)
           /\ worker' = "prefill" /\ UNCHANGED <<cur, gen, pending>>
  <2> DEFINE m == Message("start")
  <2>1. m \in MessageType /\ m.text = <<>> /\ m.kind = "start"
    BY MessageTypes DEF Message
  <2> HIDE DEF m
  <2>2. Emitted' = Emitted /\ Emitted \in Nat
    BY <1>1, <1>3, HoldingTold DEF Emitted
  <2>3. Emitted = Emitted + Len(m.text)
    BY <2>1, <2>2, EmptySeq
  <2>4. chan' = Send(chan, cur, m)
    BY <1>3 DEF m
  <2>5. running => \A r \in Reqs :
                      Tracked(handler[r], chan'[r], client[r], Place(r), Emitted')
    BY <1>1, <2>1, <2>2, <2>3, <2>4, SentText
  <2>6. PendingChosen'
    BY <1>1, <1>3 DEF AnswerInv, PendingChosen
  <2> QED BY <1>1, <1>3, <2>5, <2>6, StaysTold
<1>4. CASE /\ chan' = Send(chan, cur, Message("start")) /\ ~Waiting(cur)
           /\ NextTurn(NoSession, <<>>)
  <2>1. worker' = "check" /\ cur' = NoReq /\ gen' = <<>> /\ pending' = <<>>
    BY <1>4, TurnLeaves
  <2>2. chan' = Send(chan, cur, Message("err"))
    BY <1>4 DEF Send
  <2> QED BY <1>1, <2>1, <2>2, FailTold
<1>5. \/ chan' = Send(chan, cur, Message("err")) /\ NextTurn(NoSession, <<>>)
      \/ /\ chan' = Send(chan, cur, Message("start")) /\ Waiting(cur)
         /\ worker' = "prefill" /\ UNCHANGED <<cur, gen, pending>>
      \/ /\ chan' = Send(chan, cur, Message("start")) /\ ~Waiting(cur)
         /\ NextTurn(NoSession, <<>>)
  BY DEF Admit
<1> QED BY <1>2, <1>3, <1>4, <1>5

(* The end of a generation: `d` is what was sent before it, n tokens in    *)
(* all.                                                                    *)
LEMMA EndTold ==
    ASSUME ServerInv, AnswerInv, worker \in {"prefill", "decode", "feed"},
           NEW kept, NEW tokens, Keep(kept, tokens),
           UNCHANGED <<running, queue, handler, client>>,
           NEW d \in [Reqs -> Seq(MessageType)], NEW n \in Nat,
           running => \A r \in Reqs :
                         Tracked(handler[r], d[r], client[r], Place(r), n),
           NEW reason \in {"stop", "length", "client_disconnect"}, NEW used \in Nat,
           running /\ Waiting(cur) => reason # "client_disconnect" /\ used = n,
           chan' = Tell(d, reason, used)
    PROVE  AnswerInv'
<1> DEFINE m == [Message("done") EXCEPT !.reason = reason, !.used = used]
<1>1. /\ m \in MessageType /\ m.text = <<>> /\ m.kind = "done"
      /\ m.reason = reason /\ m.used = used
  BY MessageTypes DEF Message
<1>2. chan' = Send(d, cur, m)
  BY DEF Tell
<1> HIDE DEF m
<1>3. Ends(m)
  BY <1>1 DEF Ends
<1>4. worker' = "check" /\ cur' = NoReq /\ gen' = <<>> /\ pending' = <<>>
  BY TurnLeaves
<1>5. m.kind = "done" /\ running /\ Waiting(cur) =>
          m.reason \in {"stop", "length"} /\ m.used = n
  BY <1>1
<1> QED BY <1>1, <1>2, <1>3, <1>4, <1>5, TurnTold

(* A batch of the prompt pass, which a client gone ends.                   *)
LEMMA PrefillTold ==
    ASSUME ServerInv, AnswerInv, Prefill
    PROVE  AnswerInv'
<1>1. worker = "prefill" /\ UNCHANGED <<running, queue, handler, client>>
  BY DEF Prefill
<1>2. /\ chan \in [Reqs -> Seq(MessageType)] /\ Emitted \in Nat
      /\ running => AllTracked
  BY <1>1, HoldingTold
<1>3. running => \A r \in Reqs :
                    Tracked(handler[r], chan[r], client[r], Place(r), Emitted)
  BY <1>2 DEF AllTracked
<1>4. CASE ~Waiting(cur) /\ Keep(session, Fed) /\ chan' = Tell(chan, "client_disconnect", 0)
  BY <1>1, <1>2, <1>3, <1>4, EndTold
<1>5. CASE worker' \in {"decode", "prefill"} /\ UNCHANGED <<cur, requestVars, chan>>
  <2>1. Emitted' = Emitted
    BY <1>5 DEF Emitted, requestVars
  <2>2. PendingChosen'
    BY <1>1, <1>5 DEF AnswerInv, PendingChosen, requestVars
  <2>3. running => \A r \in Reqs :
                      Tracked(handler[r], chan'[r], client[r], Place(r), Emitted')
    BY <1>3, <1>5, <2>1
  <2> QED BY <1>1, <1>5, <2>2, <2>3, StaysTold
<1>6. \/ ~Waiting(cur) /\ Keep(session, Fed) /\ chan' = Tell(chan, "client_disconnect", 0)
      \/ worker' \in {"decode", "prefill"} /\ UNCHANGED <<cur, requestVars, chan>>
  BY DEF Prefill
<1> QED BY <1>4, <1>5, <1>6

(* What a generation has sent once the text left over goes out.            *)
LEMMA AllSent ==
    ASSUME ServerInv, AnswerInv, worker \in {"decode", "feed"}
    PROVE  /\ Sink(pending) \in [Reqs -> Seq(MessageType)] /\ Len(gen) \in Nat
           /\ running => \A r \in Reqs :
                 Tracked(handler[r], Sink(pending)[r], client[r], Place(r), Len(gen))
<1>1. /\ pending \in Seq(Tokens) /\ Len(pending) \in Nat
      /\ gen \in Seq(Tokens) /\ Len(gen) \in Nat
  BY LenProperties DEF ServerInv, WorkerInv, WorkerTypes
<1>2. Len(gen) = Emitted + Len(pending)
  BY <1>1 DEF Emitted
<1>3. Sink(pending) \in [Reqs -> Seq(MessageType)]
  BY <1>1, HoldingTold, SinkType
<1> HIDE DEF Emitted
<1> QED BY <1>1, <1>2, <1>3, SunkText

(* One more token, or the end of the answer.                               *)
LEMMA DecodeTold ==
    ASSUME ServerInv, AnswerInv, NEW t \in Chosen \cup {Eog}, Decode(t)
    PROVE  AnswerInv'
<1> DEFINE text == Append(pending, t)
           whole == Prompt[cur] \o gen
<1>1. worker = "decode" /\ UNCHANGED <<running, queue, handler, client>>
  BY DEF Decode
<1>2. /\ chan \in [Reqs -> Seq(MessageType)] /\ Emitted \in Nat
      /\ running => AllTracked
  BY <1>1, HoldingTold
<1>3. /\ pending \in Seq(Tokens) /\ Len(pending) \in Nat
      /\ gen \in Seq(Tokens) /\ Len(gen) \in Nat /\ Len(pending) <= Len(gen)
  BY LenProperties DEF ServerInv, WorkerInv, WorkerTypes, AnswerInv, PendingChosen
<1>4. CASE /\ Keep(session, whole)
           /\ \E reason \in {"stop", "length"} :
                 chan' = Tell(Sink(pending), reason, Len(gen))
  <2>1. PICK reason \in {"stop", "length"} :
            chan' = Tell(Sink(pending), reason, Len(gen))
    BY <1>4
  <2>2. /\ Sink(pending) \in [Reqs -> Seq(MessageType)]
        /\ running => \A r \in Reqs :
              Tracked(handler[r], Sink(pending)[r], client[r], Place(r), Len(gen))
    BY <1>1, AllSent
  <2>3. reason \in {"stop", "length", "client_disconnect"} /\ reason # "client_disconnect"
    OBVIOUS
  <2> HIDE DEF whole
  <2> QED BY <1>1, <1>3, <1>4, <2>1, <2>2, <2>3, EndTold
<1>5. CASE /\ Keep(session, whole) /\ ~(running /\ Waiting(cur))
           /\ chan' = Tell(chan, "client_disconnect", Len(gen) + 1)
  <2>1. running => \A r \in Reqs :
                      Tracked(handler[r], chan[r], client[r], Place(r), Emitted)
    BY <1>2 DEF AllTracked
  <2>2. Len(gen) + 1 \in Nat
    BY <1>3
  <2> HIDE DEF whole
  <2> QED BY <1>1, <1>2, <1>5, <2>1, <2>2, EndTold
<1>6. CASE /\ t # Eog
           /\ worker' = "feed" /\ gen' = Append(gen, t)
           /\ pending' = IF t \notin Halves THEN <<>> ELSE text
           /\ chan' = IF t \notin Halves THEN Sink(text) ELSE chan
           /\ UNCHANGED cur
  <2>1. t \in Tokens
    BY <1>6, ServerAssumption
  <2>2. /\ text \in Seq(Tokens) /\ Len(text) = Len(pending) + 1
        /\ Len(gen') = Len(gen) + 1
    BY <1>3, <1>6, <2>1, AppendProperties
  <2> HIDE DEF text
  <2>3. Len(<<>>) = 0
    BY EmptySeq
  <2>4. PendingChosen'
    <3>1. Len(pending') <= Len(gen')
      BY <1>3, <1>6, <2>2, <2>3
    <3> QED BY <1>6, <3>1 DEF PendingChosen
  <2>5. CASE t \notin Halves
    <3>1. Emitted' = Emitted + Len(text) /\ Emitted' \in Nat
      BY <1>3, <1>6, <2>2, <2>3, <2>5 DEF Emitted
    <3> DEFINE n == Emitted'
    <3>2. n \in Nat /\ n = Emitted + Len(text)
      BY <3>1
    <3>3. chan' = Sink(text)
      BY <1>6, <2>5
    <3> HIDE DEF n
    <3>4. running => \A r \in Reqs :
                        Tracked(handler[r], Sink(text)[r], client[r], Place(r), n)
      BY <1>1, <2>2, <3>2, SunkText
    <3>5. running => \A r \in Reqs :
                        Tracked(handler[r], chan'[r], client[r], Place(r), Emitted')
      BY <3>3, <3>4 DEF n
    <3> QED BY <1>1, <1>6, <2>4, <3>5, StaysTold
  <2>6. CASE t \in Halves
    <3>1. Emitted' = Emitted
      <4>1. pending' = text
        BY <1>6, <2>6
      <4>2. Len(gen') = Len(gen) + 1 /\ Len(pending') = Len(pending) + 1
        BY <2>2, <4>1
      <4> QED BY <1>3, <4>2 DEF Emitted
    <3>2. chan' = chan
      BY <1>6, <2>6
    <3>3. running => \A r \in Reqs :
                        Tracked(handler[r], chan'[r], client[r], Place(r), Emitted')
      BY <1>2, <3>1, <3>2 DEF AllTracked
    <3> QED BY <1>1, <1>6, <2>4, <3>3, StaysTold
  <2> QED BY <2>5, <2>6
<1>7. \/ /\ Keep(session, whole)
         /\ \E reason \in {"stop", "length"} :
               chan' = Tell(Sink(pending), reason, Len(gen))
      \/ /\ Keep(session, whole) /\ ~(running /\ Waiting(cur))
         /\ chan' = Tell(chan, "client_disconnect", Len(gen) + 1)
      \/ /\ t # Eog
         /\ worker' = "feed" /\ gen' = Append(gen, t)
         /\ pending' = IF t \notin Halves THEN <<>> ELSE text
         /\ chan' = IF t \notin Halves THEN Sink(text) ELSE chan
         /\ UNCHANGED cur
  BY DEF Decode
<1> QED BY <1>4, <1>5, <1>6, <1>7

(* The token fed back, and the limit reached.                              *)
LEMMA FeedTold ==
    ASSUME ServerInv, AnswerInv, Feed
    PROVE  AnswerInv'
<1> DEFINE fed == Extend(session, <<Last(gen)>>)
           whole == Prompt[cur] \o gen
<1>1. worker = "feed" /\ UNCHANGED <<running, queue, handler, client>>
  BY DEF Feed
<1>2. CASE Keep(fed, whole) /\ chan' = Tell(Sink(pending), "length", Len(gen))
  <2>1. /\ Sink(pending) \in [Reqs -> Seq(MessageType)] /\ Len(gen) \in Nat
        /\ running => \A r \in Reqs :
              Tracked(handler[r], Sink(pending)[r], client[r], Place(r), Len(gen))
    BY <1>1, AllSent
  <2> HIDE DEF fed, whole
  <2> QED BY <1>1, <1>2, <2>1, EndTold
<1>3. CASE worker' = "decode" /\ UNCHANGED <<cur, requestVars, chan>>
  <2>1. Emitted' = Emitted
    BY <1>3 DEF Emitted, requestVars
  <2>2. PendingChosen'
    BY <1>1, <1>3 DEF AnswerInv, PendingChosen, requestVars
  <2>3. running => AllTracked
    BY <1>1, HoldingTold
  <2>4. running => \A r \in Reqs :
                      Tracked(handler[r], chan'[r], client[r], Place(r), Emitted')
    BY <1>3, <2>1, <2>3 DEF AllTracked
  <2> QED BY <1>1, <1>3, <2>2, <2>4, StaysTold
<1> QED BY <1>2, <1>3 DEF Feed

-----------------------------------------------------------------------------
(* The theorem about answers.                                              *)

(* Initially nobody was told anything.                                     *)
LEMMA AnswerInit == Init => AnswerInv
<1> SUFFICES ASSUME Init PROVE AnswerInv
  OBVIOUS
<1>1. <<>> \in Seq(Tokens) /\ Len(<<>>) = 0 /\ <<>> \in Seq(Reqs)
  BY EmptySeq
<1>2. Nothing \in ClientRecord /\ Nothing.text = <<>> /\ Nothing.used = 0 /\ Nothing.finish = "none"
  BY <1>1 DEF Nothing, ClientRecord
<1> HIDE DEF Nothing
<1>3. /\ handler = [r \in Reqs |-> "unsent"] /\ chan = [r \in Reqs |-> <<>>]
      /\ client = [r \in Reqs |-> Nothing] /\ queue = <<>> /\ cur = NoReq
      /\ pending = <<>> /\ gen = <<>>
  BY DEF Init
<1>4. ClientType
  BY <1>2, <1>3 DEF ClientType
<1>5. PendingChosen
  BY <1>1, <1>3 DEF PendingChosen
<1>6. Untouched
  BY <1>2, <1>3 DEF Untouched
<1>7. \A r : r \notin ToSet(queue)
  <2>1. queue \in Seq(Reqs) /\ Len(queue) = 0
    BY <1>1, <1>3
  <2>2. \A r : r \in ToSet(queue) <=> \E i \in 1..Len(queue) : queue[i] = r
    BY <2>1, QueueSet
  <2> QED BY <2>1, <2>2
<1>8. OnePlace
  BY <1>1, <1>3, <1>7 DEF OnePlace
<1>9. AllTracked
  <2> SUFFICES ASSUME NEW r \in Reqs
               PROVE  Tracked(handler[r], chan[r], client[r], Place(r), Emitted)
    BY DEF AllTracked
  <2>1. handler[r] = "unsent" /\ chan[r] = <<>> /\ client[r] = Nothing
    BY <1>3
  <2>2. Place(r) = "off"
    BY <1>3, <1>7, ServerAssumption DEF Place
  <2>3. ~Open("unsent")
    BY DEF Open
  <2> QED BY <1>2, <2>1, <2>2, <2>3, GoesOnEmpty DEF Tracked
<1> QED BY <1>4, <1>5, <1>6, <1>8, <1>9 DEF AnswerInv

(* Every step keeps the invariant.                                         *)
LEMMA AnswerNext == ServerInv /\ AnswerInv /\ [Next]_vars => AnswerInv'
<1> SUFFICES ASSUME ServerInv, AnswerInv, [Next]_vars PROVE AnswerInv'
  OBVIOUS
<1>1. CASE WorkerStep
  BY <1>1, IdleTold, TakeTold, RefuseOrFailTold, AdmitTold, PrefillTold, FeedTold, DecodeTold
     DEF WorkerStep
<1>2. CASE Quit \/ \E r \in Reqs : Post(r) \/ HangUp(r) \/ HandlerStep(r)
  BY <1>2, OutsideTold
<1>3. CASE UNCHANGED vars
  <2>1. UNCHANGED <<worker, running, queue, cur, gen, pending, handler, chan, client>>
    BY <1>3 DEF vars, requestVars
  <2>2. ClientType' /\ (Untouched => Untouched')
    BY <2>1 DEF AnswerInv, ClientType, Untouched
  <2>3. AllTracked => AllTracked'
    BY <2>1 DEF AllTracked, Place, Emitted
  <2> QED BY <2>1, <2>2, <2>3, AnswerFrame DEF AnswerInv
<1> QED BY <1>1, <1>2, <1>3 DEF Next

(* The invariant holds throughout.                                         *)
LEMMA AnswerInvariant == Spec => [](ServerInv /\ AnswerInv)
BY ServerInit, ServerNext, AnswerInit, AnswerNext, PTL DEF Spec

(* What a client is told of its answer's end is true, for every            *)
(* interleaving of the worker, the handlers, hang-ups, failures and a      *)
(* quit: the text counted is the text it got, and "stop" is the model's    *)
(* own end unless the server is going away.                                *)
THEOREM EndsAreTrue == Spec => []EndIsTrue
<1>1. ServerInv /\ AnswerInv => EndIsTrue
  <2> SUFFICES ASSUME AnswerInv PROVE EndIsTrue
    OBVIOUS
  <2>1. TextComplete
    <3> SUFFICES ASSUME NEW r \in Reqs, client[r].finish \in {"stop", "length"}, running
                 PROVE  Len(client[r].text) = client[r].used
      BY DEF TextComplete
    <3>1. CASE worker # "stopped"
      BY <3>1 DEF AnswerInv, Serving, AllTracked, Tracked
    <3>2. CASE worker = "stopped"
      <4>1. client[r].text = <<>> /\ client[r].used = 0
        BY <3>2 DEF AnswerInv, Untouched
      <4> QED BY <4>1, EmptySeq
    <3> QED BY <3>1, <3>2
  <2>2. StopIsTrue
    BY DEF AnswerInv, Serving, AllTracked, Tracked, StopIsTrue
  <2> QED BY <2>1, <2>2 DEF EndIsTrue
<1> QED BY <1>1, AnswerInvariant, PTL
=============================================================================
