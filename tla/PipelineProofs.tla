--------------------------- MODULE PipelineProofs ---------------------------
(***************************************************************************)
(* Proofs about the path of a testcase through the master, for any number  *)
(* of fuzzers, evalers and connections and any capacities.                 *)
(*                                                                         *)
(* The inductive invariant says of every testcase a worker has taken over  *)
(* that it is kept: not only that some copy exists, but that one exists    *)
(* which no later step takes away.  A stopped evaler's buffer still holds  *)
(* what it has given back to the channel; only the rest of it counts.  Up  *)
(* to the first stop the invariant also says that there is one copy, which *)
(* needs the bytes that travel and the message in the reader's hand.       *)
(***************************************************************************)
EXTENDS Pipeline, FiniteSetTheorems, SequenceTheorems, TLAPS

-----------------------------------------------------------------------------
(* The inductive invariant *)

\* A worker has a testcase exactly while it waits to push it.
Workers ==
  \A f \in Fuzzer : fz[f].tc = <<>> <=> fz[f].pc \in {"recv", "event", "done"}

\* What an evaler's worker may look like, whatever its connection does.
Sound(w) ==
  /\ w.pc \in {"send", "recv", "event", "resend"} => w.buf # <<>>
  /\ w.pc = "resend" => w.at # 0
  /\ w.at <= Len(w.buf)
  /\ w.pc \in {"event", "resend", "done"} => w.cancelled
  /\ ~w.cancelled => /\ w.stops = 0 /\ w.at = 0
                     /\ Len(w.buf) <= BufferMaxSize
                     /\ w.pc \in {"select", "hint"} => Len(w.buf) < BufferMaxSize
  /\ w.cancelled /\ w.pc \in {"send", "recv"} => w.stops < MaxStops

\* A cancelled evaler's connection is closed, and nothing comes from a closed one.
Evalers ==
  \A e \in Evaler : Sound(ev[e]) /\ (ev[e].cancelled => phase[ConnOf[e]] = "closed")

ClosedIsEmpty ==
  \A c \in Conn : phase[c] = "closed" => hand[c] = NoMsg /\ wire[c] = <<>>

\* How much of its buffer a worker has given back.
Back(w) == IF w.pc = "resend" THEN w.at - 1 ELSE w.at

Has(s, t) == \E i \in DOMAIN s : s[i] = t

InWorker(t) == \E f \in Fuzzer : fz[f].tc = t
Owned(w, t) == \E i \in DOMAIN w.buf : w.buf[i] = t /\ i > Back(w)

\* A copy of t that stays until it goes on to the next place.
Kept(t) ==
  \/ InWorker(t)
  \/ Has(testcaseChan, t)
  \/ \E e \in Evaler : Owned(ev[e], t)
  \/ evaluated[t] # 0
  \/ t \in dropped

\* Who may have a testcase, on its way to the master too.
Holder ==
  ({"worker"} \X Fuzzer) \cup ({"hand", "wire"} \X Conn) \cup ({"buffer"} \X Evaler)
  \cup ({"queue", "database", "dropped"} \X {"master"})

HasTc(s, t) == \E i \in DOMAIN s : s[i].tc = t

Holds(p, t) ==
  CASE p[1] = "worker"   -> fz[p[2]].tc = t
    [] p[1] = "hand"     -> hand[p[2]].tc = t
    [] p[1] = "wire"     -> HasTc(wire[p[2]], t)
    [] p[1] = "buffer"   -> Has(ev[p[2]].buf, t)
    [] p[1] = "queue"    -> Has(testcaseChan, t)
    [] p[1] = "database" -> evaluated[t] # 0
    [] p[1] = "dropped"  -> t \in dropped

\* One holder at most of what was sent, none of what was not.
OneHolder(t) == \A p, q \in Holder : Holds(p, t) /\ Holds(q, t) => p = q
WasSent(t) == \A p \in Holder : Holds(p, t) => t[2] <= sent[t[1]]

\* Nobody holds it twice.
Single(s, t) == \A i, j \in DOMAIN s : s[i] = t /\ s[j] = t => i = j
SingleTc(s, t) == \A i, j \in DOMAIN s : s[i].tc = t /\ s[j].tc = t => i = j

NotTwice(t) ==
  /\ Single(testcaseChan, t)
  /\ \A e \in Evaler : Single(ev[e].buf, t)
  /\ \A c \in Conn : SingleTc(wire[c], t)
  /\ evaluated[t] \in {0, 1}

Once(t) == OneHolder(t) /\ WasSent(t) /\ NotTwice(t)

Uncancelled == \A e \in Evaler : ~ev[e].cancelled

Types == TypeOK /\ Workers /\ Evalers /\ ClosedIsEmpty

IInv ==
  /\ Types
  /\ \A t \in Accepted : Kept(t)
  /\ Uncancelled => \A t \in Testcase : Once(t)

-----------------------------------------------------------------------------
(* Sequences *)

LEMMA HasAppend ==
  ASSUME NEW S, NEW s \in Seq(S), NEW x \in S, NEW t
  PROVE  Has(Append(s, x), t) <=> Has(s, t) \/ x = t
<1>1. /\ DOMAIN Append(s, x) = 1..(Len(s) + 1) /\ DOMAIN s = 1..Len(s)
      /\ Len(s) \in Nat
      /\ \A i \in 1..Len(s) : Append(s, x)[i] = s[i]
      /\ Append(s, x)[Len(s) + 1] = x
  BY AppendProperties, LenProperties
<1> QED
  BY <1>1 DEF Has

LEMMA HasTail ==
  ASSUME NEW S, NEW s \in Seq(S), s # <<>>, NEW t
  PROVE  Has(s, t) <=> Has(Tail(s), t) \/ Head(s) = t
<1>1. /\ Len(s) \in Nat \ {0} /\ DOMAIN s = 1..Len(s)
      /\ DOMAIN Tail(s) = 1..(Len(s) - 1)
      /\ \A i \in 1..(Len(s) - 1) : Tail(s)[i] = s[i + 1]
      /\ Head(s) = s[1]
  <2>1. Tail(s) \in Seq(S) /\ Len(Tail(s)) = Len(s) - 1
    BY HeadTailProperties
  <2>2. Len(s) \in Nat /\ DOMAIN s = 1..Len(s) /\ DOMAIN Tail(s) = 1..Len(Tail(s))
    BY <2>1, LenProperties
  <2>3. Len(s) # 0
    BY EmptySeq
  <2> QED
    BY <2>1, <2>2, <2>3, HeadTailProperties
<1>2. ASSUME NEW i \in DOMAIN s, s[i] = t, i # 1
      PROVE  i - 1 \in DOMAIN Tail(s) /\ Tail(s)[i - 1] = t
  BY <1>1, <1>2
<1>3. ASSUME NEW i \in DOMAIN Tail(s), Tail(s)[i] = t
      PROVE  i + 1 \in DOMAIN s /\ s[i + 1] = t
  BY <1>1, <1>3
<1> QED
  BY <1>1, <1>2, <1>3 DEF Has

-----------------------------------------------------------------------------
(* Types *)

LEMMA Bounds ==
  /\ MaxSent \in Nat /\ EvalRetryCount \in Nat
  /\ TestcaseChanBuf \in Nat \ {0} /\ EventChanBuf \in Nat \ {0}
  /\ BufferMaxSize \in Nat \ {0} /\ MaxStops \in Nat \ {0}
  /\ \A x \in Fuzzer \cup Evaler : ConnOf[x] \in Conn
  BY PipelineAssumption

\* An element with a testcase is a fuzzer.
LEMMA TestcaseIsPair == <<>> \notin Testcase
  BY DEF Testcase

LEMMA FlushReturnsTo ==
  ASSUME NEW w \in EvalerType
  PROVE  /\ FlushReturns(w) \in EvalerType
         /\ FlushReturns(w).buf = w.buf /\ FlushReturns(w).at = w.at
         /\ FlushReturns(w).cancelled = w.cancelled /\ FlushReturns(w).stops = w.stops
         /\ FlushReturns(w).pc \in {"select", "hint"}
  BY DEF FlushReturns, EvalerType, EvalerPC

LEMMA FlushTo ==
  ASSUME NEW w \in EvalerType
  PROVE  /\ Flush(w) \in EvalerType
         /\ Flush(w).buf = w.buf /\ Flush(w).at = w.at
         /\ Flush(w).cancelled = w.cancelled /\ Flush(w).stops = w.stops
         /\ Flush(w).pc = "send"
<1>1. "send" \in EvalerPC /\ 0 \in 0..EvalRetryCount
  BY Bounds DEF EvalerPC
<1>2. Flush(w) \in EvalerType
  BY <1>1 DEF Flush, EvalerType
<1> QED
  BY <1>2 DEF Flush, EvalerType

\* An evaler's step that leaves the rest alone keeps the types.
LEMMA EvalerStep ==
  ASSUME Types, NEW e \in Evaler, NEW w \in EvalerType, Sound(w),
         ev' = [ev EXCEPT ![e] = w],
         w.cancelled => phase[ConnOf[e]] = "closed", UNCHANGED phase
  PROVE  /\ ev' \in [Evaler -> EvalerType] /\ Evalers'
         /\ \A d \in Evaler : Len(ev'[d].buf) > BufferMaxSize => ev'[d].cancelled
<1>1. ev \in [Evaler -> EvalerType]
  BY DEF Types, TypeOK
<1>2. ev' \in [Evaler -> EvalerType] /\ ev'[e] = w
      /\ \A d \in Evaler \ {e} : ev'[d] = ev[d]
  BY <1>1
<1>3. Len(w.buf) > BufferMaxSize => w.cancelled
  <2>1. Len(w.buf) \in Nat /\ w.cancelled \in BOOLEAN
    BY LenProperties DEF EvalerType
  <2> QED
    BY <2>1, Bounds DEF Sound
<1>4. Evalers'
  BY <1>2 DEF Types, Evalers
<1> QED
  BY <1>2, <1>3, <1>4 DEF Types, TypeOK

LEMMA NodeSendsTypes ==
  ASSUME Types, NEW f \in Fuzzer, NodeSendsTestcase(f)
  PROVE  Types'
<1> DEFINE c == ConnOf[f]
           m == [to |-> f, tc |-> <<f, sent[f] + 1>>, kind |-> "testcase"]
<1>1. /\ phase[c] = "open" /\ sent[f] < MaxSent /\ sent' = [sent EXCEPT ![f] = @ + 1]
      /\ wire' = [wire EXCEPT ![c] = Append(@, m)]
      /\ UNCHANGED <<phase, asked, hand, fz, ev, testcaseChan, events, results>>
  BY DEF NodeSendsTestcase
<1>2. c \in Conn
  BY Bounds
<1>3. sent[f] \in 0..MaxSent /\ sent[f] + 1 \in 1..MaxSent
  BY <1>1, Bounds DEF Types, TypeOK
<1>4. m \in Message
  BY <1>3 DEF Message, Testcase
<1> HIDE DEF m, c
<1>5. wire' \in [Conn -> Seq(Message)]
  BY <1>1, <1>2, <1>4 DEF Types, TypeOK
<1>6. sent' \in [Fuzzer -> 0..MaxSent]
  BY <1>1, <1>3 DEF Types, TypeOK
<1>7. TypeOK'
  BY <1>1, <1>5, <1>6 DEF Types, TypeOK, results
<1>8. \A d \in Conn : d # c => wire'[d] = wire[d]
  BY <1>1, <1>2 DEF Types, TypeOK
<1> QED
  BY <1>1, <1>7, <1>8 DEF Types, Workers, Evalers, ClosedIsEmpty

LEMMA NodeAnswersTypes ==
  ASSUME Types, NEW e \in Evaler, NEW kind \in Answers, NodeAnswers(e, kind)
  PROVE  Types'
<1> DEFINE c == ConnOf[e]
           m == [to |-> e, tc |-> <<>>, kind |-> kind]
<1>1. /\ phase[c] = "open"
      /\ asked' = asked \ {e}
      /\ wire' = [wire EXCEPT ![c] = Append(@, m)]
      /\ UNCHANGED <<sent, phase, hand, fz, ev, testcaseChan, events, results>>
  BY DEF NodeAnswers
<1>2. c \in Conn
  BY Bounds
<1>4. m \in Message
  BY DEF Message
<1> HIDE DEF m, c
<1>5. wire' \in [Conn -> Seq(Message)]
  BY <1>1, <1>2, <1>4 DEF Types, TypeOK
<1>7. TypeOK'
  BY <1>1, <1>5 DEF Types, TypeOK, results
<1>8. \A d \in Conn : d # c => wire'[d] = wire[d]
  BY <1>1, <1>2 DEF Types, TypeOK
<1> QED
  BY <1>1, <1>7, <1>8 DEF Types, Workers, Evalers, ClosedIsEmpty

LEMMA NodeLeavesTypes ==
  ASSUME Types, NEW c \in Conn, NodeLeaves(c)
  PROVE  Types'
<1>1. /\ phase[c] = "open" /\ phase' = [phase EXCEPT ![c] = "eof"]
      /\ asked' \subseteq asked
      /\ UNCHANGED <<sent, wire, hand, fz, ev, testcaseChan, events, results>>
  BY DEF NodeLeaves
<1>2. TypeOK'
  BY <1>1 DEF Types, TypeOK, results
<1>3. \A d \in Conn : phase'[d] = "closed" <=> phase[d] = "closed"
  BY <1>1 DEF Types, TypeOK
<1> QED
  BY <1>1, <1>2, <1>3, Bounds DEF Types, Workers, Evalers, ClosedIsEmpty

LEMMA ReaderTypes ==
  ASSUME Types, NEW c \in Conn, ReaderReads(c) \/ ReaderCloses(c)
  PROVE  Types'
<1>1. CASE ReaderReads(c)
  <2>1. /\ phase[c] # "closed" /\ wire[c] # <<>>
        /\ hand' \in {hand, [hand EXCEPT ![c] = Head(wire[c])]}
        /\ wire' = [wire EXCEPT ![c] = Tail(@)]
        /\ UNCHANGED <<sent, phase, asked, fz, ev, testcaseChan, events, results>>
    BY <1>1 DEF ReaderReads
  <2>2. wire[c] \in Seq(Message)
    BY DEF Types, TypeOK
  <2>3. Head(wire[c]) \in Message /\ Tail(wire[c]) \in Seq(Message)
    BY <2>1, <2>2, HeadTailProperties
  <2>4. TypeOK'
    BY <2>1, <2>3 DEF Types, TypeOK, results
  <2>5. \A d \in Conn : d # c => wire'[d] = wire[d] /\ hand'[d] = hand[d]
    BY <2>1 DEF Types, TypeOK
  <2> QED
    BY <2>1, <2>4, <2>5 DEF Types, Workers, Evalers, ClosedIsEmpty
<1>2. CASE ReaderCloses(c)
  <2>1. /\ phase[c] = "eof" /\ hand[c] = NoMsg /\ wire[c] = <<>>
        /\ phase' = [phase EXCEPT ![c] = "closed"]
        /\ UNCHANGED <<sent, wire, asked, hand, fz, ev, testcaseChan, events, results>>
    BY <1>2 DEF ReaderCloses
  <2>2. TypeOK'
    BY <2>1 DEF Types, TypeOK, results
  <2>3. \A d \in Conn : phase'[d] = "closed" <=> phase[d] = "closed" \/ d = c
    BY <2>1 DEF Types, TypeOK
  <2> QED
    BY <2>1, <2>2, <2>3, Bounds DEF Types, Workers, Evalers, ClosedIsEmpty
<1> QED
  BY <1>1, <1>2

LEMMA EventLoopTypes ==
  ASSUME Types, EventLoopTakes
  PROVE  Types'
<1>1. /\ events' = events - 1 /\ events > 0
      /\ UNCHANGED <<sent, wire, phase, asked, hand, fz, ev, testcaseChan, results>>
  BY DEF EventLoopTakes, net
<1>2. events' \in 0..EventChanBuf
  BY <1>1, Bounds DEF Types, TypeOK
<1>3. TypeOK'
  BY <1>1, <1>2 DEF Types, TypeOK, results
<1> QED
  BY <1>1, <1>3 DEF Types, Workers, Evalers, ClosedIsEmpty

\* A fuzzer's step that leaves the rest alone keeps the types.
LEMMA FuzzerStepTypes ==
  ASSUME Types, NEW f \in Fuzzer, NEW w \in FuzzerType,
         w.tc = <<>> <=> w.pc \in {"recv", "event", "done"},
         fz' = [fz EXCEPT ![f] = w]
  PROVE  fz' \in [Fuzzer -> FuzzerType] /\ Workers'
<1>1. fz \in [Fuzzer -> FuzzerType]
  BY DEF Types, TypeOK
<1>2. fz'[f] = w /\ \A g \in Fuzzer \ {f} : fz'[g] = fz[g]
  BY <1>1
<1> QED
  BY <1>1, <1>2 DEF Types, Workers

\* A testcase is pushed when there is room.
LEMMA Pushed ==
  ASSUME TypeOK, NEW t \in Testcase, ~QueueFull, testcaseChan' = Append(testcaseChan, t)
  PROVE  testcaseChan' \in Seq(Testcase) /\ Len(testcaseChan') <= TestcaseChanBuf
<1>1. testcaseChan \in Seq(Testcase) /\ Len(testcaseChan) <= TestcaseChanBuf
  BY DEF TypeOK
<1>2. Len(testcaseChan) \in Nat /\ Len(testcaseChan') = Len(testcaseChan) + 1
      /\ testcaseChan' \in Seq(Testcase)
  BY <1>1, LenProperties, AppendProperties
<1> QED
  BY <1>1, <1>2, Bounds DEF QueueFull

LEMMA FuzzerTypes ==
  ASSUME Types, NEW f \in Fuzzer, FuzzerStep(f)
  PROVE  Types'
<1>0. /\ fz \in [Fuzzer -> FuzzerType] /\ hand \in [Conn -> Message \cup {NoMsg}]
      /\ ConnOf[f] \in Conn /\ fz[f] \in FuzzerType
  BY Bounds DEF Types, TypeOK
<1> DEFINE idle == [pc |-> "recv", tc |-> <<>>]
<1>1. idle \in FuzzerType
  BY DEF FuzzerType
<1>2. CASE FuzzerGets(f)
  <2> DEFINE c == ConnOf[f]
             w == [pc |-> "push", tc |-> hand[c].tc]
  <2>1. /\ hand[c].to = f /\ fz' = [fz EXCEPT ![f] = w]
        /\ hand' = [hand EXCEPT ![c] = NoMsg]
        /\ UNCHANGED <<sent, wire, phase, asked, ev, testcaseChan, events, results>>
    BY <1>2 DEF FuzzerGets, net
  <2>2. hand[c] \in Message
    <3>1. CASE hand[c] \in Message
      BY <3>1
    <3>2. CASE hand[c] = NoMsg
      BY <2>1, <3>2, PipelineAssumption DEF NoMsg
    <3> QED
      BY <1>0, <3>1, <3>2
  <2>3. w \in FuzzerType /\ w.tc # <<>>
    BY <2>1, <2>2, PipelineAssumption, TestcaseIsPair DEF Message, FuzzerType
  <2>4. fz' \in [Fuzzer -> FuzzerType] /\ Workers'
    <3> HIDE DEF w
    <3>1. w.pc = "push"
      BY DEF w
    <3> QED
      BY <2>1, <2>3, <3>1, FuzzerStepTypes
  <2>5. TypeOK'
    BY <1>0, <2>1, <2>4 DEF Types, TypeOK, results
  <2>6. ClosedIsEmpty'
    BY <1>0, <2>1 DEF Types, ClosedIsEmpty
  <2> QED
    BY <2>1, <2>4, <2>5, <2>6 DEF Types, Evalers
<1>3. CASE FuzzerSeesClosed(f)
  <2> DEFINE w == [fz[f] EXCEPT !.pc = "event"]
  <2>1. /\ fz[f].pc = "recv" /\ fz' = [fz EXCEPT ![f] = w]
        /\ UNCHANGED <<sent, wire, phase, asked, hand, ev, testcaseChan, events, results>>
    BY <1>0, <1>3 DEF FuzzerSeesClosed, net
  <2>2. w \in FuzzerType /\ w.tc = <<>> /\ w.pc = "event"
    BY <1>0, <2>1 DEF FuzzerType, Types, Workers
  <2> HIDE DEF w
  <2>3. fz' \in [Fuzzer -> FuzzerType] /\ Workers'
    BY <2>1, <2>2, FuzzerStepTypes
  <2>4. TypeOK'
    BY <2>1, <2>3 DEF Types, TypeOK, results
  <2> QED
    BY <2>1, <2>3, <2>4 DEF Types, Evalers, ClosedIsEmpty
<1>4. CASE FuzzerPushes(f) /\ QueueFull
  <2> DEFINE w == [fz[f] EXCEPT !.pc = "hint"]
  <2>1. /\ fz[f].pc = "push" /\ fz' = [fz EXCEPT ![f] = w]
        /\ UNCHANGED <<sent, wire, phase, asked, hand, ev, testcaseChan, events, results>>
    BY <1>0, <1>4 DEF FuzzerPushes, net
  <2>2. w \in FuzzerType /\ w.tc # <<>> /\ w.pc = "hint"
    BY <1>0, <2>1 DEF FuzzerType, Types, Workers
  <2> HIDE DEF w
  <2>3. fz' \in [Fuzzer -> FuzzerType] /\ Workers'
    BY <2>1, <2>2, FuzzerStepTypes
  <2>4. TypeOK'
    BY <2>1, <2>3 DEF Types, TypeOK, results
  <2> QED
    BY <2>1, <2>3, <2>4 DEF Types, Evalers, ClosedIsEmpty
<1>5. CASE (FuzzerPushes(f) /\ ~QueueFull) \/ FuzzerPushesBlocked(f)
  <2>1. /\ fz[f].pc \in {"push", "blocked"} /\ ~QueueFull
        /\ fz' = [fz EXCEPT ![f] = idle]
        /\ testcaseChan' = Append(testcaseChan, fz[f].tc)
        /\ UNCHANGED <<sent, wire, phase, asked, hand, ev, events, results>>
    BY <1>5 DEF FuzzerPushes, FuzzerPushesBlocked, net
  <2>2. fz[f].tc \in Testcase
    BY <1>0, <2>1 DEF FuzzerType, Types, Workers
  <2>3. idle.tc = <<>> /\ idle.pc = "recv"
    OBVIOUS
  <2> HIDE DEF idle
  <2>4. fz' \in [Fuzzer -> FuzzerType] /\ Workers'
    BY <1>1, <2>1, <2>3, FuzzerStepTypes
  <2>5. testcaseChan' \in Seq(Testcase) /\ Len(testcaseChan') <= TestcaseChanBuf
    BY <2>1, <2>2, Pushed DEF Types
  <2>6. TypeOK'
    BY <2>1, <2>4, <2>5 DEF Types, TypeOK, results
  <2> QED
    BY <2>1, <2>4, <2>6 DEF Types, Evalers, ClosedIsEmpty
<1>6. CASE FuzzerPosts(f)
  <2> DEFINE w == [fz[f] EXCEPT !.pc = IF @ = "hint" THEN "blocked" ELSE "done"]
  <2>1. /\ fz[f].pc \in {"hint", "event"} /\ fz' = [fz EXCEPT ![f] = w]
        /\ events < EventChanBuf /\ events' = events + 1
        /\ UNCHANGED <<sent, wire, phase, asked, hand, ev, testcaseChan, results>>
    BY <1>0, <1>6 DEF FuzzerPosts, net
  <2>2. /\ w \in FuzzerType
        /\ w.tc = <<>> <=> w.pc \in {"recv", "event", "done"}
    BY <1>0, <2>1 DEF FuzzerType, Types, Workers
  <2> HIDE DEF w
  <2>3. fz' \in [Fuzzer -> FuzzerType] /\ Workers'
    BY <2>1, <2>2, FuzzerStepTypes
  <2>4. events' \in 0..EventChanBuf
    BY <2>1, Bounds DEF Types, TypeOK
  <2>5. TypeOK'
    BY <2>1, <2>3, <2>4 DEF Types, TypeOK, results
  <2> QED
    BY <2>1, <2>3, <2>5 DEF Types, Evalers, ClosedIsEmpty
<1> QED
  BY <1>2, <1>3, <1>4, <1>5, <1>6 DEF FuzzerStep

-----------------------------------------------------------------------------
(* What an evaler's steps make of its worker *)

\* The worker w is one that e may have in its place.
Fits(e, w) ==
  w \in EvalerType /\ Sound(w) /\ (w.cancelled => phase[ConnOf[e]] = "closed")

LEMMA EvalerFits ==
  ASSUME Types, NEW e \in Evaler
  PROVE  Fits(e, ev[e]) /\ ConnOf[e] \in Conn
  BY Bounds DEF Types, TypeOK, Evalers, Fits

\* A message for an evaler comes from an open connection.
LEMMA ConnectionOpen ==
  ASSUME Types, NEW e \in Evaler, hand[ConnOf[e]].to = e \/ phase[ConnOf[e]] # "closed"
  PROVE  phase[ConnOf[e]] # "closed" /\ ~ev[e].cancelled
<1>1. phase[ConnOf[e]] # "closed"
  BY EvalerFits, PipelineAssumption DEF Types, ClosedIsEmpty, NoMsg
<1> QED
  BY <1>1, EvalerFits DEF Fits

\* A flush that returns with an empty buffer, or one that is not full.
LEMMA FitsReturned ==
  ASSUME NEW e, NEW w, Fits(e, w), ~w.cancelled => Len(w.buf) < BufferMaxSize
  PROVE  Fits(e, FlushReturns(w))
<1> DEFINE v == FlushReturns(w)
<1>1. /\ v \in EvalerType
      /\ v.buf = w.buf /\ v.cancelled = w.cancelled /\ v.stops = w.stops
      /\ v.at = w.at /\ v.pc \in {"select", "hint"}
  BY FlushReturnsTo DEF Fits
<1> HIDE DEF v
<1>2. Sound(v) /\ (v.cancelled => phase[ConnOf[e]] = "closed")
  BY <1>1 DEF Fits, Sound
<1> QED
  BY <1>1, <1>2 DEF Fits, v

LEMMA FitsFlush ==
  ASSUME NEW e, NEW w, Fits(e, w), w.buf # <<>>, MayGoOn(w)
  PROVE  Fits(e, Flush(w))
<1> DEFINE v == Flush(w)
<1>1. /\ v \in EvalerType
      /\ v.buf = w.buf /\ v.cancelled = w.cancelled /\ v.stops = w.stops
      /\ v.at = w.at /\ v.pc = "send"
  BY FlushTo DEF Fits
<1> HIDE DEF v
<1>2. Sound(v) /\ (v.cancelled => phase[ConnOf[e]] = "closed")
  BY <1>1 DEF Fits, Sound, MayGoOn
<1> QED
  BY <1>1, <1>2 DEF Fits, v

LEMMA FitsTicked ==
  ASSUME Types, NEW e \in Evaler, EvalerTicks(e)
  PROVE  \E w : /\ Fits(e, w) /\ ev' = [ev EXCEPT ![e] = w]
                /\ w.buf = ev[e].buf /\ w.at = ev[e].at
                /\ w.cancelled = ev[e].cancelled /\ ev[e].pc = "select"
                /\ w.pc \in {"send", "select", "hint"}
<1> DEFINE x == [ev[e] EXCEPT !.from = "tick"]
           w == IF x.buf = <<>> THEN FlushReturns(x) ELSE Flush(x)
<1>1. /\ ev[e].pc = "select" /\ MayGoOn(x) /\ ev' = [ev EXCEPT ![e] = w] /\ x.pc = "select"
  BY DEF EvalerTicks
<1>2. x \in EvalerType
  BY EvalerFits DEF Fits, EvalerType
<1>3. x.buf = ev[e].buf /\ x.at = ev[e].at /\ x.cancelled = ev[e].cancelled
      /\ x.stops = ev[e].stops
  BY EvalerFits DEF Fits, EvalerType
<1> HIDE DEF x
<1>4. Fits(e, x)
  BY <1>1, <1>2, <1>3, EvalerFits DEF Fits, Sound
<1>5. CASE x.buf = <<>>
  <2>1. Len(x.buf) < BufferMaxSize
    BY <1>5, Bounds
  <2>2. w = FlushReturns(x)
    BY <1>5
  <2>3. Fits(e, w)
    BY <1>4, <2>1, <2>2, FitsReturned
  <2>4. w.buf = x.buf /\ w.at = x.at /\ w.cancelled = x.cancelled
        /\ w.pc \in {"select", "hint"}
    BY <1>2, <2>2, FlushReturnsTo
  <2> HIDE DEF w
  <2> QED
    BY <1>1, <1>3, <2>3, <2>4
<1>6. CASE x.buf # <<>>
  <2>1. Flush(x).buf = x.buf /\ Flush(x).at = x.at /\ Flush(x).cancelled = x.cancelled
        /\ Flush(x).pc = "send"
    BY <1>2, FlushTo
  <2>2. w = Flush(x)
    BY <1>6
  <2>3. Fits(e, w)
    BY <1>1, <1>4, <1>6, <2>2, FitsFlush
  <2> HIDE DEF w
  <2> QED
    BY <1>1, <1>3, <2>1, <2>2, <2>3
<1> QED
  BY <1>5, <1>6

LEMMA FitsReceived ==
  ASSUME Types, NEW e \in Evaler, EvalerReceives(e)
  PROVE  \E w : /\ Fits(e, w) /\ ev' = [ev EXCEPT ![e] = w]
                /\ w.buf = Append(ev[e].buf, Head(testcaseChan)) /\ w.at = ev[e].at
                /\ w.cancelled = ev[e].cancelled /\ ev[e].pc = "select"
                /\ w.pc \in {"send", "select", "hint"}
                /\ Head(testcaseChan) \in Testcase
<1> DEFINE old == ev[e]
           t == Head(testcaseChan)
           x == [old EXCEPT !.from = "recv", !.buf = Append(@, t)]
           w == IF Len(x.buf) = BufferMaxSize THEN Flush(x) ELSE FlushReturns(x)
<1>1. /\ old.pc = "select" /\ MayGoOn(old) /\ ev' = [ev EXCEPT ![e] = w]
      /\ testcaseChan # <<>>
  BY DEF EvalerReceives
<1>2. Fits(e, old)
  BY EvalerFits
<1>3. t \in Testcase
  BY <1>1, HeadTailProperties DEF Types, TypeOK
<1> HIDE DEF old, t
<1>4. /\ Append(old.buf, t) \in Seq(Testcase) /\ Append(old.buf, t) # <<>>
      /\ Len(old.buf) \in Nat /\ Len(Append(old.buf, t)) = Len(old.buf) + 1
  <2>1. old.buf \in Seq(Testcase)
    BY <1>2 DEF Fits, EvalerType
  <2> QED
    BY <1>3, <2>1, AppendProperties, LenProperties
<1>5. x \in EvalerType
  BY <1>2, <1>4 DEF Fits, EvalerType
<1>6. x.buf = Append(old.buf, t) /\ x.at = old.at /\ x.cancelled = old.cancelled
      /\ x.stops = old.stops /\ x.pc = "select"
  BY <1>1, <1>2 DEF Fits, EvalerType
<1> HIDE DEF x
<1>7. /\ ~old.cancelled => Len(x.buf) <= BufferMaxSize /\ x.at = 0 /\ x.stops = 0
      /\ x.at <= Len(x.buf)
      /\ x.buf # <<>>
  <2>1. old.at \in Nat /\ old.at <= Len(old.buf)
    BY <1>2 DEF Fits, Sound, EvalerType
  <2> QED
    BY <1>1, <1>2, <1>4, <1>6, <2>1, Bounds DEF Fits, Sound
<1>8. CASE Len(x.buf) = BufferMaxSize
  <2>1. Flush(x).buf = x.buf /\ Flush(x).at = x.at /\ Flush(x).cancelled = x.cancelled
        /\ Flush(x).pc = "send" /\ Flush(x) \in EvalerType /\ Flush(x).stops = x.stops
    BY <1>5, FlushTo
  <2>2. Sound(Flush(x))
    BY <1>1, <1>6, <1>7, <2>1 DEF Sound, MayGoOn
  <2>3. Fits(e, Flush(x))
    BY <1>2, <1>6, <2>1, <2>2 DEF Fits
  <2> QED
    BY <1>1, <1>3, <1>6, <1>8, <2>1, <2>3 DEF old, t
<1>9. CASE Len(x.buf) # BufferMaxSize
  <2>1. ~x.cancelled => Len(x.buf) < BufferMaxSize
    BY <1>4, <1>6, <1>7, <1>9, Bounds
  <2>2. Fits(e, x)
    <3>1. Sound(x)
      BY <1>6, <1>7, <2>1 DEF Sound
    <3> QED
      BY <1>2, <1>5, <1>6, <3>1 DEF Fits
  <2>3. Fits(e, FlushReturns(x))
    BY <2>1, <2>2, FitsReturned
  <2>4. FlushReturns(x).buf = x.buf /\ FlushReturns(x).at = x.at
        /\ FlushReturns(x).cancelled = x.cancelled
        /\ FlushReturns(x).pc \in {"select", "hint"}
    BY <1>5, FlushReturnsTo
  <2>5. w = FlushReturns(x)
    BY <1>9
  <2> HIDE DEF w
  <2> QED
    BY <1>1, <1>3, <1>6, <2>3, <2>4, <2>5 DEF old, t
<1> QED
  BY <1>8, <1>9

\* Evaluate fails: the next try, or the whole buffer is dropped.
LEMMA FitsFailed ==
  ASSUME Types, NEW e \in Evaler, ev[e].pc \in {"send", "recv"}, ~ev[e].cancelled,
         EvaluateFails(e)
  PROVE  \E w : /\ Fits(e, w) /\ ev' = [ev EXCEPT ![e] = w]
                /\ w.at = ev[e].at /\ ~w.cancelled
                /\ \/ /\ w.buf = ev[e].buf /\ w.pc = "send" /\ dropped' = dropped
                   \/ /\ w.buf = <<>> /\ w.pc \in {"select", "hint"}
                      /\ dropped' = dropped \cup ToSet(ev[e].buf)
<1> DEFINE old == ev[e]
<1>1. Fits(e, old)
  BY EvalerFits
<1>2. CASE old.try < EvalRetryCount
  <2> DEFINE w == [old EXCEPT !.pc = "send", !.try = @ + 1]
  <2>1. ev' = [ev EXCEPT ![e] = w] /\ dropped' = dropped
    BY <1>2 DEF EvaluateFails
  <2>2. old \in EvalerType /\ old.try + 1 \in 0..EvalRetryCount /\ "send" \in EvalerPC
    BY <1>1, <1>2, Bounds DEF Fits, EvalerType, EvalerPC
  <2> HIDE DEF old
  <2>3. w \in EvalerType
    BY <2>2 DEF EvalerType
  <2>4. w.buf = old.buf /\ w.at = old.at /\ w.cancelled = old.cancelled
        /\ w.stops = old.stops /\ w.pc = "send"
    BY <2>2 DEF EvalerType
  <2> HIDE DEF w
  <2>5. Fits(e, w) /\ ~w.cancelled
    BY <1>1, <2>3, <2>4 DEF Fits, Sound, old
  <2> QED
    BY <2>1, <2>4, <2>5 DEF old
<1>3. CASE ~(old.try < EvalRetryCount)
  <2> DEFINE x == [old EXCEPT !.buf = <<>>]
             w == FlushReturns(x)
  <2>1. ev' = [ev EXCEPT ![e] = w] /\ dropped' = dropped \cup ToSet(old.buf)
    BY <1>3 DEF EvaluateFails
  <2>2. old \in EvalerType /\ ~old.cancelled
    BY <1>1 DEF Fits
  <2> HIDE DEF old
  <2>3. x \in EvalerType
    BY <2>2, EmptySeq DEF EvalerType
  <2>4. x.buf = <<>> /\ x.at = old.at /\ x.cancelled = old.cancelled
        /\ x.stops = old.stops
    BY <2>2 DEF EvalerType
  <2> HIDE DEF x
  <2>5. /\ w \in EvalerType /\ w.buf = <<>> /\ w.at = old.at /\ ~w.cancelled
        /\ w.stops = old.stops /\ w.pc \in {"select", "hint"}
    BY <2>2, <2>3, <2>4, FlushReturnsTo
  <2> HIDE DEF w
  <2>6. Fits(e, w)
    <3>1. Len(w.buf) = 0
      BY <2>5
    <3> QED
      BY <1>1, <2>2, <2>5, <3>1, Bounds DEF Fits, Sound
  <2> QED
    BY <2>1, <2>5, <2>6 DEF old
<1> QED
  BY <1>2, <1>3

\* The answer has come: the buffer is empty.
LEMMA FitsAnswered ==
  ASSUME Types, NEW e \in Evaler, EvalerGetsAnswer(e)
  PROVE  \E w : /\ Fits(e, w) /\ ev' = [ev EXCEPT ![e] = w]
                /\ w.at = ev[e].at /\ ~w.cancelled /\ w.buf = <<>>
                /\ w.pc \in {"select", "hint"}
<1> DEFINE old == ev[e]
           x == [old EXCEPT !.buf = <<>>]
           w == FlushReturns(x)
<1>1. /\ hand[ConnOf[e]].to = e
      /\ ev' = [ev EXCEPT ![e] = w]
  BY DEF EvalerGetsAnswer
<1>2. Fits(e, old) /\ ~old.cancelled
  BY <1>1, EvalerFits, ConnectionOpen
<1> HIDE DEF old
<1>3. x \in EvalerType
  BY <1>2, EmptySeq DEF Fits, EvalerType
<1>4. x.buf = <<>> /\ x.at = old.at /\ x.cancelled = old.cancelled
      /\ x.stops = old.stops
  BY <1>2 DEF Fits, EvalerType
<1> HIDE DEF x
<1>5. /\ w \in EvalerType /\ w.buf = <<>> /\ w.at = old.at /\ ~w.cancelled
      /\ w.stops = old.stops /\ w.pc \in {"select", "hint"}
  BY <1>2, <1>3, <1>4, FlushReturnsTo
<1> HIDE DEF w
<1>6. Fits(e, w)
  <2>1. Len(w.buf) = 0
    BY <1>5
  <2> QED
    BY <1>2, <1>5, <2>1, Bounds DEF Fits, Sound
<1> QED
  BY <1>1, <1>5, <1>6 DEF old

\* The steps that only move the program counter: the request goes out, the
\* connection is found closed, an event is posted, the worker ends.
LEMMA FitsMoved ==
  ASSUME Types, NEW e \in Evaler,
         EvalerSends(e) \/ EvalerStops(e) \/ EvalerPosts(e) \/ EvalerExits(e)
  PROVE  \E w : /\ Fits(e, w) /\ ev' = [ev EXCEPT ![e] = w]
                /\ w.buf = ev[e].buf
                /\ w.at = IF w.pc = "resend" THEN 1 ELSE ev[e].at
                /\ ev[e].pc # "resend" /\ ev[e].pc # "done"
                /\ w.cancelled \/ ~ev[e].cancelled
                /\ w.pc \in {"event", "resend", "done"} => w.cancelled
<1> DEFINE old == ev[e]
<1>1. Fits(e, old) /\ ConnOf[e] \in Conn
  BY EvalerFits
<1>2. /\ old \in EvalerType
      /\ {"select", "send", "recv", "event", "resend", "hint", "done"} = EvalerPC
      /\ 1 \in Nat
  BY <1>1 DEF Fits, EvalerPC
<1>3. CASE EvalerSends(e)
  <2> DEFINE w == [old EXCEPT !.pc = "recv"]
  <2>1. ev' = [ev EXCEPT ![e] = w] /\ old.pc = "send"
    BY <1>3 DEF EvalerSends, Types, TypeOK
  <2> HIDE DEF old
  <2>2. w \in EvalerType
    BY <1>2 DEF EvalerType
  <2>3. w.buf = old.buf /\ w.at = old.at /\ w.cancelled = old.cancelled
        /\ w.stops = old.stops /\ w.pc = "recv"
    BY <1>2 DEF EvalerType
  <2> HIDE DEF w
  <2>4. Fits(e, w)
    BY <1>1, <2>1, <2>2, <2>3 DEF Fits, Sound
  <2> QED
    BY <2>1, <2>3, <2>4 DEF old
<1>4. CASE EvalerStops(e)
  <2> DEFINE w == [old EXCEPT !.pc = "event", !.cancelled = TRUE, !.stops = @ + 1]
  <2>1. /\ ev' = [ev EXCEPT ![e] = w] /\ old.pc \in {"send", "recv"}
        /\ phase[ConnOf[e]] = "closed"
    BY <1>4 DEF EvalerStops, Types, TypeOK
  <2> HIDE DEF old
  <2>2. old.stops + 1 \in 0..MaxStops
    BY <1>1, <1>2, <2>1, Bounds DEF Fits, Sound, EvalerType
  <2>3. w \in EvalerType
    BY <1>2, <2>2 DEF EvalerType
  <2>4. w.buf = old.buf /\ w.at = old.at /\ w.cancelled = TRUE /\ w.pc = "event"
    BY <1>2 DEF EvalerType
  <2> HIDE DEF w
  <2>5. Fits(e, w)
    BY <1>1, <2>1, <2>3, <2>4 DEF Fits, Sound
  <2> QED
    BY <2>1, <2>4, <2>5 DEF old
<1>5. CASE EvalerPosts(e) /\ old.pc = "hint"
  <2> DEFINE w == [old EXCEPT !.pc = "select", !.second = TRUE]
  <2>1. ev' = [ev EXCEPT ![e] = w]
    BY <1>5 DEF EvalerPosts
  <2> HIDE DEF old
  <2>2. w \in EvalerType
    BY <1>2 DEF EvalerType
  <2>3. w.buf = old.buf /\ w.at = old.at /\ w.cancelled = old.cancelled
        /\ w.stops = old.stops /\ w.pc = "select"
    BY <1>2 DEF EvalerType
  <2> HIDE DEF w
  <2>4. Fits(e, w)
    BY <1>1, <1>5, <2>2, <2>3 DEF Fits, Sound
  <2> QED
    BY <1>5, <2>1, <2>3, <2>4 DEF old
<1>6. CASE EvalerPosts(e) /\ old.pc # "hint"
  <2> DEFINE w == [old EXCEPT !.pc = "resend", !.at = 1]
  <2>1. ev' = [ev EXCEPT ![e] = w] /\ old.pc = "event"
    BY <1>6 DEF EvalerPosts
  <2> HIDE DEF old
  <2>2. w \in EvalerType
    BY <1>2 DEF EvalerType
  <2>3. w.buf = old.buf /\ w.at = 1 /\ w.cancelled = old.cancelled
        /\ w.stops = old.stops /\ w.pc = "resend"
    BY <1>2 DEF EvalerType
  <2> HIDE DEF w
  <2>4. old.buf # <<>> /\ old.cancelled
    BY <1>1, <2>1 DEF Fits, Sound
  <2>5. 1 \in 1..Len(old.buf)
    <3>1. old.buf \in Seq(Testcase)
      BY <1>2 DEF EvalerType
    <3>2. Len(old.buf) \in Nat /\ Len(old.buf) # 0
      BY <2>4, <3>1, LenProperties, EmptySeq
    <3> QED
      BY <3>2
  <2>6. Fits(e, w)
    BY <1>1, <2>1, <2>2, <2>3, <2>4, <2>5 DEF Fits, Sound
  <2> QED
    BY <2>1, <2>3, <2>4, <2>6 DEF old
<1>7. CASE EvalerExits(e)
  <2> DEFINE w == [old EXCEPT !.pc = "done"]
  <2>1. ev' = [ev EXCEPT ![e] = w] /\ old.pc = "select" /\ old.cancelled
    BY <1>7 DEF EvalerExits
  <2> HIDE DEF old
  <2>2. w \in EvalerType
    BY <1>2 DEF EvalerType
  <2>3. w.buf = old.buf /\ w.at = old.at /\ w.cancelled = old.cancelled
        /\ w.stops = old.stops /\ w.pc = "done"
    BY <1>2 DEF EvalerType
  <2> HIDE DEF w
  <2>4. Fits(e, w)
    BY <1>1, <2>1, <2>2, <2>3 DEF Fits, Sound
  <2> QED
    BY <2>1, <2>3, <2>4 DEF old
<1> QED
  BY <1>3, <1>4, <1>5, <1>6, <1>7

\* One testcase of the buffer goes back into the channel.
LEMMA FitsResent ==
  ASSUME Types, NEW e \in Evaler, EvalerResends(e)
  PROVE  \E w : /\ Fits(e, w) /\ ev' = [ev EXCEPT ![e] = w]
                /\ w.buf = ev[e].buf /\ ev[e].cancelled /\ w.cancelled
                /\ ev[e].pc = "resend" /\ Back(w) = ev[e].at
                /\ ev[e].at \in DOMAIN ev[e].buf
                /\ ev[e].buf[ev[e].at] \in Testcase
<1> DEFINE old == ev[e]
           w == IF old.at < Len(old.buf) THEN [old EXCEPT !.at = @ + 1]
                ELSE FlushReturns(old)
<1>1. ev' = [ev EXCEPT ![e] = w] /\ old.pc = "resend"
  BY DEF EvalerResends
<1>2. Fits(e, old) /\ old \in EvalerType /\ old.cancelled /\ old.at \in 1..Len(old.buf)
      /\ old.buf \in Seq(Testcase)
  BY <1>1, EvalerFits DEF Fits, Sound, EvalerType
<1> HIDE DEF old
<1>3. DOMAIN old.buf = 1..Len(old.buf) /\ Len(old.buf) \in Nat
      /\ old.at \in DOMAIN old.buf /\ old.buf[old.at] \in Testcase
  <2>1. DOMAIN old.buf = 1..Len(old.buf) /\ Len(old.buf) \in Nat
    BY <1>2, LenProperties
  <2> QED
    BY <1>2, <2>1, ElementOfSeq
<1>4. CASE old.at < Len(old.buf)
  <2>1. w = [old EXCEPT !.at = @ + 1]
    BY <1>4
  <2>2. old.at \in Nat /\ old.at + 1 \in 1..Len(old.buf) /\ old.at + 1 \in Nat
    BY <1>2, <1>3, <1>4
  <2>3. w \in EvalerType
    BY <1>2, <2>1, <2>2 DEF EvalerType
  <2>4. w.buf = old.buf /\ w.at = old.at + 1 /\ w.cancelled = old.cancelled
        /\ w.stops = old.stops /\ w.pc = "resend"
    BY <1>1, <1>2, <2>1 DEF EvalerType
  <2> HIDE DEF w
  <2>5. Fits(e, w)
    BY <1>1, <1>2, <2>2, <2>3, <2>4 DEF Fits, Sound
  <2>6. Back(w) = old.at
    BY <2>2, <2>4 DEF Back
  <2> QED
    BY <1>1, <1>2, <1>3, <2>4, <2>5, <2>6 DEF old
<1>5. CASE ~(old.at < Len(old.buf))
  <2>1. w = FlushReturns(old)
    BY <1>5
  <2>2. /\ w.buf = old.buf /\ w.at = old.at /\ w.cancelled = old.cancelled
        /\ w.pc \in {"select", "hint"}
    BY <1>2, <2>1, FlushReturnsTo
  <2>3. Fits(e, w)
    BY <1>2, <2>1, FitsReturned
  <2> HIDE DEF w
  <2>4. Back(w) = old.at
    BY <2>2 DEF Back
  <2> QED
    BY <1>1, <1>2, <1>3, <2>2, <2>3, <2>4 DEF old
<1> QED
  BY <1>4, <1>5

\* A worker in its place keeps the types.
LEMMA FitsTypes ==
  ASSUME Types, NEW e \in Evaler, NEW w, Fits(e, w), ev' = [ev EXCEPT ![e] = w],
         UNCHANGED <<sent, wire, phase, fz>>,
         hand' = hand \/ hand' = [hand EXCEPT ![ConnOf[e]] = NoMsg],
         asked' \subseteq Evaler,
         testcaseChan' \in Seq(Testcase), Len(testcaseChan') <= TestcaseChanBuf,
         events' \in 0..EventChanBuf,
         evaluated' \in [Testcase -> Nat], dropped' \subseteq Testcase
  PROVE  Types'
<1>1. /\ ev' \in [Evaler -> EvalerType] /\ Evalers'
      /\ \A d \in Evaler : Len(ev'[d].buf) > BufferMaxSize => ev'[d].cancelled
  BY EvalerStep DEF Fits
<1>2. hand' \in [Conn -> Message \cup {NoMsg}] /\ ClosedIsEmpty'
  BY EvalerFits DEF Types, TypeOK, ClosedIsEmpty
<1>3. TypeOK'
  BY <1>1, <1>2 DEF Types, TypeOK
<1> QED
  BY <1>1, <1>2, <1>3 DEF Types, Workers

\* What is not touched keeps its type.
LEMMA Others ==
  ASSUME Types
  PROVE  /\ testcaseChan \in Seq(Testcase) /\ Len(testcaseChan) <= TestcaseChanBuf
         /\ events \in 0..EventChanBuf /\ asked \subseteq Evaler
         /\ evaluated \in [Testcase -> Nat] /\ dropped \subseteq Testcase
  BY DEF Types, TypeOK

\* The copies of t in a buffer are counted.
LEMMA BufferCount ==
  ASSUME NEW s \in Seq(Testcase), NEW t
  PROVE  /\ IsFiniteSet({i \in DOMAIN s : s[i] = t})
         /\ Cardinality({i \in DOMAIN s : s[i] = t}) \in Nat
<1>1. IsFiniteSet(DOMAIN s)
  <2>1. DOMAIN s = 1..Len(s) /\ Len(s) \in Nat
    BY LenProperties
  <2> QED
    BY <2>1, FS_Interval
<1>2. {i \in DOMAIN s : s[i] = t} \in SUBSET DOMAIN s
  OBVIOUS
<1> QED
  BY <1>1, <1>2, FS_Subset, FS_CardinalityType

LEMMA EvalerTypes ==
  ASSUME Types, NEW e \in Evaler,
         EvalerTicks(e) \/ EvalerReceives(e) \/ EvalerExits(e) \/ FlushStep(e)
  PROVE  Types'
<1>0. /\ ev[e].buf \in Seq(Testcase) /\ ToSet(ev[e].buf) \subseteq Testcase
      /\ Fits(e, ev[e])
  <2>1. ev[e].buf \in Seq(Testcase) /\ Fits(e, ev[e])
    BY EvalerFits DEF Fits, EvalerType
  <2> QED
    BY <2>1, ElementOfSeq DEF ToSet
<1>1. CASE EvalerTicks(e)
  <2>1. UNCHANGED <<sent, wire, phase, asked, hand, fz, testcaseChan, events, evaluated,
                    dropped>>
    BY <1>1 DEF EvalerTicks, net, results
  <2> QED
    BY <1>1, <2>1, FitsTicked, FitsTypes, Others
<1>2. CASE EvalerReceives(e)
  <2>1. /\ testcaseChan # <<>> /\ testcaseChan' = Tail(testcaseChan)
        /\ UNCHANGED <<sent, wire, phase, asked, hand, fz, events, evaluated, dropped>>
    BY <1>2 DEF EvalerReceives, net, results
  <2>2. /\ testcaseChan' \in Seq(Testcase) /\ Len(testcaseChan') <= TestcaseChanBuf
    <3>1. /\ Tail(testcaseChan) \in Seq(Testcase) /\ Len(testcaseChan) \in Nat
          /\ Len(Tail(testcaseChan)) = Len(testcaseChan) - 1
      BY <2>1, Others, HeadTailProperties, LenProperties
    <3> QED
      BY <2>1, <3>1, Others, Bounds
  <2> QED
    BY <1>2, <2>1, <2>2, FitsReceived, FitsTypes, Others
<1>3. CASE EvalerExits(e) \/ EvalerSends(e) \/ EvalerStops(e)
  <2>1. /\ UNCHANGED <<sent, wire, phase, hand, fz, testcaseChan, events, evaluated,
                       dropped>>
        /\ asked' \subseteq Evaler
    BY <1>3, Others DEF EvalerExits, EvalerSends, EvalerStops, net, results
  <2> QED
    BY <1>3, <2>1, FitsMoved, FitsTypes, Others
<1>4. CASE EvalerPosts(e)
  <2>1. /\ UNCHANGED <<sent, wire, phase, asked, hand, fz, testcaseChan, evaluated, dropped>>
        /\ events < EventChanBuf /\ events' = events + 1
    BY <1>4 DEF EvalerPosts, net, results
  <2>2. events' \in 0..EventChanBuf
    BY <2>1, Others, Bounds
  <2> QED
    BY <1>4, <2>1, <2>2, FitsMoved, FitsTypes, Others
<1>5. CASE EvalerSendFails(e) \/ EvalerGetsGarbage(e)
  <2>1. /\ UNCHANGED <<sent, wire, phase, asked, fz, testcaseChan, events, evaluated>>
        /\ hand' = hand \/ hand' = [hand EXCEPT ![ConnOf[e]] = NoMsg]
        /\ ev[e].pc \in {"send", "recv"} /\ EvaluateFails(e)
        /\ hand[ConnOf[e]].to = e \/ phase[ConnOf[e]] # "closed"
    BY <1>5 DEF EvalerSendFails, EvalerGetsGarbage, net
  <2>2. ~ev[e].cancelled
    BY <2>1, ConnectionOpen
  <2>3. PICK w : /\ Fits(e, w) /\ ev' = [ev EXCEPT ![e] = w]
                 /\ dropped' = dropped \/ dropped' = dropped \cup ToSet(ev[e].buf)
    BY <2>1, <2>2, FitsFailed
  <2>4. dropped' \subseteq Testcase
    BY <1>0, <2>3, Others
  <2> QED
    BY <2>1, <2>3, <2>4, FitsTypes, Others
<1>6. CASE EvalerGetsAnswer(e)
  <2>1. /\ UNCHANGED <<sent, wire, phase, asked, fz, testcaseChan, events, dropped>>
        /\ hand' = [hand EXCEPT ![ConnOf[e]] = NoMsg]
        /\ evaluated' = [t \in Testcase |->
             evaluated[t] + Cardinality({i \in DOMAIN ev[e].buf : ev[e].buf[i] = t})]
    BY <1>6 DEF EvalerGetsAnswer, net
  <2>2. evaluated' \in [Testcase -> Nat]
    <3>1. ASSUME NEW t \in Testcase
          PROVE  evaluated[t] + Cardinality({i \in DOMAIN ev[e].buf : ev[e].buf[i] = t}) \in Nat
      <4> DEFINE s == ev[e].buf
                 n == Cardinality({i \in DOMAIN s : s[i] = t})
      <4>1. s \in Seq(Testcase) /\ evaluated[t] \in Nat
        BY <1>0, Others
      <4> HIDE DEF s
      <4>2. n \in Nat
        BY <4>1, BufferCount
      <4> HIDE DEF n
      <4>3. evaluated[t] + n \in Nat
        BY <4>1, <4>2
      <4> QED
        BY <4>3 DEF n, s
    <3> QED
      BY <2>1, <3>1
  <2> QED
    BY <1>6, <2>1, <2>2, FitsAnswered, FitsTypes, Others
<1>7. CASE EvalerResends(e)
  <2>1. /\ UNCHANGED <<sent, wire, phase, asked, hand, fz, events, evaluated, dropped>>
        /\ ~QueueFull /\ testcaseChan' = Append(testcaseChan, ev[e].buf[ev[e].at])
    BY <1>7 DEF EvalerResends, net, results
  <2>2. PICK w : /\ Fits(e, w) /\ ev' = [ev EXCEPT ![e] = w]
                 /\ ev[e].buf[ev[e].at] \in Testcase
    BY <1>7, FitsResent
  <2>3. testcaseChan' \in Seq(Testcase) /\ Len(testcaseChan') <= TestcaseChanBuf
    BY <2>1, <2>2, Pushed DEF Types
  <2> QED
    BY <2>1, <2>2, <2>3, FitsTypes, Others
<1> QED
  BY <1>1, <1>2, <1>3, <1>4, <1>5, <1>6, <1>7 DEF FlushStep

LEMMA NextTypes == Types /\ [Next]_vars => Types'
<1> SUFFICES ASSUME Types, [Next]_vars PROVE Types'
  OBVIOUS
<1>1. CASE Next
  BY <1>1, NodeSendsTypes, NodeAnswersTypes, NodeLeavesTypes, ReaderTypes, EventLoopTypes,
     FuzzerTypes, EvalerTypes DEF Next
<1>2. CASE UNCHANGED vars
  <2>1. UNCHANGED <<sent, wire, phase, asked, hand, fz, ev, testcaseChan, events, evaluated,
                    dropped>>
    BY <1>2 DEF vars, net, results
  <2> QED
    BY <2>1 DEF Types, TypeOK, Workers, Evalers, ClosedIsEmpty
<1> QED
  BY <1>1, <1>2

LEMMA InitTypes == Init => Types
<1> SUFFICES ASSUME Init PROVE Types
  OBVIOUS
<1>1. <<>> \in Seq(Testcase) /\ <<>> \in Seq(Message) /\ Len(<<>>) = 0
  BY EmptySeq
<1> DEFINE w == [pc |-> "select", buf |-> <<>>, try |-> 0, from |-> "tick", at |-> 0,
                 second |-> TRUE, cancelled |-> FALSE, stops |-> 0]
           idle == [pc |-> "recv", tc |-> <<>>]
<1>2. w \in EvalerType /\ idle \in FuzzerType
  BY <1>1, Bounds DEF EvalerType, EvalerPC, FuzzerType
<1>3. Sound(w) /\ ~w.cancelled /\ Len(w.buf) = 0
  BY <1>1, Bounds DEF Sound
<1>4. idle.tc = <<>> /\ idle.pc = "recv"
  OBVIOUS
<1>5. ev = [e \in Evaler |-> w] /\ fz = [f \in Fuzzer |-> idle]
  BY DEF Init
<1> HIDE DEF w, idle
<1>6. /\ ev \in [Evaler -> EvalerType] /\ fz \in [Fuzzer -> FuzzerType]
      /\ \A e \in Evaler : ev[e] = w
      /\ \A f \in Fuzzer : fz[f] = idle
  BY <1>2, <1>5
<1>7. /\ sent \in [Fuzzer -> 0..MaxSent] /\ evaluated \in [Testcase -> Nat]
      /\ wire \in [Conn -> Seq(Message)] /\ hand \in [Conn -> Message \cup {NoMsg}]
      /\ phase \in [Conn -> {"open", "eof", "closed"}]
      /\ events \in 0..EventChanBuf
      /\ testcaseChan = <<>> /\ Len(testcaseChan) <= TestcaseChanBuf
      /\ asked = {} /\ dropped = {}
  BY <1>1, Bounds DEF Init
<1>8. TypeOK
  BY <1>1, <1>3, <1>6, <1>7, Bounds DEF TypeOK
<1>9. Workers /\ Evalers
  <2>1. ASSUME NEW f \in Fuzzer PROVE fz[f].tc = <<>> /\ fz[f].pc = "recv"
    BY <1>4, <1>6
  <2>2. ASSUME NEW e \in Evaler PROVE Sound(ev[e]) /\ ~ev[e].cancelled
    BY <1>3, <1>6
  <2> QED
    BY <2>1, <2>2 DEF Workers, Evalers
<1>10. ClosedIsEmpty
  BY DEF Init, ClosedIsEmpty
<1> QED
  BY <1>8, <1>9, <1>10 DEF Types

-----------------------------------------------------------------------------
(* What a worker has taken over is kept *)

\* Testcases on their way to a worker.
OnTheWay(t) ==
  \/ hand[ConnOf[t[1]]].tc = t
  \/ \E i \in DOMAIN wire[ConnOf[t[1]]] : wire[ConnOf[t[1]]][i].tc = t

LEMMA AcceptedIs ==
  ASSUME NEW t
  PROVE  t \in Accepted <=> t \in Testcase /\ t[2] <= sent[t[1]] /\ ~OnTheWay(t)
  BY DEF Accepted, OnTheWay

LEMMA TestcaseOf ==
  ASSUME NEW t \in Testcase
  PROVE  /\ t[1] \in Fuzzer /\ t[2] \in 1..MaxSent /\ t[2] \in Nat
         /\ t = <<t[1], t[2]>> /\ t # <<>> /\ ConnOf[t[1]] \in Conn
<1>1. PICK f \in Fuzzer, n \in 1..MaxSent : t = <<f, n>>
  BY DEF Testcase
<1>2. t[1] = f /\ t[2] = n /\ n \in Nat
  BY <1>1, Bounds
<1>3. ConnOf[f] \in Conn
  BY Bounds
<1> QED
  BY <1>1, <1>2, <1>3, TestcaseIsPair

\* The steps that take nothing over make nothing accepted.
LEMMA NothingTaken ==
  ASSUME Types, NEW t, t \in Accepted', UNCHANGED <<sent, wire>>,
         \A c \in Conn : hand[c].tc \in Testcase => hand'[c].tc = hand[c].tc
  PROVE  t \in Accepted
<1>1. t \in Testcase /\ t[2] <= sent[t[1]] /\ ~OnTheWay(t)'
  BY AcceptedIs DEF Accepted, OnTheWay
<1>2. ~OnTheWay(t)
  BY <1>1, TestcaseOf DEF OnTheWay
<1> QED
  BY <1>1, <1>2, AcceptedIs

\* Nobody but its fuzzer takes a testcase from the reader.
LEMMA AnswersAreNoTestcases ==
  ASSUME Types, NEW c \in Conn, NEW e \in Evaler, hand[c].to = e
  PROVE  hand[c].tc = <<>>
<1>1. hand[c] \in Message \cup {NoMsg}
  BY DEF Types, TypeOK
<1> QED
  BY <1>1, PipelineAssumption DEF Message, NoMsg

LEMMA NodeSendsAccepts ==
  ASSUME Types, NEW f \in Fuzzer, NodeSendsTestcase(f), NEW t, t \in Accepted'
  PROVE  t \in Accepted
<1> DEFINE c == ConnOf[f]
           m == [to |-> f, tc |-> <<f, sent[f] + 1>>, kind |-> "testcase"]
<1>1. /\ sent' = [sent EXCEPT ![f] = @ + 1]
      /\ wire' = [wire EXCEPT ![c] = Append(@, m)]
      /\ hand' = hand
  BY DEF NodeSendsTestcase
<1>2. c \in Conn /\ wire \in [Conn -> Seq(Message)] /\ sent[f] \in Nat
      /\ sent \in [Fuzzer -> 0..MaxSent]
  BY Bounds DEF Types, TypeOK
<1>3. m \in Message /\ m.tc = <<f, sent[f] + 1>>
  <2>1. sent[f] + 1 \in 1..MaxSent
    BY <1>2, Bounds DEF NodeSendsTestcase
  <2> QED
    BY <2>1 DEF Message, Testcase
<1> HIDE DEF m, c
<1>4. t \in Testcase /\ t[2] <= sent'[t[1]]
      /\ hand'[ConnOf[t[1]]].tc # t
      /\ \A i \in DOMAIN wire'[ConnOf[t[1]]] : wire'[ConnOf[t[1]]][i].tc # t
  BY DEF Accepted
<1>5. /\ wire[c] \in Seq(Message) /\ wire'[c] = Append(wire[c], m)
      /\ \A d \in Conn \ {c} : wire'[d] = wire[d]
  BY <1>1, <1>2
<1>6. /\ DOMAIN wire[c] = 1..Len(wire[c]) /\ Len(wire[c]) \in Nat
      /\ DOMAIN wire'[c] = 1..(Len(wire[c]) + 1)
      /\ \A i \in DOMAIN wire[c] : wire'[c][i] = wire[c][i]
      /\ wire'[c][Len(wire[c]) + 1] = m
  BY <1>3, <1>5, AppendProperties, LenProperties
<1>7. \A i \in DOMAIN wire[ConnOf[t[1]]] : wire[ConnOf[t[1]]][i].tc # t
  <2>1. CASE ConnOf[t[1]] = c
    BY <1>4, <1>6, <2>1
  <2>2. CASE ConnOf[t[1]] # c
    BY <1>4, <1>5, <2>2, TestcaseOf
  <2> QED
    BY <2>1, <2>2
<1>8. t[2] <= sent[t[1]]
  <2>1. CASE t[1] = f
    <3>1. t # m.tc
      <4>1. ConnOf[t[1]] = c
        BY <2>1 DEF c
      <4> QED
        BY <1>4, <1>6, <4>1
    <3>2. t[2] # sent[f] + 1
      BY <1>3, <1>4, <2>1, <3>1, TestcaseOf
    <3>3. sent'[f] = sent[f] + 1
      BY <1>1, <1>2
    <3> QED
      BY <1>2, <1>4, <2>1, <3>2, <3>3, TestcaseOf
  <2>2. CASE t[1] # f
    <3>1. sent'[t[1]] = sent[t[1]]
      BY <1>1, <1>2, <1>4, <2>2, TestcaseOf
    <3> QED
      BY <1>4, <3>1
  <2> QED
    BY <2>1, <2>2
<1> QED
  BY <1>1, <1>4, <1>7, <1>8 DEF Accepted

LEMMA NodeAnswersAccepts ==
  ASSUME Types, NEW e \in Evaler, NEW kind \in Answers, NodeAnswers(e, kind),
         NEW t, t \in Accepted'
  PROVE  t \in Accepted
<1> DEFINE c == ConnOf[e]
           m == [to |-> e, tc |-> <<>>, kind |-> kind]
<1>1. wire' = [wire EXCEPT ![c] = Append(@, m)] /\ hand' = hand /\ sent' = sent
  BY DEF NodeAnswers
<1>2. c \in Conn /\ wire \in [Conn -> Seq(Message)]
  BY Bounds DEF Types, TypeOK
<1>3. m \in Message
  BY DEF Message
<1> HIDE DEF m, c
<1>4. t \in Testcase /\ t[2] <= sent'[t[1]]
      /\ hand'[ConnOf[t[1]]].tc # t
      /\ \A i \in DOMAIN wire'[ConnOf[t[1]]] : wire'[ConnOf[t[1]]][i].tc # t
  BY DEF Accepted
<1>5. /\ wire[c] \in Seq(Message) /\ wire'[c] = Append(wire[c], m)
      /\ \A d \in Conn \ {c} : wire'[d] = wire[d]
  BY <1>1, <1>2
<1>6. /\ DOMAIN wire[c] \subseteq DOMAIN wire'[c]
      /\ \A i \in DOMAIN wire[c] : wire'[c][i] = wire[c][i]
  BY <1>3, <1>5, AppendProperties, LenProperties
<1>7. \A i \in DOMAIN wire[ConnOf[t[1]]] : wire[ConnOf[t[1]]][i].tc # t
  BY <1>4, <1>5, <1>6, TestcaseOf
<1> QED
  BY <1>1, <1>4, <1>7 DEF Accepted

\* What cannot be decoded is no testcase; everything else is handed over.
LEMMA ReaderAccepts ==
  ASSUME Types, NEW c \in Conn, ReaderReads(c), NEW t, t \in Accepted'
  PROVE  t \in Accepted
<1> DEFINE m == Head(wire[c])
<1>1. /\ hand[c] = NoMsg /\ wire[c] # <<>>
      /\ hand' = IF m.kind = "undecodable" THEN hand ELSE [hand EXCEPT ![c] = m]
      /\ wire' = [wire EXCEPT ![c] = Tail(@)]
      /\ sent' = sent
  BY DEF ReaderReads
<1>2. wire[c] \in Seq(Message) /\ wire \in [Conn -> Seq(Message)]
      /\ hand \in [Conn -> Message \cup {NoMsg}]
  BY DEF Types, TypeOK
<1>3. m \in Message /\ m = wire[c][1]
  BY <1>1, <1>2, HeadTailProperties
<1>4. /\ DOMAIN wire[c] = 1..Len(wire[c]) /\ Len(wire[c]) \in Nat
      /\ DOMAIN Tail(wire[c]) = 1..(Len(wire[c]) - 1)
      /\ \A i \in 1..(Len(wire[c]) - 1) : Tail(wire[c])[i] = wire[c][i + 1]
  <2>1. Tail(wire[c]) \in Seq(Message) /\ Len(Tail(wire[c])) = Len(wire[c]) - 1
    BY <1>1, <1>2, HeadTailProperties
  <2> QED
    BY <1>1, <1>2, <2>1, HeadTailProperties, LenProperties
<1> HIDE DEF m
<1>5. t \in Testcase /\ t[2] <= sent'[t[1]]
      /\ hand'[ConnOf[t[1]]].tc # t
      /\ \A i \in DOMAIN wire'[ConnOf[t[1]]] : wire'[ConnOf[t[1]]][i].tc # t
  BY DEF Accepted
<1>6. CASE ConnOf[t[1]] # c
  <2>1. wire'[ConnOf[t[1]]] = wire[ConnOf[t[1]]] /\ hand'[ConnOf[t[1]]] = hand[ConnOf[t[1]]]
    BY <1>1, <1>2, <1>5, <1>6, TestcaseOf
  <2> QED
    BY <1>1, <1>5, <2>1 DEF Accepted
<1>7. CASE ConnOf[t[1]] = c
  <2>1. wire'[c] = Tail(wire[c])
    BY <1>1, <1>2
  <2>2. m.tc # t
    <3>1. CASE m.kind = "undecodable"
      BY <1>3, <1>5, <3>1, TestcaseOf DEF Message
    <3>2. CASE m.kind # "undecodable"
      <4>1. hand'[c] = m
        BY <1>1, <1>2, <3>2
      <4> QED
        BY <1>5, <1>7, <4>1
    <3> QED
      BY <3>1, <3>2
  <2>3. ASSUME NEW i \in DOMAIN wire[c] PROVE wire[c][i].tc # t
    <3>1. CASE i = 1
      BY <1>3, <2>2, <3>1
    <3>2. CASE i # 1
      <4>1. i - 1 \in DOMAIN wire'[c] /\ wire'[c][i - 1] = wire[c][i]
        BY <1>4, <2>1, <3>2
      <4> QED
        BY <1>5, <1>7, <4>1
    <3> QED
      BY <3>1, <3>2
  <2>4. hand[c].tc # t
    BY <1>1, <1>5, TestcaseOf DEF NoMsg
  <2> QED
    BY <1>1, <1>5, <1>7, <2>3, <2>4 DEF Accepted
<1> QED
  BY <1>6, <1>7

LEMMA InitKept == Init => \A t \in Accepted : Kept(t)
<1> SUFFICES ASSUME Init, NEW t \in Accepted PROVE FALSE
  OBVIOUS
<1>1. t \in Testcase /\ t[2] <= sent[t[1]]
  BY AcceptedIs
<1>2. sent[t[1]] = 0 /\ t[2] \in 1..MaxSent
  BY <1>1, TestcaseOf DEF Init
<1> QED
  BY <1>1, <1>2, Bounds

\* What a worker owns depends on its buffer and on how much of it is given back.
LEMMA OwnedSame ==
  ASSUME NEW v, NEW w, NEW t, w.buf = v.buf, Back(w) = Back(v)
  PROVE  Owned(v, t) <=> Owned(w, t)
  BY DEF Owned

\* A step of one evaler keeps a testcase that it keeps in e's worker and in the
\* channel.
LEMMA EvalerKeeps ==
  ASSUME Types, NEW e \in Evaler, NEW w, ev' = [ev EXCEPT ![e] = w], fz' = fz,
         NEW t, Kept(t),
         Owned(ev[e], t) => \/ Owned(w, t) \/ Has(testcaseChan', t)
                            \/ evaluated'[t] # 0 \/ t \in dropped',
         Has(testcaseChan, t) => Has(testcaseChan', t) \/ Owned(w, t),
         evaluated[t] # 0 => evaluated'[t] # 0,
         dropped \subseteq dropped'
  PROVE  Kept(t)'
<1>1. ev'[e] = w /\ \A d \in Evaler \ {e} : ev'[d] = ev[d]
  BY DEF Types, TypeOK
<1>2. (\E d \in Evaler : Owned(ev[d], t)) =>
        (\E d \in Evaler : Owned(ev'[d], t)) \/ Owned(ev[e], t)
  BY <1>1
<1>3. Owned(w, t) => \E d \in Evaler : Owned(ev'[d], t)
  BY <1>1
<1>4. InWorker(t) => InWorker(t)'
  BY DEF InWorker
<1> QED
  BY <1>2, <1>3, <1>4 DEF Kept

\* A step of one fuzzer's worker.
LEMMA FuzzerKeeps ==
  ASSUME Types, NEW f \in Fuzzer, NEW w, fz' = [fz EXCEPT ![f] = w],
         UNCHANGED <<ev, evaluated, dropped>>, NEW t, Kept(t),
         fz[f].tc = t => w.tc = t \/ Has(testcaseChan', t),
         Has(testcaseChan, t) => Has(testcaseChan', t)
  PROVE  Kept(t)'
<1>1. fz'[f] = w /\ \A g \in Fuzzer \ {f} : fz'[g] = fz[g]
  BY DEF Types, TypeOK
<1>2. InWorker(t) => InWorker(t)' \/ Has(testcaseChan', t)
  BY <1>1 DEF InWorker
<1> QED
  BY <1>2 DEF Kept

LEMMA FuzzerKept ==
  ASSUME Types, NEW f \in Fuzzer, FuzzerStep(f), \A t \in Accepted : Kept(t),
         NEW t, t \in Accepted'
  PROVE  Kept(t)'
<1>0. fz \in [Fuzzer -> FuzzerType] /\ fz[f] \in FuzzerType /\ testcaseChan \in Seq(Testcase)
  BY DEF Types, TypeOK
<1>1. CASE FuzzerGets(f)
  <2> DEFINE c == ConnOf[f]
             w == [pc |-> "push", tc |-> hand[c].tc]
  <2>1. /\ fz[f].pc = "recv"
        /\ fz' = [fz EXCEPT ![f] = w]
        /\ hand' = [hand EXCEPT ![c] = NoMsg]
        /\ UNCHANGED <<sent, wire, testcaseChan, ev, evaluated, dropped>>
    BY <1>1 DEF FuzzerGets, net, results
  <2>2. fz[f].tc = <<>>
    BY <2>1 DEF Types, Workers
  <2>3. t \in Testcase /\ t # <<>>
    BY AcceptedIs, TestcaseOf DEF Accepted
  <2>4. CASE hand[c].tc = t
    <3>1. fz'[f] = w
      BY <1>0, <2>1
    <3> QED
      BY <2>4, <3>1 DEF Kept, InWorker
  <2>5. CASE hand[c].tc # t
    <3>1. t \in Accepted
      <4>1. /\ t[2] <= sent[t[1]] /\ hand'[ConnOf[t[1]]].tc # t
            /\ \A i \in DOMAIN wire[ConnOf[t[1]]] : wire[ConnOf[t[1]]][i].tc # t
        BY <2>1 DEF Accepted
      <4>2. hand[ConnOf[t[1]]].tc # t
        <5>1. CASE ConnOf[t[1]] = c
          BY <2>5, <5>1
        <5>2. CASE ConnOf[t[1]] # c
          <6>1. hand'[ConnOf[t[1]]] = hand[ConnOf[t[1]]]
            BY <2>1, <2>3, <5>2, TestcaseOf DEF Types, TypeOK
          <6> QED
            BY <4>1, <6>1
        <5> QED
          BY <5>1, <5>2
      <4> QED
        BY <2>3, <4>1, <4>2 DEF Accepted
    <3>2. Kept(t)
      BY <3>1
    <3> HIDE DEF w
    <3> QED
      BY <2>1, <2>2, <2>3, <3>2, FuzzerKeeps
  <2> QED
    BY <2>4, <2>5
<1>2. CASE ~FuzzerGets(f)
  <2>1. UNCHANGED <<sent, wire, hand, ev, evaluated, dropped>>
    BY <1>2 DEF FuzzerStep, FuzzerSeesClosed, FuzzerPushes, FuzzerPushesBlocked,
                FuzzerPosts, net, results
  <2>2. t \in Accepted /\ Kept(t)
    BY <2>1, NothingTaken
  <2>3. CASE fz'[f].tc = fz[f].tc /\ testcaseChan' = testcaseChan
             /\ fz' = [fz EXCEPT ![f] = fz'[f]]
    BY <2>1, <2>2, <2>3, FuzzerKeeps
  <2>4. CASE /\ fz[f].pc \in {"push", "blocked"}
             /\ fz' = [fz EXCEPT ![f] = [pc |-> "recv", tc |-> <<>>]]
             /\ testcaseChan' = Append(testcaseChan, fz[f].tc)
    <3>1. fz[f].tc \in Testcase
      BY <1>0, <2>4 DEF FuzzerType, Types, Workers
    <3>2. Has(testcaseChan', t) <=> Has(testcaseChan, t) \/ fz[f].tc = t
      BY <1>0, <2>4, <3>1, HasAppend
    <3> QED
      BY <2>1, <2>2, <2>4, <3>2, FuzzerKeeps
  <2>5. \/ /\ fz'[f].tc = fz[f].tc /\ testcaseChan' = testcaseChan
           /\ fz' = [fz EXCEPT ![f] = fz'[f]]
        \/ /\ fz[f].pc \in {"push", "blocked"}
           /\ fz' = [fz EXCEPT ![f] = [pc |-> "recv", tc |-> <<>>]]
           /\ testcaseChan' = Append(testcaseChan, fz[f].tc)
    <3>1. ASSUME NEW p, fz' = [fz EXCEPT ![f].pc = p]
          PROVE  fz'[f].tc = fz[f].tc /\ fz' = [fz EXCEPT ![f] = fz'[f]]
      BY <1>0, <3>1 DEF FuzzerType
    <3>2. CASE FuzzerSeesClosed(f)
      BY <3>1, <3>2 DEF FuzzerSeesClosed
    <3>3. CASE FuzzerPushes(f)
      BY <3>1, <3>3 DEF FuzzerPushes
    <3>4. CASE FuzzerPushesBlocked(f)
      BY <3>4 DEF FuzzerPushesBlocked
    <3>5. CASE FuzzerPosts(f)
      <4>1. fz' = [fz EXCEPT ![f].pc = IF fz[f].pc = "hint" THEN "blocked" ELSE "done"]
            /\ testcaseChan' = testcaseChan
        BY <1>0, <3>5 DEF FuzzerPosts
      <4> QED
        BY <3>1, <4>1
    <3> QED
      BY <1>2, <3>2, <3>3, <3>4, <3>5 DEF FuzzerStep
  <2> QED
    BY <2>3, <2>4, <2>5
<1> QED
  BY <1>1, <1>2

LEMMA EvalerKept ==
  ASSUME Types, NEW e \in Evaler,
         EvalerTicks(e) \/ EvalerReceives(e) \/ EvalerExits(e) \/ FlushStep(e),
         \A t \in Accepted : Kept(t), NEW t, t \in Accepted'
  PROVE  Kept(t)'
<1> DEFINE old == ev[e]
<1>0. /\ old.buf \in Seq(Testcase) /\ Fits(e, old) /\ testcaseChan \in Seq(Testcase)
      /\ old.at \in Nat /\ old.at <= Len(old.buf)
      /\ DOMAIN old.buf = 1..Len(old.buf) /\ Len(old.buf) \in Nat
  <2>1. old.buf \in Seq(Testcase) /\ Fits(e, old) /\ old.at \in Nat /\ old.at <= Len(old.buf)
    BY EvalerFits DEF Fits, EvalerType, Sound
  <2> QED
    BY <2>1, LenProperties DEF Types, TypeOK
<1>1. t \in Accepted /\ Kept(t)
  <2>1. UNCHANGED <<sent, wire>>
    BY DEF EvalerTicks, EvalerReceives, EvalerExits, FlushStep, EvalerSends, EvalerSendFails,
           EvalerGetsAnswer, EvalerGetsGarbage, EvalerStops, EvalerPosts, EvalerResends, net
  <2>2. hand' = hand \/ (hand[ConnOf[e]].to = e /\ hand' = [hand EXCEPT ![ConnOf[e]] = NoMsg])
    BY DEF EvalerTicks, EvalerReceives, EvalerExits, FlushStep, EvalerSends, EvalerSendFails,
           EvalerGetsAnswer, EvalerGetsGarbage, EvalerStops, EvalerPosts, EvalerResends, net
  <2>3. \A c \in Conn : hand[c].tc \in Testcase => hand'[c].tc = hand[c].tc
    BY <2>2, EvalerFits, AnswersAreNoTestcases, TestcaseIsPair DEF Types, TypeOK
  <2> QED
    BY <2>1, <2>3, NothingTaken
<1>2. t \in Testcase
  BY <1>1, AcceptedIs
<1>3. CASE EvalerTicks(e)
  <2>1. UNCHANGED <<fz, testcaseChan, evaluated, dropped>>
    BY <1>3 DEF EvalerTicks, results
  <2>2. PICK w : /\ ev' = [ev EXCEPT ![e] = w]
                 /\ w.buf = old.buf /\ w.at = old.at
                 /\ old.pc = "select" /\ w.pc \in {"send", "select", "hint"}
    BY <1>3, FitsTicked
  <2>3. Back(w) = Back(old)
    BY <2>2 DEF Back
  <2>4. Owned(old, t) <=> Owned(w, t)
    BY <2>2, <2>3, OwnedSame
  <2> QED
    BY <1>1, <2>1, <2>2, <2>4, EvalerKeeps
<1>4. CASE EvalerReceives(e)
  <2> DEFINE h == Head(testcaseChan)
  <2>1. /\ UNCHANGED <<fz, evaluated, dropped>>
        /\ testcaseChan # <<>> /\ testcaseChan' = Tail(testcaseChan)
    BY <1>4 DEF EvalerReceives, results
  <2>2. PICK w : /\ ev' = [ev EXCEPT ![e] = w]
                 /\ w.buf = Append(old.buf, h) /\ w.at = old.at
                 /\ old.pc = "select" /\ w.pc \in {"send", "select", "hint"}
                 /\ h \in Testcase
    BY <1>4, FitsReceived
  <2>3. Back(w) = old.at /\ Back(old) = old.at
    BY <2>2 DEF Back
  <2>4. Has(testcaseChan, t) <=> Has(testcaseChan', t) \/ h = t
    BY <1>0, <2>1, HasTail
  <2> HIDE DEF h
  <2>5. /\ DOMAIN w.buf = 1..(Len(old.buf) + 1)
        /\ \A i \in 1..Len(old.buf) : w.buf[i] = old.buf[i]
        /\ w.buf[Len(old.buf) + 1] = h
    BY <1>0, <2>2, AppendProperties, LenProperties
  <2> HIDE DEF old
  <2>6. Owned(old, t) => Owned(w, t)
    BY <1>0, <2>3, <2>5 DEF Owned
  <2>7. h = t => Owned(w, t)
    <3>1. Len(old.buf) + 1 \in DOMAIN w.buf /\ Len(old.buf) + 1 > old.at
      BY <1>0, <2>5
    <3> QED
      BY <2>3, <2>5, <3>1 DEF Owned
  <2> QED
    BY <1>1, <2>1, <2>2, <2>4, <2>6, <2>7, EvalerKeeps DEF old
<1>5. CASE EvalerExits(e) \/ EvalerSends(e) \/ EvalerStops(e) \/ EvalerPosts(e)
  <2>1. UNCHANGED <<fz, testcaseChan, evaluated, dropped>>
    BY <1>5 DEF EvalerExits, EvalerSends, EvalerStops, EvalerPosts, results
  <2>2. PICK w : /\ ev' = [ev EXCEPT ![e] = w]
                 /\ w.buf = old.buf
                 /\ w.at = IF w.pc = "resend" THEN 1 ELSE old.at
                 /\ old.pc # "resend" /\ old.pc # "done"
    BY <1>5, FitsMoved
  <2> HIDE DEF old
  <2>3. Owned(old, t) => Owned(w, t)
    <3>1. Back(w) = 0 \/ Back(w) = Back(old)
      BY <2>2 DEF Back
    <3> QED
      BY <1>0, <2>2, <3>1 DEF Owned
  <2> QED
    BY <1>1, <2>1, <2>2, <2>3, EvalerKeeps DEF old
<1>6. CASE EvalerSendFails(e) \/ EvalerGetsGarbage(e)
  <2>1. /\ UNCHANGED <<fz, testcaseChan, evaluated>>
        /\ old.pc \in {"send", "recv"} /\ EvaluateFails(e)
        /\ hand[ConnOf[e]].to = e \/ phase[ConnOf[e]] # "closed"
    BY <1>6 DEF EvalerSendFails, EvalerGetsGarbage
  <2>2. ~old.cancelled
    BY <2>1, ConnectionOpen
  <2>3. PICK w : /\ ev' = [ev EXCEPT ![e] = w] /\ w.at = old.at
                 /\ \/ w.buf = old.buf /\ w.pc = "send" /\ dropped' = dropped
                    \/ dropped' = dropped \cup ToSet(old.buf)
    BY <2>1, <2>2, FitsFailed
  <2>4. Owned(old, t) => Owned(w, t) \/ t \in dropped'
    <3>1. CASE w.buf = old.buf /\ w.pc = "send"
      <4>1. Back(w) = Back(old)
        BY <2>1, <2>3, <3>1 DEF Back
      <4> QED
        BY <3>1, <4>1, OwnedSame
    <3>2. CASE dropped' = dropped \cup ToSet(old.buf)
      BY <3>2 DEF Owned, ToSet
    <3> QED
      BY <2>3, <3>1, <3>2
  <2>5. dropped \subseteq dropped'
    BY <2>3
  <2> QED
    BY <1>1, <2>1, <2>3, <2>4, <2>5, EvalerKeeps
<1>7. CASE EvalerGetsAnswer(e)
  <2>1. /\ UNCHANGED <<fz, testcaseChan, dropped>>
        /\ evaluated' = [x \in Testcase |->
             evaluated[x] + Cardinality({i \in DOMAIN old.buf : old.buf[i] = x})]
    BY <1>7 DEF EvalerGetsAnswer, net
  <2>2. PICK w : ev' = [ev EXCEPT ![e] = w]
    BY <1>7, FitsAnswered
  <2> DEFINE S == {i \in DOMAIN old.buf : old.buf[i] = t}
  <2>3. evaluated[t] \in Nat /\ evaluated'[t] = evaluated[t] + Cardinality(S)
    BY <1>2, <2>1, Others
  <2>4. IsFiniteSet(S) /\ Cardinality(S) \in Nat
    BY <1>0, BufferCount
  <2>5. Owned(old, t) => S # {}
    BY DEF Owned
  <2>6. S # {} => Cardinality(S) # 0
    <3> HIDE DEF S
    <3> QED
      BY <2>4, FS_EmptySet
  <2> HIDE DEF S, old
  <2>7. /\ Owned(old, t) => evaluated'[t] # 0
        /\ evaluated[t] # 0 => evaluated'[t] # 0
    BY <2>3, <2>4, <2>5, <2>6
  <2> QED
    BY <1>1, <2>1, <2>2, <2>7, EvalerKeeps DEF old
<1>8. CASE EvalerResends(e)
  <2>1. /\ UNCHANGED <<fz, evaluated, dropped>>
        /\ testcaseChan' = Append(testcaseChan, old.buf[old.at])
    BY <1>8 DEF EvalerResends, results
  <2>2. PICK w : /\ ev' = [ev EXCEPT ![e] = w]
                 /\ w.buf = old.buf /\ old.pc = "resend" /\ Back(w) = old.at
                 /\ old.at \in DOMAIN old.buf /\ old.buf[old.at] \in Testcase
    BY <1>8, FitsResent
  <2>3. Has(testcaseChan', t) <=> Has(testcaseChan, t) \/ old.buf[old.at] = t
    BY <1>0, <2>1, <2>2, HasAppend
  <2>4. Back(old) = old.at - 1
    BY <2>2 DEF Back
  <2> HIDE DEF old
  <2>5. Owned(old, t) => Owned(w, t) \/ old.buf[old.at] = t
    BY <1>0, <2>2, <2>4 DEF Owned
  <2> QED
    BY <1>1, <2>1, <2>2, <2>3, <2>5, EvalerKeeps DEF old
<1> QED
  BY <1>3, <1>4, <1>5, <1>6, <1>7, <1>8 DEF FlushStep

LEMMA NextKept ==
  ASSUME Types, \A t \in Accepted : Kept(t), [Next]_vars, NEW t, t \in Accepted'
  PROVE  Kept(t)'
<1>1. CASE UNCHANGED <<fz, ev, testcaseChan, results>> /\ t \in Accepted
  BY <1>1 DEF Kept, InWorker, results
<1>2. CASE \E f \in Fuzzer : NodeSendsTestcase(f)
  BY <1>1, <1>2, NodeSendsAccepts DEF NodeSendsTestcase
<1>3. CASE \E e \in Evaler : \E kind \in Answers : NodeAnswers(e, kind)
  BY <1>1, <1>3, NodeAnswersAccepts DEF NodeAnswers
<1>4. CASE \E c \in Conn : ReaderReads(c)
  BY <1>1, <1>4, ReaderAccepts DEF ReaderReads
<1>5. CASE UNCHANGED vars \/ EventLoopTakes \/ \E c \in Conn : NodeLeaves(c) \/ ReaderCloses(c)
  <2>1. UNCHANGED <<sent, wire, hand, fz, ev, testcaseChan, results>>
    BY <1>5 DEF vars, net, EventLoopTakes, NodeLeaves, ReaderCloses
  <2> QED
    BY <1>1, <2>1, NothingTaken
<1>6. CASE \E f \in Fuzzer : FuzzerStep(f)
  BY <1>6, FuzzerKept
<1>7. CASE \E e \in Evaler : \/ EvalerTicks(e) \/ EvalerReceives(e) \/ EvalerExits(e)
                             \/ FlushStep(e)
  BY <1>7, EvalerKept
<1> QED
  BY <1>2, <1>3, <1>4, <1>5, <1>6, <1>7 DEF Next

-----------------------------------------------------------------------------
(* Before the first stop there is one copy *)

LEMMA SingleAppend ==
  ASSUME NEW S, NEW s \in Seq(S), NEW x \in S, NEW t, Single(s, t), x = t => ~Has(s, t)
  PROVE  Single(Append(s, x), t)
<1>1. /\ DOMAIN Append(s, x) = 1..(Len(s) + 1) /\ DOMAIN s = 1..Len(s)
      /\ Len(s) \in Nat
      /\ \A i \in 1..Len(s) : Append(s, x)[i] = s[i]
      /\ Append(s, x)[Len(s) + 1] = x
  BY AppendProperties, LenProperties
<1> QED
  BY <1>1 DEF Has, Single

LEMMA SingleTail ==
  ASSUME NEW S, NEW s \in Seq(S), s # <<>>, NEW t, Single(s, t)
  PROVE  Single(Tail(s), t) /\ (Head(s) = t => ~Has(Tail(s), t))
<1>1. /\ DOMAIN s = 1..Len(s) /\ Len(s) \in Nat
      /\ DOMAIN Tail(s) = 1..(Len(s) - 1)
      /\ \A i \in 1..(Len(s) - 1) : Tail(s)[i] = s[i + 1]
      /\ Head(s) = s[1]
  <2>1. Tail(s) \in Seq(S) /\ Len(Tail(s)) = Len(s) - 1
    BY HeadTailProperties
  <2> QED
    BY <2>1, HeadTailProperties, LenProperties
<1>2. \A i \in DOMAIN Tail(s) : i + 1 \in DOMAIN s /\ i + 1 # 1 /\ 1 \in DOMAIN s
  BY <1>1
<1>3. Single(Tail(s), t)
  <2> SUFFICES ASSUME NEW i \in DOMAIN Tail(s), NEW j \in DOMAIN Tail(s),
                      Tail(s)[i] = t, Tail(s)[j] = t
               PROVE  i = j
    BY DEF Single
  <2>1. s[i + 1] = t /\ s[j + 1] = t
    BY <1>1
  <2>2. i + 1 = j + 1
    BY <1>2, <2>1 DEF Single
  <2> QED
    BY <1>1, <2>2
<1>4. Head(s) = t => ~Has(Tail(s), t)
  BY <1>1, <1>2 DEF Single, Has
<1> QED
  BY <1>3, <1>4

\* The same for the messages on the wire.
LEMMA TcAppend ==
  ASSUME NEW S, NEW s \in Seq(S), NEW x \in S, NEW t
  PROVE  /\ HasTc(Append(s, x), t) <=> HasTc(s, t) \/ x.tc = t
         /\ SingleTc(s, t) /\ (x.tc = t => ~HasTc(s, t)) => SingleTc(Append(s, x), t)
<1>1. /\ DOMAIN Append(s, x) = 1..(Len(s) + 1) /\ DOMAIN s = 1..Len(s)
      /\ Len(s) \in Nat
      /\ \A i \in 1..Len(s) : Append(s, x)[i] = s[i]
      /\ Append(s, x)[Len(s) + 1] = x
  BY AppendProperties, LenProperties
<1>2. HasTc(Append(s, x), t) <=> HasTc(s, t) \/ x.tc = t
  BY <1>1 DEF HasTc
<1>3. SingleTc(s, t) /\ (x.tc = t => ~HasTc(s, t)) => SingleTc(Append(s, x), t)
  BY <1>1 DEF HasTc, SingleTc
<1> QED
  BY <1>2, <1>3

LEMMA TcTail ==
  ASSUME NEW S, NEW s \in Seq(S), s # <<>>, NEW t, SingleTc(s, t)
  PROVE  /\ HasTc(s, t) <=> HasTc(Tail(s), t) \/ Head(s).tc = t
         /\ SingleTc(Tail(s), t)
         /\ Head(s).tc = t => ~HasTc(Tail(s), t)
<1>1. /\ DOMAIN s = 1..Len(s) /\ Len(s) \in Nat \ {0}
      /\ DOMAIN Tail(s) = 1..(Len(s) - 1)
      /\ \A i \in 1..(Len(s) - 1) : Tail(s)[i] = s[i + 1]
      /\ Head(s) = s[1]
  <2>1. Tail(s) \in Seq(S) /\ Len(Tail(s)) = Len(s) - 1
    BY HeadTailProperties
  <2> QED
    BY <2>1, HeadTailProperties, LenProperties, EmptySeq
<1>2. \A i \in DOMAIN Tail(s) : i + 1 \in DOMAIN s /\ i + 1 # 1 /\ 1 \in DOMAIN s
                                /\ Tail(s)[i] = s[i + 1]
  BY <1>1
<1>3. \A i \in DOMAIN s : i # 1 => i - 1 \in DOMAIN Tail(s) /\ Tail(s)[i - 1] = s[i]
  BY <1>1
<1>4. HasTc(s, t) <=> HasTc(Tail(s), t) \/ Head(s).tc = t
  <2>1. ASSUME NEW i \in DOMAIN s, s[i].tc = t, i # 1 PROVE HasTc(Tail(s), t)
    BY <1>3, <2>1 DEF HasTc
  <2>2. ASSUME NEW i \in DOMAIN Tail(s), Tail(s)[i].tc = t PROVE HasTc(s, t)
    BY <1>2, <2>2 DEF HasTc
  <2>3. 1 \in DOMAIN s
    BY <1>1
  <2> QED
    BY <1>1, <2>1, <2>2, <2>3 DEF HasTc
<1>5. SingleTc(Tail(s), t)
  <2> SUFFICES ASSUME NEW i \in DOMAIN Tail(s), NEW j \in DOMAIN Tail(s),
                      Tail(s)[i].tc = t, Tail(s)[j].tc = t
               PROVE  i = j
    BY DEF SingleTc
  <2>1. s[i + 1].tc = t /\ s[j + 1].tc = t
    BY <1>2
  <2>2. i + 1 = j + 1
    BY <1>2, <2>1 DEF SingleTc
  <2> QED
    BY <1>1, <2>2
<1>6. Head(s).tc = t => ~HasTc(Tail(s), t)
  BY <1>1, <1>2 DEF SingleTc, HasTc
<1> QED
  BY <1>4, <1>5, <1>6

LEMMA HolderForms ==
  ASSUME NEW p \in Holder
  PROVE  \/ \E f \in Fuzzer : p = <<"worker", f>>
         \/ \E c \in Conn : p = <<"hand", c>> \/ p = <<"wire", c>>
         \/ \E e \in Evaler : p = <<"buffer", e>>
         \/ p \in {<<"queue", "master">>, <<"database", "master">>, <<"dropped", "master">>}
  BY DEF Holder

LEMMA HoldsIs ==
  ASSUME NEW t
  PROVE  /\ \A f : Holds(<<"worker", f>>, t) <=> fz[f].tc = t
         /\ \A c : Holds(<<"hand", c>>, t) <=> hand[c].tc = t
         /\ \A c : Holds(<<"wire", c>>, t) <=> HasTc(wire[c], t)
         /\ \A e : Holds(<<"buffer", e>>, t) <=> Has(ev[e].buf, t)
         /\ Holds(<<"queue", "master">>, t) <=> Has(testcaseChan, t)
         /\ Holds(<<"database", "master">>, t) <=> evaluated[t] # 0
         /\ Holds(<<"dropped", "master">>, t) <=> t \in dropped
  BY DEF Holds

LEMMA HoldsIsNext ==
  ASSUME NEW t
  PROVE  /\ \A f : Holds(<<"worker", f>>, t)' <=> fz'[f].tc = t
         /\ \A c : Holds(<<"hand", c>>, t)' <=> hand'[c].tc = t
         /\ \A c : Holds(<<"wire", c>>, t)' <=> HasTc(wire'[c], t)
         /\ \A e : Holds(<<"buffer", e>>, t)' <=> Has(ev'[e].buf, t)
         /\ Holds(<<"queue", "master">>, t)' <=> Has(testcaseChan', t)
         /\ Holds(<<"database", "master">>, t)' <=> evaluated'[t] # 0
         /\ Holds(<<"dropped", "master">>, t)' <=> t \in dropped'
  BY DEF Holds

\* Only np may get what it did not hold before.
OnlyGets(np, t) ==
  /\ \A f \in Fuzzer : fz'[f].tc = t => fz[f].tc = t \/ np = <<"worker", f>>
  /\ \A c \in Conn : hand'[c].tc = t => hand[c].tc = t \/ np = <<"hand", c>>
  /\ \A c \in Conn : HasTc(wire'[c], t) => HasTc(wire[c], t) \/ np = <<"wire", c>>
  /\ \A e \in Evaler : Has(ev'[e].buf, t) => Has(ev[e].buf, t) \/ np = <<"buffer", e>>
  /\ Has(testcaseChan', t) => Has(testcaseChan, t) \/ np = <<"queue", "master">>
  /\ evaluated'[t] # 0 => evaluated[t] # 0 \/ np = <<"database", "master">>
  /\ t \in dropped' => t \in dropped \/ np = <<"dropped", "master">>

\* What moves from one holder to another, or is new, has one holder.
LEMMA Moves ==
  ASSUME NEW t, Once(t), NEW op \in Holder, NEW np \in Holder, OnlyGets(np, t),
         t[2] <= sent[t[1]] => t[2] <= sent'[t[1]],
         \/ ~Holds(np, t)' \/ Holds(np, t)
         \/ Holds(op, t) /\ ~Holds(op, t)'
         \/ t[2] <= sent'[t[1]] /\ \A p \in Holder : ~Holds(p, t)
  PROVE  OneHolder(t)' /\ WasSent(t)'
<1>1. \A p \in Holder : Holds(p, t)' => Holds(p, t) \/ p = np
  <2> SUFFICES ASSUME NEW p \in Holder, Holds(p, t)' PROVE Holds(p, t) \/ p = np
    OBVIOUS
  <2>1. CASE \E f \in Fuzzer : p = <<"worker", f>>
    <3>1. PICK f \in Fuzzer : p = <<"worker", f>>
      BY <2>1
    <3>2. fz'[f].tc = t => fz[f].tc = t \/ np = p
      BY <3>1 DEF OnlyGets
    <3> QED
      BY <3>1, <3>2, HoldsIs, HoldsIsNext
  <2>2. CASE \E c \in Conn : p = <<"hand", c>> \/ p = <<"wire", c>>
    <3>1. PICK c \in Conn : p = <<"hand", c>> \/ p = <<"wire", c>>
      BY <2>2
    <3>2. CASE p = <<"hand", c>>
      <4>1. hand'[c].tc = t => hand[c].tc = t \/ np = p
        BY <3>2 DEF OnlyGets
      <4> QED
        BY <3>2, <4>1, HoldsIs, HoldsIsNext
    <3>3. CASE p = <<"wire", c>>
      <4>1. HasTc(wire'[c], t) => HasTc(wire[c], t) \/ np = p
        BY <3>3 DEF OnlyGets
      <4> QED
        BY <3>3, <4>1, HoldsIs, HoldsIsNext
    <3> QED
      BY <3>1, <3>2, <3>3
  <2>3. CASE \E e \in Evaler : p = <<"buffer", e>>
    <3>1. PICK e \in Evaler : p = <<"buffer", e>>
      BY <2>3
    <3>2. Has(ev'[e].buf, t) => Has(ev[e].buf, t) \/ np = p
      BY <3>1 DEF OnlyGets
    <3> QED
      BY <3>1, <3>2, HoldsIs, HoldsIsNext
  <2>4. CASE p \in {<<"queue", "master">>, <<"database", "master">>, <<"dropped", "master">>}
    BY <2>4, HoldsIs, HoldsIsNext DEF OnlyGets
  <2> QED
    BY <2>1, <2>2, <2>3, <2>4, HolderForms
<1>2. OneHolder(t)'
  BY <1>1 DEF OneHolder, Once
<1>3. WasSent(t)'
  BY <1>1 DEF WasSent, Once
<1> QED
  BY <1>2, <1>3

LEMMA HolderIn ==
  /\ \A f \in Fuzzer : <<"worker", f>> \in Holder
  /\ \A c \in Conn : <<"hand", c>> \in Holder /\ <<"wire", c>> \in Holder
  /\ \A e \in Evaler : <<"buffer", e>> \in Holder
  /\ {<<"queue", "master">>, <<"database", "master">>, <<"dropped", "master">>} \subseteq Holder
  BY DEF Holder

\* A step that moves no testcase.
LEMMA OnceUnmoved ==
  ASSUME NEW t, Once(t), UNCHANGED <<sent, testcaseChan, evaluated, dropped>>,
         \A f \in Fuzzer : fz'[f].tc = fz[f].tc,
         \A c \in Conn : hand'[c].tc = t => hand[c].tc = t,
         \A c \in Conn : HasTc(wire'[c], t) => HasTc(wire[c], t),
         \A c \in Conn : SingleTc(wire'[c], t),
         \A e \in Evaler : ev'[e].buf = ev[e].buf
  PROVE  Once(t)'
<1> DEFINE np == <<"queue", "master">>
<1>1. np \in Holder
  BY HolderIn
<1>2. Holds(np, t)' <=> Holds(np, t)
  BY HoldsIs, HoldsIsNext
<1> HIDE DEF np
<1>3. OnlyGets(np, t)
  BY DEF OnlyGets
<1>4. OneHolder(t)' /\ WasSent(t)'
  BY <1>1, <1>2, <1>3, Moves
<1>5. NotTwice(t)'
  BY DEF NotTwice, Once
<1> QED
  BY <1>4, <1>5 DEF Once

LEMMA OnceNodeSends ==
  ASSUME Types, NEW f \in Fuzzer, NodeSendsTestcase(f), NEW t \in Testcase, Once(t)
  PROVE  Once(t)'
<1> DEFINE c == ConnOf[f]
           m == [to |-> f, tc |-> <<f, sent[f] + 1>>, kind |-> "testcase"]
           np == <<"wire", c>>
<1>1. /\ sent' = [sent EXCEPT ![f] = @ + 1]
      /\ wire' = [wire EXCEPT ![c] = Append(@, m)]
      /\ UNCHANGED <<hand, fz, ev, testcaseChan, evaluated, dropped>>
  BY DEF NodeSendsTestcase, results
<1>2. c \in Conn /\ wire \in [Conn -> Seq(Message)] /\ sent[f] \in 0..MaxSent
      /\ sent \in [Fuzzer -> 0..MaxSent]
  BY Bounds DEF Types, TypeOK
<1>3. m \in Message /\ m.tc = <<f, sent[f] + 1>>
  <2>1. sent[f] + 1 \in 1..MaxSent
    BY <1>2, Bounds DEF NodeSendsTestcase
  <2> QED
    BY <2>1 DEF Message, Testcase
<1>4. t[2] \in Nat /\ sent[t[1]] \in Nat /\ sent'[t[1]] \in Nat /\ sent[t[1]] <= sent'[t[1]]
      /\ (t[1] = f => sent'[t[1]] = sent[f] + 1)
  <2> HIDE DEF m, c
  <2>1. t[1] \in Fuzzer /\ t[2] \in Nat
    BY TestcaseOf
  <2>2. \A g \in Fuzzer : sent[g] \in 0..MaxSent /\ sent[g] \in Nat
    BY <1>2, Bounds
  <2>3. sent'[f] = sent[f] + 1 /\ \A g \in Fuzzer \ {f} : sent'[g] = sent[g]
    BY <1>1, <1>2
  <2> QED
    BY <2>1, <2>2, <2>3
<1>5. t = m.tc => t[1] = f /\ t[2] = sent[f] + 1
  BY <1>3
<1>6. np \in Holder
  BY <1>2, HolderIn
<1>7. Holds(np, t) <=> HasTc(wire[c], t)
  BY HoldsIs
<1>8. Holds(np, t)' <=> HasTc(wire'[c], t)
  BY HoldsIsNext
<1>9. \A d \in Conn : np = <<"wire", d>> <=> d = c
  OBVIOUS
<1> HIDE DEF m, np, c
<1>10. /\ wire'[c] = Append(wire[c], m) /\ wire[c] \in Seq(Message)
       /\ \A d \in Conn : d # c => wire'[d] = wire[d]
  BY <1>1, <1>2
<1>11. /\ HasTc(wire'[c], t) <=> HasTc(wire[c], t) \/ m.tc = t
       /\ SingleTc(wire[c], t) /\ (m.tc = t => ~HasTc(wire[c], t)) => SingleTc(wire'[c], t)
  <2>1. /\ HasTc(Append(wire[c], m), t) <=> HasTc(wire[c], t) \/ m.tc = t
        /\ SingleTc(wire[c], t) /\ (m.tc = t => ~HasTc(wire[c], t)) =>
             SingleTc(Append(wire[c], m), t)
    <3>1. m \in Message
      BY <1>3
    <3> QED
      BY <1>10, <3>1, TcAppend
  <2> QED
    BY <1>10, <2>1
<1>12. m.tc = t => t[2] <= sent'[t[1]] /\ \A p \in Holder : ~Holds(p, t)
  BY <1>2, <1>4, <1>5 DEF Once, WasSent
<1>13. OnlyGets(np, t)
  BY <1>1, <1>9, <1>10 DEF OnlyGets
<1>14. OneHolder(t)' /\ WasSent(t)'
  BY <1>4, <1>6, <1>7, <1>8, <1>11, <1>12, <1>13, Moves
<1>15. NotTwice(t)'
  <2>1. m.tc = t => ~HasTc(wire[c], t)
    BY <1>6, <1>7, <1>12
  <2>2. \A d \in Conn : SingleTc(wire'[d], t)
    BY <1>2, <1>10, <1>11, <2>1 DEF Once, NotTwice
  <2> QED
    BY <1>1, <2>2 DEF Once, NotTwice
<1> QED
  BY <1>14, <1>15 DEF Once

LEMMA OnceNodeAnswers ==
  ASSUME Types, NEW e \in Evaler, NEW kind \in Answers, NodeAnswers(e, kind),
         NEW t \in Testcase, Once(t)
  PROVE  Once(t)'
<1> DEFINE c == ConnOf[e]
           m == [to |-> e, tc |-> <<>>, kind |-> kind]
<1>1. /\ wire' = [wire EXCEPT ![c] = Append(@, m)]
      /\ UNCHANGED <<sent, hand, fz, ev, testcaseChan, evaluated, dropped>>
  BY DEF NodeAnswers, results
<1>2. c \in Conn /\ wire \in [Conn -> Seq(Message)]
  BY Bounds DEF Types, TypeOK
<1>3. m \in Message /\ m.tc # t
  BY TestcaseOf DEF Message
<1> HIDE DEF m, c
<1>4. /\ wire'[c] = Append(wire[c], m) /\ wire[c] \in Seq(Message)
      /\ \A d \in Conn : d # c => wire'[d] = wire[d]
  BY <1>1, <1>2
<1>5. /\ HasTc(wire'[c], t) <=> HasTc(wire[c], t)
      /\ SingleTc(wire[c], t) => SingleTc(wire'[c], t)
  BY <1>3, <1>4, TcAppend
<1>6. \A d \in Conn : /\ HasTc(wire'[d], t) => HasTc(wire[d], t)
                      /\ SingleTc(wire'[d], t)
  BY <1>4, <1>5 DEF Once, NotTwice
<1> QED
  BY <1>1, <1>6, OnceUnmoved

\* From the wire into the reader's hand; what cannot be decoded is no testcase.
LEMMA OnceReads ==
  ASSUME Types, NEW c \in Conn, ReaderReads(c), NEW t \in Testcase, Once(t)
  PROVE  Once(t)'
<1> DEFINE m == Head(wire[c])
           np == <<"hand", c>>
           op == <<"wire", c>>
<1>1. /\ wire[c] # <<>>
      /\ hand' = IF m.kind = "undecodable" THEN hand ELSE [hand EXCEPT ![c] = m]
      /\ wire' = [wire EXCEPT ![c] = Tail(@)]
      /\ UNCHANGED <<sent, fz, ev, testcaseChan, evaluated, dropped>>
  BY DEF ReaderReads, results
<1>2. wire[c] \in Seq(Message) /\ wire \in [Conn -> Seq(Message)]
      /\ hand \in [Conn -> Message \cup {NoMsg}]
  BY DEF Types, TypeOK
<1>3. SingleTc(wire[c], t)
  BY DEF Once, NotTwice
<1>4. /\ HasTc(wire[c], t) <=> HasTc(Tail(wire[c]), t) \/ m.tc = t
      /\ SingleTc(Tail(wire[c]), t)
      /\ m.tc = t => ~HasTc(Tail(wire[c]), t)
  BY <1>1, <1>2, <1>3, TcTail
<1>5. m \in Message
  BY <1>1, <1>2, HeadTailProperties
<1>6. np \in Holder /\ op \in Holder
  BY HolderIn
<1>7. (Holds(np, t)' <=> hand'[c].tc = t) /\ (Holds(op, t)' <=> HasTc(wire'[c], t))
  BY HoldsIsNext
<1>8. (Holds(np, t) <=> hand[c].tc = t) /\ (Holds(op, t) <=> HasTc(wire[c], t))
  BY HoldsIs
<1> HIDE DEF m, np, op
<1>9. m.kind = "undecodable" => m.tc # t
  BY <1>5, TestcaseOf DEF Message
<1>10. /\ wire'[c] = Tail(wire[c])
       /\ \A d \in Conn : d # c => wire'[d] = wire[d] /\ hand'[d] = hand[d]
       /\ hand'[c] = IF m.kind = "undecodable" THEN hand[c] ELSE m
  BY <1>1, <1>2
<1>11. OnlyGets(np, t)
  BY <1>1, <1>4, <1>10 DEF OnlyGets, np
<1>12. \/ ~Holds(np, t)' \/ Holds(np, t)
       \/ Holds(op, t) /\ ~Holds(op, t)'
  BY <1>4, <1>7, <1>8, <1>9, <1>10
<1>13. OneHolder(t)' /\ WasSent(t)'
  BY <1>1, <1>6, <1>11, <1>12, Moves
<1>14. NotTwice(t)'
  BY <1>1, <1>4, <1>10 DEF Once, NotTwice
<1> QED
  BY <1>13, <1>14 DEF Once

\* From the reader's hand to the fuzzer's worker.
LEMMA OnceFuzzerGets ==
  ASSUME Types, NEW f \in Fuzzer, FuzzerGets(f), NEW t \in Testcase, Once(t)
  PROVE  Once(t)'
<1> DEFINE c == ConnOf[f]
           np == <<"worker", f>>
           op == <<"hand", c>>
<1>1. /\ fz' = [fz EXCEPT ![f] = [pc |-> "push", tc |-> hand[c].tc]]
      /\ hand' = [hand EXCEPT ![c] = NoMsg]
      /\ UNCHANGED <<sent, wire, testcaseChan, ev, evaluated, dropped>>
  BY DEF FuzzerGets, net, results
<1>2. c \in Conn /\ hand'[c] = NoMsg /\ fz'[f].tc = hand[c].tc
      /\ \A d \in Conn : d # c => hand'[d] = hand[d]
      /\ \A g \in Fuzzer : g # f => fz'[g] = fz[g]
  BY <1>1, Bounds DEF Types, TypeOK
<1>3. NoMsg.tc # t
  BY TestcaseOf DEF NoMsg
<1>4. np \in Holder /\ op \in Holder
  BY <1>2, HolderIn
<1>5. (Holds(np, t)' <=> fz'[f].tc = t) /\ (Holds(op, t)' <=> hand'[c].tc = t)
  BY HoldsIsNext
<1>6. (Holds(np, t) <=> fz[f].tc = t) /\ (Holds(op, t) <=> hand[c].tc = t)
  BY HoldsIs
<1> HIDE DEF np, op, c
<1>7. OnlyGets(np, t)
  BY <1>1, <1>2, <1>3 DEF OnlyGets, np
<1>8. ~Holds(np, t)' \/ (Holds(op, t) /\ ~Holds(op, t)')
  BY <1>2, <1>3, <1>5, <1>6
<1>9. OneHolder(t)' /\ WasSent(t)'
  BY <1>1, <1>4, <1>7, <1>8, Moves
<1>10. NotTwice(t)'
  BY <1>1 DEF Once, NotTwice
<1> QED
  BY <1>9, <1>10 DEF Once

\* From the fuzzer's worker into the channel.
LEMMA OncePushed ==
  ASSUME Types, NEW f \in Fuzzer, fz[f].pc \in {"push", "blocked"},
         fz' = [fz EXCEPT ![f] = [pc |-> "recv", tc |-> <<>>]],
         testcaseChan' = Append(testcaseChan, fz[f].tc),
         UNCHANGED <<sent, wire, hand, ev, evaluated, dropped>>,
         NEW t \in Testcase, Once(t)
  PROVE  Once(t)'
<1> DEFINE np == <<"queue", "master">>
           op == <<"worker", f>>
<1>1. fz'[f].tc = <<>> /\ \A g \in Fuzzer : g # f => fz'[g] = fz[g]
  BY DEF Types, TypeOK
<1>2. fz[f].tc \in Testcase /\ testcaseChan \in Seq(Testcase)
  BY DEF Types, TypeOK, Workers, FuzzerType
<1>3. t # <<>>
  BY TestcaseOf
<1>4. np \in Holder /\ op \in Holder
  BY HolderIn
<1>5. (Holds(np, t)' <=> Has(testcaseChan', t)) /\ (Holds(op, t)' <=> fz'[f].tc = t)
  BY HoldsIsNext
<1>6. (Holds(np, t) <=> Has(testcaseChan, t)) /\ (Holds(op, t) <=> fz[f].tc = t)
  BY HoldsIs
<1>7. np # op
  OBVIOUS
<1>8. Has(testcaseChan', t) <=> Has(testcaseChan, t) \/ fz[f].tc = t
  BY <1>2, HasAppend
<1>9. fz[f].tc = t => ~Has(testcaseChan, t)
  BY <1>4, <1>6, <1>7 DEF Once, OneHolder
<1>10. Single(testcaseChan', t)
  BY <1>2, <1>9, SingleAppend DEF Once, NotTwice
<1>11. OnlyGets(np, t)
  BY <1>1, <1>3 DEF OnlyGets
<1> HIDE DEF np, op
<1>12. Holds(np, t)' => Holds(np, t) \/ (Holds(op, t) /\ ~Holds(op, t)')
  BY <1>1, <1>3, <1>5, <1>6, <1>8
<1>13. OneHolder(t)' /\ WasSent(t)'
  BY <1>4, <1>11, <1>12, Moves
<1>14. NotTwice(t)'
  BY <1>10 DEF Once, NotTwice
<1> QED
  BY <1>13, <1>14 DEF Once

LEMMA OnceFuzzer ==
  ASSUME Types, NEW f \in Fuzzer, FuzzerStep(f), NEW t \in Testcase, Once(t)
  PROVE  Once(t)'
<1>0. fz \in [Fuzzer -> FuzzerType] /\ fz[f] \in FuzzerType
  BY DEF Types, TypeOK
<1>1. ASSUME NEW q, fz' = [fz EXCEPT ![f].pc = q],
             UNCHANGED <<sent, wire, hand, ev, testcaseChan, evaluated, dropped>>
      PROVE  Once(t)'
  <2>1. \A g \in Fuzzer : fz'[g].tc = fz[g].tc
    BY <1>0, <1>1 DEF FuzzerType
  <2>2. \A c \in Conn : SingleTc(wire'[c], t)
    BY <1>1 DEF Once, NotTwice
  <2> QED
    BY <1>1, <2>1, <2>2, OnceUnmoved
<1>2. CASE FuzzerGets(f)
  BY <1>2, OnceFuzzerGets
<1>3. CASE FuzzerSeesClosed(f)
  BY <1>1, <1>3 DEF FuzzerSeesClosed, net, results
<1>4. CASE FuzzerPushes(f) /\ QueueFull
  BY <1>1, <1>4 DEF FuzzerPushes, net, results
<1>5. CASE (FuzzerPushes(f) /\ ~QueueFull) \/ FuzzerPushesBlocked(f)
  <2>1. /\ fz[f].pc \in {"push", "blocked"}
        /\ fz' = [fz EXCEPT ![f] = [pc |-> "recv", tc |-> <<>>]]
        /\ testcaseChan' = Append(testcaseChan, fz[f].tc)
        /\ UNCHANGED <<sent, wire, hand, ev, evaluated, dropped>>
    BY <1>5 DEF FuzzerPushes, FuzzerPushesBlocked, net, results
  <2> QED
    BY <2>1, OncePushed
<1>6. CASE FuzzerPosts(f)
  <2>1. /\ fz' = [fz EXCEPT ![f].pc = IF fz[f].pc = "hint" THEN "blocked" ELSE "done"]
        /\ UNCHANGED <<sent, wire, hand, ev, testcaseChan, evaluated, dropped>>
    BY <1>0, <1>6 DEF FuzzerPosts, net, results
  <2> QED
    BY <1>1, <2>1
<1> QED
  BY <1>2, <1>3, <1>4, <1>5, <1>6 DEF FuzzerStep

\* From the channel into a buffer.
LEMMA OnceReceived ==
  ASSUME Types, NEW e \in Evaler, EvalerReceives(e), NEW t \in Testcase, Once(t)
  PROVE  Once(t)'
<1> DEFINE h == Head(testcaseChan)
           np == <<"buffer", e>>
           op == <<"queue", "master">>
<1>1. /\ UNCHANGED <<sent, wire, hand, fz, evaluated, dropped>>
      /\ testcaseChan # <<>> /\ testcaseChan' = Tail(testcaseChan)
  BY DEF EvalerReceives, net, results
<1>2. PICK w : /\ ev' = [ev EXCEPT ![e] = w]
               /\ w.buf = Append(ev[e].buf, h) /\ h \in Testcase
  BY FitsReceived
<1>3. ev'[e].buf = Append(ev[e].buf, h) /\ \A d \in Evaler : d # e => ev'[d] = ev[d]
  BY <1>2 DEF Types, TypeOK
<1>4. ev[e].buf \in Seq(Testcase) /\ testcaseChan \in Seq(Testcase)
  BY EvalerFits, Others DEF Fits, EvalerType
<1>5. np \in Holder /\ op \in Holder /\ np # op
  BY HolderIn
<1>6. (Holds(np, t)' <=> Has(ev'[e].buf, t)) /\ (Holds(op, t)' <=> Has(testcaseChan', t))
  BY HoldsIsNext
<1>7. (Holds(np, t) <=> Has(ev[e].buf, t)) /\ (Holds(op, t) <=> Has(testcaseChan, t))
  BY HoldsIs
<1>8. /\ Has(testcaseChan, t) <=> Has(testcaseChan', t) \/ h = t
      /\ Single(testcaseChan', t) /\ (h = t => ~Has(testcaseChan', t))
  BY <1>1, <1>4, HasTail, SingleTail DEF Once, NotTwice
<1> HIDE DEF h
<1>9. Has(ev'[e].buf, t) <=> Has(ev[e].buf, t) \/ h = t
  <2>1. h \in Testcase /\ ev[e].buf \in Seq(Testcase)
    BY <1>2, <1>4
  <2>2. Has(Append(ev[e].buf, h), t) <=> Has(ev[e].buf, t) \/ h = t
    BY <2>1, HasAppend
  <2> QED
    BY <1>3, <2>2
<1>10. h = t => ~Has(ev[e].buf, t)
  BY <1>5, <1>7, <1>8 DEF Once, OneHolder
<1>11. Single(ev'[e].buf, t)
  <2>1. Single(ev[e].buf, t) /\ h \in Testcase /\ ev[e].buf \in Seq(Testcase)
    BY <1>2, <1>4 DEF Once, NotTwice
  <2>2. Single(Append(ev[e].buf, h), t)
    BY <1>10, <2>1, SingleAppend
  <2> QED
    BY <1>3, <2>2
<1>12. OnlyGets(np, t)
  BY <1>1, <1>3, <1>8 DEF OnlyGets
<1> HIDE DEF np, op
<1>13. ~Holds(np, t)' \/ Holds(np, t) \/ (Holds(op, t) /\ ~Holds(op, t)')
  BY <1>6, <1>7, <1>8, <1>9
<1>14. OneHolder(t)' /\ WasSent(t)'
  BY <1>1, <1>5, <1>12, <1>13, Moves
<1>15. NotTwice(t)'
  BY <1>1, <1>3, <1>8, <1>11 DEF Once, NotTwice
<1> QED
  BY <1>14, <1>15 DEF Once

\* The hand of a reader that gives its message away holds no testcase.
LEMMA HandGiven ==
  ASSUME Types, NEW e \in Evaler, NEW t \in Testcase,
         hand' = hand \/ hand' = [hand EXCEPT ![ConnOf[e]] = NoMsg]
  PROVE  \A c \in Conn : hand'[c].tc = t => hand[c].tc = t
<1>1. NoMsg.tc # t
  BY TestcaseOf DEF NoMsg
<1> QED
  BY <1>1 DEF Types, TypeOK

LEMMA EmptyHas ==
  ASSUME NEW t
  PROVE  ~Has(<<>>, t) /\ Single(<<>>, t)
  BY DEF Has, Single

\* From a buffer to what is given up.
LEMMA OnceDropped ==
  ASSUME Types, NEW e \in Evaler, NEW w, ev' = [ev EXCEPT ![e] = w], w.buf = <<>>,
         dropped' = dropped \cup ToSet(ev[e].buf),
         UNCHANGED <<sent, wire, fz, testcaseChan, evaluated>>,
         hand' = hand \/ hand' = [hand EXCEPT ![ConnOf[e]] = NoMsg],
         NEW t \in Testcase, Once(t)
  PROVE  Once(t)'
<1> DEFINE np == <<"dropped", "master">>
           op == <<"buffer", e>>
<1>1. ev'[e].buf = <<>> /\ \A d \in Evaler : d # e => ev'[d] = ev[d]
  BY DEF Types, TypeOK
<1>2. np \in Holder /\ op \in Holder
  BY HolderIn
<1>3. (Holds(np, t)' <=> t \in dropped') /\ (Holds(op, t)' <=> Has(ev'[e].buf, t))
  BY HoldsIsNext
<1>4. (Holds(np, t) <=> t \in dropped) /\ (Holds(op, t) <=> Has(ev[e].buf, t))
  BY HoldsIs
<1>5. t \in dropped' => t \in dropped \/ Has(ev[e].buf, t)
  BY DEF ToSet, Has
<1>6. OnlyGets(np, t)
  BY <1>1, EmptyHas, HandGiven DEF OnlyGets
<1> HIDE DEF np, op
<1>7. Holds(np, t)' => Holds(np, t) \/ (Holds(op, t) /\ ~Holds(op, t)')
  BY <1>1, <1>3, <1>4, <1>5, EmptyHas
<1>8. OneHolder(t)' /\ WasSent(t)'
  BY <1>2, <1>6, <1>7, Moves
<1>9. NotTwice(t)'
  BY <1>1, EmptyHas DEF Once, NotTwice
<1> QED
  BY <1>8, <1>9 DEF Once

\* What is single in a sequence is counted once.
LEMMA CountOnce ==
  ASSUME NEW s, NEW t, Single(s, t)
  PROVE  Cardinality({i \in DOMAIN s : s[i] = t}) = IF Has(s, t) THEN 1 ELSE 0
<1>1. CASE Has(s, t)
  <2>1. PICK i \in DOMAIN s : s[i] = t
    BY <1>1 DEF Has
  <2>2. {j \in DOMAIN s : s[j] = t} = {i}
    BY <2>1 DEF Single
  <2> QED
    BY <1>1, <2>2, FS_Singleton
<1>2. CASE ~Has(s, t)
  <2>1. {j \in DOMAIN s : s[j] = t} = {}
    BY <1>2 DEF Has
  <2> QED
    BY <1>2, <2>1, FS_EmptySet
<1> QED
  BY <1>1, <1>2

\* From a buffer into the database.
LEMMA OnceAnswered ==
  ASSUME Types, NEW e \in Evaler, EvalerGetsAnswer(e), NEW t \in Testcase, Once(t)
  PROVE  Once(t)'
<1> DEFINE np == <<"database", "master">>
           op == <<"buffer", e>>
<1>1. /\ UNCHANGED <<sent, wire, fz, testcaseChan, dropped>>
      /\ hand' = [hand EXCEPT ![ConnOf[e]] = NoMsg]
      /\ evaluated' = [x \in Testcase |->
           evaluated[x] + Cardinality({i \in DOMAIN ev[e].buf : ev[e].buf[i] = x})]
  BY DEF EvalerGetsAnswer, net
<1>2. PICK w : ev' = [ev EXCEPT ![e] = w] /\ w.buf = <<>>
  BY FitsAnswered
<1>3. ev'[e].buf = <<>> /\ \A d \in Evaler : d # e => ev'[d] = ev[d]
  BY <1>2 DEF Types, TypeOK
<1>4. np \in Holder /\ op \in Holder /\ np # op
  BY HolderIn
<1>5. (Holds(np, t)' <=> evaluated'[t] # 0) /\ (Holds(op, t)' <=> Has(ev'[e].buf, t))
  BY HoldsIsNext
<1>6. (Holds(np, t) <=> evaluated[t] # 0) /\ (Holds(op, t) <=> Has(ev[e].buf, t))
  BY HoldsIs
<1>7. evaluated'[t] = evaluated[t] + IF Has(ev[e].buf, t) THEN 1 ELSE 0
  <2> DEFINE n == Cardinality({i \in DOMAIN ev[e].buf : ev[e].buf[i] = t})
  <2>1. n = IF Has(ev[e].buf, t) THEN 1 ELSE 0
    BY CountOnce DEF Once, NotTwice
  <2>2. evaluated'[t] = evaluated[t] + n
    BY <1>1
  <2> HIDE DEF n
  <2> QED
    BY <2>1, <2>2
<1>8. evaluated[t] \in {0, 1}
  BY DEF Once, NotTwice
<1>9. Has(ev[e].buf, t) => evaluated[t] = 0
  BY <1>4, <1>6 DEF Once, OneHolder
<1>10. evaluated'[t] \in {0, 1} /\ (evaluated'[t] # 0 => evaluated[t] # 0 \/ Has(ev[e].buf, t))
  BY <1>7, <1>8, <1>9
<1>11. OnlyGets(np, t)
  BY <1>1, <1>3, EmptyHas, HandGiven DEF OnlyGets
<1> HIDE DEF np, op
<1>12. Holds(np, t)' => Holds(np, t) \/ (Holds(op, t) /\ ~Holds(op, t)')
  BY <1>3, <1>5, <1>6, <1>10, EmptyHas
<1>13. OneHolder(t)' /\ WasSent(t)'
  BY <1>1, <1>4, <1>11, <1>12, Moves
<1>14. NotTwice(t)'
  BY <1>1, <1>3, <1>10, EmptyHas DEF Once, NotTwice
<1> QED
  BY <1>13, <1>14 DEF Once

LEMMA OnceEvaler ==
  ASSUME Types, NEW e \in Evaler,
         EvalerTicks(e) \/ EvalerReceives(e) \/ EvalerExits(e) \/ FlushStep(e),
         Uncancelled', NEW t \in Testcase, Uncancelled => Once(t)
  PROVE  Once(t)'
<1>1. Once(t)
  <2>1. PICK w : ev' = [ev EXCEPT ![e] = w] /\ (w.cancelled \/ ~ev[e].cancelled)
    <3>1. CASE EvalerTicks(e)
      BY <3>1, FitsTicked
    <3>2. CASE EvalerReceives(e)
      BY <3>2, FitsReceived
    <3>3. CASE EvalerSends(e) \/ EvalerStops(e) \/ EvalerPosts(e) \/ EvalerExits(e)
      BY <3>3, FitsMoved
    <3>4. CASE EvalerSendFails(e) \/ EvalerGetsGarbage(e)
      <4>1. /\ ev[e].pc \in {"send", "recv"} /\ EvaluateFails(e)
            /\ hand[ConnOf[e]].to = e \/ phase[ConnOf[e]] # "closed"
        BY <3>4 DEF EvalerSendFails, EvalerGetsGarbage
      <4> QED
        BY <4>1, ConnectionOpen, FitsFailed
    <3>5. CASE EvalerGetsAnswer(e)
      <4>1. ~ev[e].cancelled
        BY <3>5, ConnectionOpen DEF EvalerGetsAnswer
      <4> QED
        BY <3>5, <4>1, FitsAnswered
    <3>6. CASE EvalerResends(e)
      BY <3>6, FitsResent
    <3> QED
      BY <3>1, <3>2, <3>3, <3>4, <3>5, <3>6 DEF FlushStep
  <2>2. ev'[e] = w /\ \A d \in Evaler : d # e => ev'[d] = ev[d]
    BY <2>1 DEF Types, TypeOK
  <2> QED
    BY <2>1, <2>2 DEF Uncancelled
<1>2. ASSUME NEW w, ev' = [ev EXCEPT ![e] = w], w.buf = ev[e].buf,
             UNCHANGED <<sent, wire, fz, testcaseChan, evaluated, dropped>>,
             hand' = hand \/ hand' = [hand EXCEPT ![ConnOf[e]] = NoMsg]
      PROVE  Once(t)'
  <2>1. \A d \in Evaler : ev'[d].buf = ev[d].buf
    BY <1>2 DEF Types, TypeOK
  <2>2. \A c \in Conn : SingleTc(wire'[c], t)
    BY <1>1, <1>2 DEF Once, NotTwice
  <2> QED
    BY <1>1, <1>2, <2>1, <2>2, OnceUnmoved, HandGiven
<1>3. CASE EvalerTicks(e)
  BY <1>2, <1>3, FitsTicked DEF EvalerTicks, net, results
<1>4. CASE EvalerReceives(e)
  BY <1>1, <1>4, OnceReceived
<1>5. CASE EvalerSends(e) \/ EvalerStops(e) \/ EvalerPosts(e) \/ EvalerExits(e)
  <2>1. UNCHANGED <<sent, wire, hand, fz, testcaseChan, evaluated, dropped>>
    BY <1>5 DEF EvalerSends, EvalerStops, EvalerPosts, EvalerExits, net, results
  <2> QED
    BY <1>2, <1>5, <2>1, FitsMoved
<1>6. CASE EvalerSendFails(e) \/ EvalerGetsGarbage(e)
  <2>1. /\ UNCHANGED <<sent, wire, fz, testcaseChan, evaluated>>
        /\ hand' = hand \/ hand' = [hand EXCEPT ![ConnOf[e]] = NoMsg]
        /\ ev[e].pc \in {"send", "recv"} /\ EvaluateFails(e)
        /\ hand[ConnOf[e]].to = e \/ phase[ConnOf[e]] # "closed"
    BY <1>6 DEF EvalerSendFails, EvalerGetsGarbage, net
  <2>2. PICK w : /\ ev' = [ev EXCEPT ![e] = w]
                 /\ \/ w.buf = ev[e].buf /\ dropped' = dropped
                    \/ w.buf = <<>> /\ dropped' = dropped \cup ToSet(ev[e].buf)
    BY <2>1, ConnectionOpen, FitsFailed
  <2> QED
    BY <1>1, <1>2, <2>1, <2>2, OnceDropped
<1>7. CASE EvalerGetsAnswer(e)
  BY <1>1, <1>7, OnceAnswered
<1>8. CASE EvalerResends(e)
  <2>1. PICK w : ev' = [ev EXCEPT ![e] = w] /\ w.cancelled
    BY <1>8, FitsResent
  <2>2. ev'[e] = w
    BY <2>1 DEF Types, TypeOK
  <2> QED
    BY <2>1, <2>2 DEF Uncancelled
<1> QED
  BY <1>3, <1>4, <1>5, <1>6, <1>7, <1>8 DEF FlushStep

LEMMA NextOnce ==
  ASSUME Types, [Next]_vars, Uncancelled', NEW t \in Testcase, Uncancelled => Once(t)
  PROVE  Once(t)'
<1>1. ev' = ev => Once(t)
  BY DEF Uncancelled
<1>2. CASE \E f \in Fuzzer : NodeSendsTestcase(f)
  BY <1>1, <1>2, OnceNodeSends DEF NodeSendsTestcase
<1>3. CASE \E e \in Evaler : \E kind \in Answers : NodeAnswers(e, kind)
  BY <1>1, <1>3, OnceNodeAnswers DEF NodeAnswers
<1>4. CASE \E c \in Conn : ReaderReads(c)
  BY <1>1, <1>4, OnceReads DEF ReaderReads
<1>5. CASE UNCHANGED vars \/ EventLoopTakes \/ \E c \in Conn : NodeLeaves(c) \/ ReaderCloses(c)
  <2>1. UNCHANGED <<sent, wire, hand, fz, ev, testcaseChan, evaluated, dropped>>
    BY <1>5 DEF vars, net, results, EventLoopTakes, NodeLeaves, ReaderCloses
  <2>2. \A c \in Conn : SingleTc(wire'[c], t)
    BY <1>1, <2>1 DEF Once, NotTwice
  <2> QED
    BY <1>1, <2>1, <2>2, OnceUnmoved
<1>6. CASE \E f \in Fuzzer : FuzzerStep(f)
  <2>1. PICK f \in Fuzzer : FuzzerStep(f)
    BY <1>6
  <2>2. ev' = ev
    BY <2>1 DEF FuzzerStep, FuzzerGets, FuzzerSeesClosed, FuzzerPushes, FuzzerPushesBlocked,
                FuzzerPosts
  <2> QED
    BY <1>1, <2>1, <2>2, OnceFuzzer
<1>7. CASE \E e \in Evaler : \/ EvalerTicks(e) \/ EvalerReceives(e) \/ EvalerExits(e)
                             \/ FlushStep(e)
  BY <1>7, OnceEvaler
<1> QED
  BY <1>2, <1>3, <1>4, <1>5, <1>6, <1>7 DEF Next

LEMMA InitOnce == Init => \A t \in Testcase : Once(t)
<1> SUFFICES ASSUME Init, NEW t \in Testcase PROVE Once(t)
  OBVIOUS
<1>0. t # <<>>
  BY TestcaseOf
<1>1. /\ \A f \in Fuzzer : fz[f].tc = <<>>
      /\ \A c \in Conn : wire[c] = <<>> /\ hand[c].tc = <<>>
      /\ \A e \in Evaler : ev[e].buf = <<>>
      /\ testcaseChan = <<>> /\ evaluated[t] = 0 /\ t \notin dropped
  BY DEF Init, NoMsg
<1>2. ~HasTc(<<>>, t) /\ SingleTc(<<>>, t)
  BY DEF HasTc, SingleTc
<1>3. ASSUME NEW p \in Holder PROVE ~Holds(p, t)
  <2>1. CASE \E f \in Fuzzer : p = <<"worker", f>>
    BY <1>0, <1>1, <2>1, HoldsIs
  <2>2. CASE \E c \in Conn : p = <<"hand", c>> \/ p = <<"wire", c>>
    BY <1>0, <1>1, <1>2, <2>2, HoldsIs
  <2>3. CASE \E e \in Evaler : p = <<"buffer", e>>
    BY <1>1, <2>3, EmptyHas, HoldsIs
  <2>4. CASE p \in {<<"queue", "master">>, <<"database", "master">>, <<"dropped", "master">>}
    BY <1>1, <2>4, EmptyHas, HoldsIs
  <2> QED
    BY <2>1, <2>2, <2>3, <2>4, HolderForms
<1>4. NotTwice(t)
  BY <1>1, <1>2, EmptyHas DEF NotTwice
<1> QED
  BY <1>3, <1>4 DEF Once, OneHolder, WasSent

-----------------------------------------------------------------------------
(* The theorems *)

LEMMA InitIInv == Init => IInv
  BY InitTypes, InitKept, InitOnce DEF IInv

LEMMA NextIInv == IInv /\ [Next]_vars => IInv'
<1> SUFFICES ASSUME IInv, [Next]_vars PROVE IInv'
  OBVIOUS
<1>1. Types'
  BY NextTypes DEF IInv
<1>2. (\A t \in Accepted : Kept(t))'
  BY NextKept DEF IInv
<1>3. Uncancelled' => \A t \in Testcase : Once(t)'
  BY NextOnce DEF IInv
<1> QED
  BY <1>1, <1>2, <1>3 DEF IInv

\* The invariant holds of every behaviour: types and capacities, what each
\* worker's program counter says of its buffer and its connection, and where
\* every testcase is (Fuzzer.Run, Evaler.Run, Evaler.flush, handleConnection).
THEOREM PipelineInvariant == Spec => []IInv
  BY InitIInv, NextIInv, PTL DEF Spec

LEMMA PlacesAre ==
  ASSUME NEW t, NEW p
  PROVE  p \in Places(t) <=>
           \/ \E f \in Fuzzer : p = <<"worker", f>> /\ fz[f].tc = t
           \/ \E i \in DOMAIN testcaseChan : p = <<"queue", i>> /\ testcaseChan[i] = t
           \/ \E e \in Evaler : /\ ev[e].pc # "done"
                                /\ \E i \in DOMAIN ev[e].buf :
                                     p = <<"buffer", e, i>> /\ ev[e].buf[i] = t
           \/ \E n \in 1..evaluated[t] : p = <<"database", n>>
           \/ t \in dropped /\ p = <<"dropped", t>>
<1> DEFINE A == {<<"worker", f>> : f \in {g \in Fuzzer : fz[g].tc = t}}
           B == {<<"queue", i>> : i \in {j \in DOMAIN testcaseChan : testcaseChan[j] = t}}
           C(e) == {<<"buffer", e, i>> : i \in {j \in DOMAIN ev[e].buf : ev[e].buf[j] = t}}
           D == {<<"database", n>> : n \in 1..evaluated[t]}
           G == {<<"dropped", d>> : d \in dropped \cap {t}}
<1>1. p \in A <=> \E f \in Fuzzer : p = <<"worker", f>> /\ fz[f].tc = t
  OBVIOUS
<1>2. p \in B <=> \E i \in DOMAIN testcaseChan : p = <<"queue", i>> /\ testcaseChan[i] = t
  OBVIOUS
<1>3. \A e : p \in C(e) <=> \E i \in DOMAIN ev[e].buf :
                              p = <<"buffer", e, i>> /\ ev[e].buf[i] = t
  OBVIOUS
<1>4. p \in D <=> \E n \in 1..evaluated[t] : p = <<"database", n>>
  OBVIOUS
<1>5. p \in G <=> t \in dropped /\ p = <<"dropped", t>>
  OBVIOUS
<1>6. p \in Places(t) <=> \/ p \in A \/ p \in B
                          \/ \E e \in Evaler : ev[e].pc # "done" /\ p \in C(e)
                          \/ p \in D \/ p \in G
  <2> DEFINE M == UNION {C(e) : e \in {d \in Evaler : ev[d].pc # "done"}}
  <2>1. Places(t) = A \cup B \cup D \cup G \cup M
    BY DEF Places
  <2>2. p \in M <=> \E e \in Evaler : ev[e].pc # "done" /\ p \in C(e)
    <3> HIDE DEF C
    <3> QED
      OBVIOUS
  <2> HIDE DEF A, B, C, D, G, M
  <2> QED
    BY <2>1, <2>2
<1> HIDE DEF A, B, C, D, G
<1> QED
  BY <1>1, <1>2, <1>3, <1>4, <1>5, <1>6

\* What a testcase is kept by is a place, unless the worker has ended.
LEMMA KeptHasPlace ==
  ASSUME Types, NEW t \in Testcase, Kept(t)
  PROVE  Places(t) # {} \/ \E e \in Evaler : t \in LostWith(ev[e])
<1>1. CASE InWorker(t)
  <2>1. PICK f \in Fuzzer : fz[f].tc = t
    BY <1>1 DEF InWorker
  <2>2. <<"worker", f>> \in Places(t)
    BY <2>1, PlacesAre
  <2> QED
    BY <2>2
<1>2. CASE Has(testcaseChan, t)
  <2>1. PICK i \in DOMAIN testcaseChan : testcaseChan[i] = t
    BY <1>2 DEF Has
  <2>2. <<"queue", i>> \in Places(t)
    BY <2>1, PlacesAre
  <2> QED
    BY <2>2
<1>3. CASE \E e \in Evaler : Owned(ev[e], t)
  <2>0. PICK e \in Evaler : Owned(ev[e], t)
    BY <1>3
  <2>1. PICK i \in DOMAIN ev[e].buf : ev[e].buf[i] = t /\ i > Back(ev[e])
    BY <2>0 DEF Owned
  <2>2. CASE ev[e].pc = "done"
    BY <2>1, <2>2 DEF LostWith, Back
  <2>3. CASE ev[e].pc # "done"
    <3>1. <<"buffer", e, i>> \in Places(t)
      BY <2>1, <2>3, PlacesAre
    <3> QED
      BY <3>1
  <2> QED
    BY <2>2, <2>3
<1>4. CASE evaluated[t] # 0
  <2>1. 1 \in 1..evaluated[t]
    BY <1>4, Others
  <2>2. <<"database", 1>> \in Places(t)
    BY <2>1, PlacesAre
  <2> QED
    BY <2>2
<1>5. CASE t \in dropped
  <2>1. <<"dropped", t>> \in Places(t)
    BY <1>5, PlacesAre
  <2> QED
    BY <2>1
<1> QED
  BY <1>1, <1>2, <1>3, <1>4, <1>5 DEF Kept

\* However many evalers lose their connection and however often, a testcase a
\* worker has taken over stays somewhere, or went with an evaler that took it
\* from the channel after it had given its buffer back.
THEOREM PipelineOnlyLateTakesAreLost == Spec => []OnlyLateTakesAreLost
<1>1. IInv => OnlyLateTakesAreLost
  <2> SUFFICES ASSUME IInv, NEW t \in Accepted
               PROVE  Places(t) # {} \/ \E e \in Evaler : t \in LostWith(ev[e])
    BY DEF OnlyLateTakesAreLost, IInv, Types
  <2>1. t \in Testcase /\ Kept(t) /\ Types
    BY AcceptedIs DEF IInv
  <2> QED
    BY <2>1, KeptHasPlace
<1> QED
  BY <1>1, PipelineInvariant, PTL

\* A place belongs to a holder, and says which of its copies is meant.
LEMMA PlaceOf ==
  ASSUME Types, NEW t \in Testcase, NotTwice(t), NEW p \in Places(t)
  PROVE  \/ \E f \in Fuzzer : p = <<"worker", f>> /\ Holds(<<"worker", f>>, t)
         \/ \E i \in DOMAIN testcaseChan :
              p = <<"queue", i>> /\ testcaseChan[i] = t /\ Holds(<<"queue", "master">>, t)
         \/ \E e \in Evaler : \E i \in DOMAIN ev[e].buf :
              p = <<"buffer", e, i>> /\ ev[e].buf[i] = t /\ Holds(<<"buffer", e>>, t)
         \/ p = <<"database", 1>> /\ Holds(<<"database", "master">>, t)
         \/ p = <<"dropped", t>> /\ Holds(<<"dropped", "master">>, t)
<1>1. CASE \E f \in Fuzzer : p = <<"worker", f>> /\ fz[f].tc = t
  BY <1>1, HoldsIs
<1>2. CASE \E i \in DOMAIN testcaseChan : p = <<"queue", i>> /\ testcaseChan[i] = t
  <2>1. Has(testcaseChan, t)
    BY <1>2 DEF Has
  <2> QED
    BY <1>2, <2>1, HoldsIs
<1>3. CASE \E e \in Evaler : \E i \in DOMAIN ev[e].buf :
             p = <<"buffer", e, i>> /\ ev[e].buf[i] = t
  <2>0. PICK e \in Evaler : \E i \in DOMAIN ev[e].buf :
                              p = <<"buffer", e, i>> /\ ev[e].buf[i] = t
    BY <1>3
  <2>1. PICK i \in DOMAIN ev[e].buf : p = <<"buffer", e, i>> /\ ev[e].buf[i] = t
    BY <2>0
  <2>2. Holds(<<"buffer", e>>, t)
    BY <2>1, HoldsIs DEF Has
  <2> QED
    BY <2>1, <2>2
<1>4. CASE \E n \in 1..evaluated[t] : p = <<"database", n>>
  <2>1. PICK n \in 1..evaluated[t] : p = <<"database", n>>
    BY <1>4
  <2>2. n = 1 /\ evaluated[t] # 0
    BY DEF NotTwice
  <2> QED
    BY <2>1, <2>2, HoldsIs
<1>5. CASE p = <<"dropped", t>> /\ t \in dropped
  BY <1>5, HoldsIs
<1> QED
  <2>1. \/ \E f \in Fuzzer : p = <<"worker", f>> /\ fz[f].tc = t
        \/ \E i \in DOMAIN testcaseChan : p = <<"queue", i>> /\ testcaseChan[i] = t
        \/ \E e \in Evaler : /\ ev[e].pc # "done"
                             /\ \E i \in DOMAIN ev[e].buf :
                                  p = <<"buffer", e, i>> /\ ev[e].buf[i] = t
        \/ \E n \in 1..evaluated[t] : p = <<"database", n>>
        \/ t \in dropped /\ p = <<"dropped", t>>
    BY PlacesAre
  <2> QED
    BY <1>1, <1>2, <1>3, <1>4, <1>5, <2>1

\* Two places of what has one holder and is nowhere twice are the same.
LEMMA OnePlace ==
  ASSUME Types, NEW t \in Testcase, Once(t), NEW p \in Places(t), NEW q \in Places(t)
  PROVE  p = q
<1>1. \A x, y \in Holder : Holds(x, t) /\ Holds(y, t) => x = y
  BY DEF Once, OneHolder
<1>2. /\ \A i, j \in DOMAIN testcaseChan : testcaseChan[i] = t /\ testcaseChan[j] = t => i = j
      /\ \A e \in Evaler : \A i, j \in DOMAIN ev[e].buf :
           ev[e].buf[i] = t /\ ev[e].buf[j] = t => i = j
  BY DEF Once, NotTwice, Single
<1> DEFINE HolderOf(x, h) ==
      /\ h \in Holder /\ Holds(h, t)
      /\ \/ h[1] = "worker" /\ x = h
         \/ h[1] = "queue" /\ \E i \in DOMAIN testcaseChan :
                                x = <<"queue", i>> /\ testcaseChan[i] = t
         \/ h[1] = "buffer" /\ h[2] \in Evaler /\ \E i \in DOMAIN ev[h[2]].buf :
                                 x = <<"buffer", h[2], i>> /\ ev[h[2]].buf[i] = t
         \/ h[1] = "database" /\ x = <<"database", 1>>
         \/ h[1] = "dropped" /\ x = <<"dropped", t>>
<1>3. ASSUME NEW x \in Places(t) PROVE \E h : HolderOf(x, h)
  <2>1. CASE \E f \in Fuzzer : x = <<"worker", f>> /\ Holds(<<"worker", f>>, t)
    <3>1. PICK f \in Fuzzer : x = <<"worker", f>> /\ Holds(<<"worker", f>>, t)
      BY <2>1
    <3>2. HolderOf(x, <<"worker", f>>)
      BY <3>1, HolderIn
    <3> QED
      BY <3>2
  <2>2. CASE \E i \in DOMAIN testcaseChan :
               x = <<"queue", i>> /\ testcaseChan[i] = t /\ Holds(<<"queue", "master">>, t)
    <3>1. HolderOf(x, <<"queue", "master">>)
      BY <2>2, HolderIn
    <3> QED
      BY <3>1
  <2>3. CASE \E e \in Evaler : \E i \in DOMAIN ev[e].buf :
               x = <<"buffer", e, i>> /\ ev[e].buf[i] = t /\ Holds(<<"buffer", e>>, t)
    <3>0. PICK e \in Evaler : \E i \in DOMAIN ev[e].buf :
            x = <<"buffer", e, i>> /\ ev[e].buf[i] = t /\ Holds(<<"buffer", e>>, t)
      BY <2>3
    <3>1. PICK i \in DOMAIN ev[e].buf :
            x = <<"buffer", e, i>> /\ ev[e].buf[i] = t /\ Holds(<<"buffer", e>>, t)
      BY <3>0
    <3>2. HolderOf(x, <<"buffer", e>>)
      BY <3>1, HolderIn
    <3> QED
      BY <3>2
  <2>4. CASE x = <<"database", 1>> /\ Holds(<<"database", "master">>, t)
    <3>1. HolderOf(x, <<"database", "master">>)
      BY <2>4, HolderIn
    <3> QED
      BY <3>1
  <2>5. CASE x = <<"dropped", t>> /\ Holds(<<"dropped", "master">>, t)
    <3>1. HolderOf(x, <<"dropped", "master">>)
      BY <2>5, HolderIn
    <3> QED
      BY <3>1
  <2>6. NotTwice(t)
    BY DEF Once
  <2> QED
    BY <2>1, <2>2, <2>3, <2>4, <2>5, <2>6, PlaceOf
<1>4. PICK h : HolderOf(p, h) /\ HolderOf(q, h)
  <2>1. PICK x : HolderOf(p, x)
    BY <1>3
  <2>2. PICK y : HolderOf(q, y)
    BY <1>3
  <2>3. x = y
    BY <1>1, <2>1, <2>2
  <2> QED
    BY <2>1, <2>2, <2>3
<1> QED
  BY <1>2, <1>4

\* Until an evaler is stopped no retry, full channel or failed answer makes a
\* second copy: every testcase taken over is in exactly one place.
THEOREM PipelineExactlyOnceBeforeStops == Spec => []ExactlyOnceBeforeStops
<1>1. IInv => ExactlyOnceBeforeStops
  <2> SUFFICES ASSUME IInv, Uncancelled, NEW t \in Accepted
               PROVE  \E p \in Places(t) : Places(t) = {p}
    BY DEF ExactlyOnceBeforeStops, Uncancelled
  <2>1. t \in Testcase /\ Kept(t) /\ Types /\ Once(t)
    BY AcceptedIs DEF IInv
  <2>2. \A e \in Evaler : ev[e].pc # "done"
    BY <2>1 DEF Uncancelled, Types, Evalers, Sound
  <2>3. \A e \in Evaler : t \notin LostWith(ev[e])
    BY <2>2 DEF LostWith
  <2>4. PICK p \in Places(t) : TRUE
    BY <2>1, <2>3, KeptHasPlace
  <2>5. \A q \in Places(t) : q = p
    BY <2>1, OnePlace
  <2> QED
    BY <2>5
<1> QED
  BY <1>1, PipelineInvariant, PTL

=============================================================================
