--------------------------- MODULE NodeAgentProofs ---------------------------
(***************************************************************************)
(* Proofs about the process on a node, for any number of elements and any  *)
(* capacities.                                                             *)
(*                                                                         *)
(* A batch is counted wherever it can be: on its way down, in the hands of *)
(* the reading task, in the element's channel, with the evaler's task and, *)
(* as an answer, in the two queues on the way up.  The count alone is not  *)
(* inductive: it needs that no answer is to an earlier batch, so that an   *)
(* answer that is read ends the turn, and what a task that panicked leaves *)
(* behind.                                                                 *)
(***************************************************************************)
EXTENDS NodeAgent, FiniteSetTheorems, SequenceTheorems, TLAPS

-----------------------------------------------------------------------------
(* The inductive invariant *)

Request == [to : Evaler, n : 1..MaxBatches]
Message == [kind : {"evaluation", "testcase"}, from : Element, n : Nat]

\* The reading task holds a message exactly while it hands it over.
MuxShape ==
  /\ mux.pc \in {"read", "ended"} => mux.msg = NoMsg
  /\ mux.pc = "send" => mux.msg \in Request

\* The master asks again when it has read the answer.
Turn(e) == asked[e] - answered[e] \in {0, 1}

\* What asks e, and what answers for e, is about the batch n.
AsksFor(s, e, n) == \A i \in DOMAIN s : s[i].to = e => s[i].n = n
Replies(s, e, n) ==
  \A i \in DOMAIN s : s[i].kind = "evaluation" /\ s[i].from = e => s[i].n = n

\* Whatever is on its way belongs to the last batch.
Numbers(e) ==
  /\ AsksFor(down, e, asked[e])
  /\ mux.msg.to = e => mux.msg.n = asked[e]
  /\ \A i \in DOMAIN chan[e] : chan[e][i] = asked[e]
  /\ {cur[e], queue[e], resp[e]} \subseteq {0, asked[e]}
  /\ Replies(sendq, e, asked[e])
  /\ Replies(up, e, asked[e])

\* The task has a batch from taking it to answering it, and the thread works
\* only while the task waits.
Working(e) ==
  /\ cur[e] = 0 <=> task[e] \in {"recv", "gone"}
  /\ task[e] \notin {"wait", "gone"} => queue[e] = 0 /\ resp[e] = 0
  /\ queue[e] = 0 \/ resp[e] = 0

\* A task that panicked leaves its batch unanswered for ever.
Unanswered(e) ==
  conn = "open" /\ task[e] = "gone" =>
    asked[e] # answered[e] /\ Answers(sendq, e) = 0 /\ Answers(up, e) = 0

Counted(e) ==
  conn = "open" /\ task[e] # "gone" => InFlight(e) = asked[e] - answered[e]

Batch(e) == Turn(e) /\ Numbers(e) /\ Working(e) /\ Unanswered(e) /\ Counted(e)

IInv == TypeOK /\ MuxShape /\ \A e \in Evaler : Batch(e)

-----------------------------------------------------------------------------
(* Counting in a sequence *)

Hits(s, M) == {i \in DOMAIN s : s[i] \in M}

LEMMA HitsFinite ==
  ASSUME NEW S, NEW s \in Seq(S), NEW M
  PROVE  IsFiniteSet(Hits(s, M)) /\ Cardinality(Hits(s, M)) \in Nat
<1>1. IsFiniteSet(DOMAIN s)
  <2>1. DOMAIN s = 1..Len(s) /\ Len(s) \in Nat
    BY LenProperties
  <2> QED
    BY <2>1, FS_Interval
<1>2. Hits(s, M) \in SUBSET DOMAIN s
  BY DEF Hits
<1> QED
  BY <1>1, <1>2, FS_Subset, FS_CardinalityType

LEMMA HitsAppend ==
  ASSUME NEW S, NEW s \in Seq(S), NEW x \in S, NEW M
  PROVE  Cardinality(Hits(Append(s, x), M)) =
           Cardinality(Hits(s, M)) + IF x \in M THEN 1 ELSE 0
<1>1. /\ DOMAIN Append(s, x) = 1..(Len(s) + 1) /\ DOMAIN s = 1..Len(s)
      /\ Len(s) \in Nat
      /\ \A i \in 1..Len(s) : Append(s, x)[i] = s[i]
      /\ Append(s, x)[Len(s) + 1] = x
  BY AppendProperties, LenProperties
<1>2. IsFiniteSet(Hits(s, M)) /\ Cardinality(Hits(s, M)) \in Nat
  BY HitsFinite
<1>3. CASE x \in M
  <2>1. Hits(Append(s, x), M) = Hits(s, M) \cup {Len(s) + 1}
    BY <1>1, <1>3 DEF Hits
  <2>2. Len(s) + 1 \notin Hits(s, M)
    BY <1>1 DEF Hits
  <2>3. Cardinality(Hits(s, M) \cup {Len(s) + 1}) = Cardinality(Hits(s, M)) + 1
    BY <1>2, <2>2, FS_AddElement
  <2> QED
    BY <1>3, <2>1, <2>3
<1>4. CASE x \notin M
  <2>1. Hits(Append(s, x), M) = Hits(s, M)
    BY <1>1, <1>4 DEF Hits
  <2> QED
    BY <1>2, <1>4, <2>1
<1> QED
  BY <1>3, <1>4

LEMMA HitsTail ==
  ASSUME NEW S, NEW s \in Seq(S), s # <<>>, NEW M
  PROVE  Cardinality(Hits(s, M)) =
           Cardinality(Hits(Tail(s), M)) + IF Head(s) \in M THEN 1 ELSE 0
<1>1. /\ DOMAIN s = 1..Len(s) /\ Len(s) \in Nat \ {0}
      /\ DOMAIN Tail(s) = 1..(Len(s) - 1)
      /\ \A i \in 1..(Len(s) - 1) : Tail(s)[i] = s[i + 1]
      /\ Head(s) = s[1] /\ Tail(s) \in Seq(S)
  <2>1. Tail(s) \in Seq(S) /\ Len(Tail(s)) = Len(s) - 1
    BY HeadTailProperties
  <2> QED
    BY <2>1, HeadTailProperties, LenProperties, EmptySeq
<1> DEFINE A == Hits(Tail(s), M)
           B == Hits(s, M) \ {1}
           f == [i \in A |-> i + 1]
<1>2. IsFiniteSet(A) /\ Cardinality(A) \in Nat
  BY <1>1, HitsFinite
<1>3. IsFiniteSet(Hits(s, M)) /\ Cardinality(Hits(s, M)) \in Nat
  BY HitsFinite
<1>4. \A i \in A : i \in Int /\ i + 1 \in B
  BY <1>1 DEF Hits
<1>5. \A j \in B : j - 1 \in A /\ (j - 1) + 1 = j
  BY <1>1 DEF Hits
<1>6. ExistsBijection(A, B)
  <2> HIDE DEF A, B
  <2>1. f \in [A -> B]
    BY <1>4
  <2>2. \A i, j \in A : f[i] = f[j] => i = j
    BY <1>4
  <2>3. \A j \in B : \E i \in A : f[i] = j
    <3> SUFFICES ASSUME NEW j \in B PROVE \E i \in A : f[i] = j
      OBVIOUS
    <3>1. j - 1 \in A /\ f[j - 1] = j
      BY <1>5
    <3> QED
      BY <3>1
  <2> QED
    BY <2>1, <2>2, <2>3 DEF ExistsBijection, Bijection, Injection, Surjection, IsInjective
<1>7. Cardinality(B) = Cardinality(A)
  <2> HIDE DEF A, B
  <2> QED
    BY <1>2, <1>6, FS_Bijection
<1>8. Cardinality(B) = IF 1 \in Hits(s, M) THEN Cardinality(Hits(s, M)) - 1
                       ELSE Cardinality(Hits(s, M))
  BY <1>3, FS_RemoveElement
<1>9. 1 \in Hits(s, M) <=> Head(s) \in M
  BY <1>1 DEF Hits
<1> HIDE DEF A, B
<1> QED
  BY <1>2, <1>3, <1>7, <1>8, <1>9 DEF A

\* The requests for e in s.
Waiting(s, e) == Cardinality({i \in DOMAIN s : s[i].to = e})

AskingFor(e) == {m \in Request : m.to = e}
ReplyOf(e) == {m \in Message : m.kind = "evaluation" /\ m.from = e}

LEMMA WaitingIs ==
  ASSUME NEW s \in Seq(Request), NEW e
  PROVE  Waiting(s, e) = Cardinality(Hits(s, AskingFor(e))) /\ Waiting(s, e) \in Nat
<1>1. \A i \in DOMAIN s : s[i] \in Request
  BY ElementOfSeq, LenProperties
<1>2. {i \in DOMAIN s : s[i].to = e} = Hits(s, AskingFor(e))
  BY <1>1 DEF Hits, AskingFor
<1> QED
  BY <1>2, HitsFinite DEF Waiting

LEMMA AnswersIs ==
  ASSUME NEW s \in Seq(Message), NEW e
  PROVE  /\ Answers(s, e) = Cardinality(Hits(s, ReplyOf(e))) /\ Answers(s, e) \in Nat
         /\ Answers(s, e) = 0 =>
              \A i \in DOMAIN s : ~(s[i].kind = "evaluation" /\ s[i].from = e)
<1>1. \A i \in DOMAIN s : s[i] \in Message
  BY ElementOfSeq, LenProperties
<1>2. {i \in DOMAIN s : s[i].kind = "evaluation" /\ s[i].from = e} = Hits(s, ReplyOf(e))
  BY <1>1 DEF Hits, ReplyOf
<1>3. IsFiniteSet(Hits(s, ReplyOf(e))) /\ Cardinality(Hits(s, ReplyOf(e))) \in Nat
  BY HitsFinite
<1>4. Cardinality(Hits(s, ReplyOf(e))) = 0 => Hits(s, ReplyOf(e)) = {}
  BY <1>3, FS_EmptySet
<1> QED
  BY <1>2, <1>3, <1>4 DEF Answers

LEMMA RequestTail ==
  ASSUME NEW s \in Seq(Request), s # <<>>, NEW e, NEW n
  PROVE  /\ Head(s) \in Request /\ Tail(s) \in Seq(Request)
         /\ Waiting(s, e) = Waiting(Tail(s), e) + IF Head(s).to = e THEN 1 ELSE 0
         /\ Waiting(s, e) \in Nat /\ Waiting(Tail(s), e) \in Nat
         /\ AsksFor(s, e, n) => /\ AsksFor(Tail(s), e, n)
                                /\ Head(s).to = e => Head(s).n = n
<1>1. /\ Head(s) \in Request /\ Tail(s) \in Seq(Request)
      /\ Head(s) = s[1] /\ 1 \in DOMAIN s
      /\ \A i \in DOMAIN Tail(s) : i + 1 \in DOMAIN s /\ Tail(s)[i] = s[i + 1]
  <2>1. Tail(s) \in Seq(Request) /\ Len(Tail(s)) = Len(s) - 1 /\ Head(s) \in Request
    BY HeadTailProperties
  <2>2. Len(s) \in Nat /\ Len(s) # 0
    BY LenProperties, EmptySeq
  <2> QED
    BY <2>1, <2>2, HeadTailProperties, LenProperties
<1>2. Waiting(s, e) = Waiting(Tail(s), e) + IF Head(s) \in AskingFor(e) THEN 1 ELSE 0
  <2>1. Waiting(s, e) = Cardinality(Hits(s, AskingFor(e)))
    BY WaitingIs
  <2>2. Waiting(Tail(s), e) = Cardinality(Hits(Tail(s), AskingFor(e)))
    BY <1>1, WaitingIs
  <2>3. Cardinality(Hits(s, AskingFor(e))) =
          Cardinality(Hits(Tail(s), AskingFor(e))) + IF Head(s) \in AskingFor(e) THEN 1 ELSE 0
    BY HitsTail
  <2> QED
    BY <2>1, <2>2, <2>3
<1>3. Head(s) \in AskingFor(e) <=> Head(s).to = e
  BY <1>1 DEF AskingFor
<1>4. AsksFor(s, e, n) => /\ AsksFor(Tail(s), e, n)
                          /\ Head(s).to = e => Head(s).n = n
  BY <1>1 DEF AsksFor
<1>5. Waiting(s, e) \in Nat /\ Waiting(Tail(s), e) \in Nat
  BY <1>1, WaitingIs
<1> QED
  BY <1>1, <1>2, <1>3, <1>4, <1>5

LEMMA RequestAppend ==
  ASSUME NEW s \in Seq(Request), NEW m \in Request, NEW e, NEW n
  PROVE  /\ Append(s, m) \in Seq(Request)
         /\ Waiting(Append(s, m), e) = Waiting(s, e) + IF m.to = e THEN 1 ELSE 0
         /\ Waiting(s, e) \in Nat
         /\ AsksFor(s, e, n) /\ (m.to = e => m.n = n) => AsksFor(Append(s, m), e, n)
         /\ Waiting(s, e) = 0 => AsksFor(s, e, n)
<1>1. /\ Append(s, m) \in Seq(Request)
      /\ DOMAIN s = 1..Len(s) /\ Len(s) \in Nat
      /\ DOMAIN Append(s, m) = 1..(Len(s) + 1)
      /\ \A i \in 1..Len(s) : Append(s, m)[i] = s[i]
      /\ Append(s, m)[Len(s) + 1] = m
  BY AppendProperties, LenProperties
<1>2. Waiting(Append(s, m), e) = Waiting(s, e) + IF m \in AskingFor(e) THEN 1 ELSE 0
  <2>1. Waiting(s, e) = Cardinality(Hits(s, AskingFor(e)))
    BY WaitingIs
  <2>2. Waiting(Append(s, m), e) = Cardinality(Hits(Append(s, m), AskingFor(e)))
    BY <1>1, WaitingIs
  <2>3. Cardinality(Hits(Append(s, m), AskingFor(e))) =
          Cardinality(Hits(s, AskingFor(e))) + IF m \in AskingFor(e) THEN 1 ELSE 0
    BY HitsAppend
  <2> QED
    BY <2>1, <2>2, <2>3
<1>3. m \in AskingFor(e) <=> m.to = e
  BY DEF AskingFor
<1>4. AsksFor(s, e, n) /\ (m.to = e => m.n = n) => AsksFor(Append(s, m), e, n)
  BY <1>1 DEF AsksFor
<1>5. Waiting(s, e) = 0 => AsksFor(s, e, n)
  <2>1. IsFiniteSet(Hits(s, AskingFor(e)))
    BY HitsFinite
  <2>2. Waiting(s, e) = 0 => Hits(s, AskingFor(e)) = {}
    BY <2>1, WaitingIs, FS_EmptySet
  <2>3. \A i \in DOMAIN s : s[i] \in Request
    BY <1>1, ElementOfSeq
  <2> QED
    BY <2>2, <2>3 DEF Hits, AskingFor, AsksFor
<1> QED
  BY <1>1, <1>2, <1>3, <1>4, <1>5, WaitingIs

LEMMA ReplyTail ==
  ASSUME NEW s \in Seq(Message), s # <<>>, NEW e, NEW n
  PROVE  /\ Head(s) \in Message /\ Tail(s) \in Seq(Message)
         /\ Answers(s, e) = Answers(Tail(s), e)
              + IF Head(s).kind = "evaluation" /\ Head(s).from = e THEN 1 ELSE 0
         /\ Answers(s, e) \in Nat /\ Answers(Tail(s), e) \in Nat
         /\ Replies(s, e, n) =>
              /\ Replies(Tail(s), e, n)
              /\ Head(s).kind = "evaluation" /\ Head(s).from = e => Head(s).n = n
<1>1. /\ Head(s) \in Message /\ Tail(s) \in Seq(Message)
      /\ Head(s) = s[1] /\ 1 \in DOMAIN s
      /\ \A i \in DOMAIN Tail(s) : i + 1 \in DOMAIN s /\ Tail(s)[i] = s[i + 1]
  <2>1. Tail(s) \in Seq(Message) /\ Len(Tail(s)) = Len(s) - 1 /\ Head(s) \in Message
    BY HeadTailProperties
  <2>2. Len(s) \in Nat /\ Len(s) # 0
    BY LenProperties, EmptySeq
  <2> QED
    BY <2>1, <2>2, HeadTailProperties, LenProperties
<1>2. Answers(s, e) = Answers(Tail(s), e) + IF Head(s) \in ReplyOf(e) THEN 1 ELSE 0
  <2>1. Answers(s, e) = Cardinality(Hits(s, ReplyOf(e)))
    BY AnswersIs
  <2>2. Answers(Tail(s), e) = Cardinality(Hits(Tail(s), ReplyOf(e)))
    BY <1>1, AnswersIs
  <2>3. Cardinality(Hits(s, ReplyOf(e))) =
          Cardinality(Hits(Tail(s), ReplyOf(e))) + IF Head(s) \in ReplyOf(e) THEN 1 ELSE 0
    BY HitsTail
  <2> QED
    BY <2>1, <2>2, <2>3
<1>3. Head(s) \in ReplyOf(e) <=> Head(s).kind = "evaluation" /\ Head(s).from = e
  BY <1>1 DEF ReplyOf
<1>4. Replies(s, e, n) =>
        /\ Replies(Tail(s), e, n)
        /\ Head(s).kind = "evaluation" /\ Head(s).from = e => Head(s).n = n
  BY <1>1 DEF Replies
<1>5. Answers(s, e) \in Nat /\ Answers(Tail(s), e) \in Nat
  BY <1>1, AnswersIs
<1> QED
  BY <1>1, <1>2, <1>3, <1>4, <1>5

LEMMA ReplyAppend ==
  ASSUME NEW s \in Seq(Message), NEW m \in Message, NEW e, NEW n
  PROVE  /\ Append(s, m) \in Seq(Message)
         /\ Answers(Append(s, m), e) =
              Answers(s, e) + IF m.kind = "evaluation" /\ m.from = e THEN 1 ELSE 0
         /\ Answers(s, e) \in Nat
         /\ Replies(s, e, n) /\ (m.kind = "evaluation" /\ m.from = e => m.n = n)
              => Replies(Append(s, m), e, n)
<1>1. /\ Append(s, m) \in Seq(Message)
      /\ DOMAIN s = 1..Len(s) /\ Len(s) \in Nat
      /\ DOMAIN Append(s, m) = 1..(Len(s) + 1)
      /\ \A i \in 1..Len(s) : Append(s, m)[i] = s[i]
      /\ Append(s, m)[Len(s) + 1] = m
  BY AppendProperties, LenProperties
<1>2. Answers(Append(s, m), e) = Answers(s, e) + IF m \in ReplyOf(e) THEN 1 ELSE 0
  <2>1. Answers(s, e) = Cardinality(Hits(s, ReplyOf(e)))
    BY AnswersIs
  <2>2. Answers(Append(s, m), e) = Cardinality(Hits(Append(s, m), ReplyOf(e)))
    BY <1>1, AnswersIs
  <2>3. Cardinality(Hits(Append(s, m), ReplyOf(e))) =
          Cardinality(Hits(s, ReplyOf(e))) + IF m \in ReplyOf(e) THEN 1 ELSE 0
    BY HitsAppend
  <2> QED
    BY <2>1, <2>2, <2>3
<1>3. m \in ReplyOf(e) <=> m.kind = "evaluation" /\ m.from = e
  BY DEF ReplyOf
<1>4. Replies(s, e, n) /\ (m.kind = "evaluation" /\ m.from = e => m.n = n)
        => Replies(Append(s, m), e, n)
  BY <1>1 DEF Replies
<1> QED
  BY <1>1, <1>2, <1>3, <1>4, AnswersIs

-----------------------------------------------------------------------------
(* The batch of an evaler *)

LEMMA Bounds ==
  /\ MaxBatches \in Nat /\ MaxEvents \in Nat
  /\ ChanCap \in Nat \ {0} /\ SendCap \in Nat \ {0} /\ TcpCap \in Nat \ {0}
  /\ None \notin Element /\ Fuzzer \cap Evaler = {}
  /\ Fuzzer \subseteq Element /\ Evaler \subseteq Element
  BY NodeAgentAssumption DEF Element

LEMMA ZeroBatches == 0 \in 0..MaxBatches
  BY Bounds

LEMMA Facts ==
  ASSUME TypeOK
  PROVE  /\ down \in Seq(Request) /\ sendq \in Seq(Message) /\ up \in Seq(Message)
         /\ task \in [Evaler -> {"recv", "post", "wait", "reply", "gone"}]
         /\ cur \in [Evaler -> 0..MaxBatches] /\ queue \in [Evaler -> 0..MaxBatches]
         /\ resp \in [Evaler -> 0..MaxBatches] /\ asked \in [Evaler -> 0..MaxBatches]
         /\ answered \in [Evaler -> 0..MaxBatches]
         /\ chan \in [Evaler -> Seq(1..MaxBatches)]
         /\ thread \in [Element -> {"shm", "build", "idle", "busy", "send", "dead"}]
         /\ mux \in [pc : {"read", "send", "ended"},
                     msg : [to : Evaler \cup {None}, n : 0..MaxBatches]]
  BY DEF TypeOK, Request, Message

LEMMA EvalerFacts ==
  ASSUME TypeOK, NEW e \in Evaler
  PROVE  /\ asked[e] \in Nat /\ answered[e] \in Nat /\ cur[e] \in Nat
         /\ chan[e] \in Seq(1..MaxBatches) /\ Len(chan[e]) \in Nat
         /\ Waiting(down, e) \in Nat /\ Answers(sendq, e) \in Nat /\ Answers(up, e) \in Nat
         /\ asked[e] <= MaxBatches
         /\ task[e] \in {"recv", "post", "wait", "reply", "gone"}
<1>1. chan[e] \in Seq(1..MaxBatches)
  BY DEF TypeOK
<1>2. asked[e] \in 0..MaxBatches /\ answered[e] \in 0..MaxBatches /\ cur[e] \in 0..MaxBatches
      /\ task[e] \in {"recv", "post", "wait", "reply", "gone"}
  BY Facts
<1>3. Waiting(down, e) \in Nat /\ Answers(sendq, e) \in Nat /\ Answers(up, e) \in Nat
  BY Facts, WaitingIs, AnswersIs
<1> QED
  BY <1>1, <1>2, <1>3, Bounds, LenProperties

\* The summands of InFlight.
Sum(w, m, ch, c, a, b, e) ==
  w + (IF m = e THEN 1 ELSE 0) + Len(ch) + (IF c # 0 THEN 1 ELSE 0) + a + b

LEMMA InFlightIs ==
  ASSUME NEW e
  PROVE  InFlight(e) = Sum(Waiting(down, e), mux.msg.to, chan[e], cur[e],
                           Answers(sendq, e), Answers(up, e), e)
  BY DEF InFlight, Sum, Waiting

LEMMA InFlightNext ==
  ASSUME NEW e
  PROVE  InFlight(e)' = Sum(Waiting(down', e), mux'.msg.to, chan'[e], cur'[e],
                            Answers(sendq', e), Answers(up', e), e)
  BY DEF InFlight, Sum, Waiting, Answers

\* A step that leaves the batch of e where it is.
LEMMA BatchSame ==
  ASSUME NEW e, Batch(e),
         asked'[e] = asked[e], answered'[e] = answered[e],
         task[e] # "gone" => Waiting(down', e) = Waiting(down, e), AsksFor(down', e, asked[e]),
         mux'.msg.to = e <=> mux.msg.to = e, mux'.msg.to = e => mux'.msg.n = asked[e],
         chan'[e] = chan[e], cur'[e] = cur[e], task'[e] = task[e],
         {queue'[e], resp'[e]} \subseteq {0, asked[e]},
         task[e] \notin {"wait", "gone"} => queue'[e] = 0 /\ resp'[e] = 0,
         queue'[e] = 0 \/ resp'[e] = 0,
         Answers(sendq', e) = Answers(sendq, e), Replies(sendq', e, asked[e]),
         Answers(up', e) = Answers(up, e), Replies(up', e, asked[e]),
         conn' = "open" => conn = "open"
  PROVE  Batch(e)'
<1>1. Turn(e)'
  BY DEF Batch, Turn
<1>2. Numbers(e)'
  BY DEF Batch, Numbers
<1>3. Working(e)'
  BY DEF Batch, Working
<1>4. Unanswered(e)'
  <2>1. /\ Answers(sendq, e)' = Answers(sendq', e)
        /\ Answers(up, e)' = Answers(up', e)
    BY DEF Answers
  <2> QED
    BY <2>1 DEF Batch, Unanswered
<1>5. task[e] # "gone" => InFlight(e)' = InFlight(e)
  <2>1. task[e] # "gone" =>
        Sum(Waiting(down', e), mux'.msg.to, chan'[e], cur'[e],
            Answers(sendq', e), Answers(up', e), e)
        = Sum(Waiting(down, e), mux.msg.to, chan[e], cur[e],
              Answers(sendq, e), Answers(up, e), e)
    BY DEF Sum
  <2> QED
    BY <2>1, InFlightIs, InFlightNext
<1>6. Counted(e)'
  BY <1>5 DEF Batch, Counted
<1> QED
  BY <1>1, <1>2, <1>3, <1>4, <1>6 DEF Batch

\* The parts of a batch after a step.
LEMMA BatchBy ==
  ASSUME NEW e,
         asked'[e] - answered'[e] \in {0, 1},
         AsksFor(down', e, asked'[e]), mux'.msg.to = e => mux'.msg.n = asked'[e],
         \A i \in DOMAIN chan'[e] : chan'[e][i] = asked'[e],
         {cur'[e], queue'[e], resp'[e]} \subseteq {0, asked'[e]},
         Replies(sendq', e, asked'[e]), Replies(up', e, asked'[e]),
         cur'[e] = 0 <=> task'[e] \in {"recv", "gone"},
         task'[e] \notin {"wait", "gone"} => queue'[e] = 0 /\ resp'[e] = 0,
         queue'[e] = 0 \/ resp'[e] = 0,
         conn' = "open" /\ task'[e] = "gone" =>
           asked'[e] # answered'[e] /\ Answers(sendq', e) = 0 /\ Answers(up', e) = 0,
         conn' = "open" /\ task'[e] # "gone" =>
           Sum(Waiting(down', e), mux'.msg.to, chan'[e], cur'[e],
               Answers(sendq', e), Answers(up', e), e) = asked'[e] - answered'[e]
  PROVE  Batch(e)'
<1>1. Turn(e)' /\ Numbers(e)' /\ Working(e)'
  BY DEF Turn, Numbers, Working
<1>2. Unanswered(e)'
  <2>1. /\ Answers(sendq, e)' = Answers(sendq', e)
        /\ Answers(up, e)' = Answers(up', e)
    BY DEF Answers
  <2> QED
    BY <2>1 DEF Unanswered
<1>3. Counted(e)'
  BY InFlightNext DEF Counted
<1> QED
  BY <1>1, <1>2, <1>3 DEF Batch

LEMMA BatchHas ==
  ASSUME NEW e, Batch(e)
  PROVE  /\ asked[e] - answered[e] \in {0, 1}
         /\ AsksFor(down, e, asked[e]) /\ (mux.msg.to = e => mux.msg.n = asked[e])
         /\ \A i \in DOMAIN chan[e] : chan[e][i] = asked[e]
         /\ {cur[e], queue[e], resp[e]} \subseteq {0, asked[e]}
         /\ Replies(sendq, e, asked[e]) /\ Replies(up, e, asked[e])
         /\ cur[e] = 0 <=> task[e] \in {"recv", "gone"}
         /\ task[e] \notin {"wait", "gone"} => queue[e] = 0 /\ resp[e] = 0
         /\ queue[e] = 0 \/ resp[e] = 0
         /\ conn = "open" /\ task[e] = "gone" =>
              asked[e] # answered[e] /\ Answers(sendq, e) = 0 /\ Answers(up, e) = 0
         /\ conn = "open" /\ task[e] # "gone" =>
              Sum(Waiting(down, e), mux.msg.to, chan[e], cur[e],
                  Answers(sendq, e), Answers(up, e), e) = asked[e] - answered[e]
  BY InFlightIs DEF Batch, Turn, Numbers, Working, Unanswered, Counted

LEMMA BatchUnmoved ==
  ASSUME NEW e, Batch(e),
         UNCHANGED <<asked, answered, down, chan, cur, queue, resp, task, sendq, up>>,
         mux'.msg = mux.msg, conn' = "open" => conn = "open"
  PROVE  Batch(e)'
  BY BatchHas, BatchSame

LEMMA BatchMuxRead ==
  ASSUME TypeOK, MuxShape, MuxRead, NEW e \in Evaler, Batch(e)
  PROVE  Batch(e)'
<1> DEFINE m == Head(down)
<1>1. /\ mux.pc = "read" /\ down # <<>> /\ down' = Tail(down)
      /\ mux' = IF task[m.to] = "gone" THEN mux ELSE [pc |-> "send", msg |-> m]
      /\ UNCHANGED <<asked, answered, chan, cur, queue, resp, task, sendq, up, conn>>
  BY DEF MuxRead, Closed
<1>2. mux.msg.to # e
  BY <1>1, Bounds DEF MuxShape, NoMsg
<1>3. /\ Waiting(down, e) = Waiting(down', e) + IF m.to = e THEN 1 ELSE 0
      /\ Waiting(down, e) \in Nat /\ Waiting(down', e) \in Nat
      /\ AsksFor(down', e, asked[e]) /\ (m.to = e => m.n = asked[e])
  <2>1. down \in Seq(Request) /\ AsksFor(down, e, asked[e])
    BY Facts, BatchHas
  <2>2. /\ Waiting(down, e) = Waiting(Tail(down), e) + IF m.to = e THEN 1 ELSE 0
        /\ Waiting(down, e) \in Nat /\ Waiting(Tail(down), e) \in Nat
        /\ AsksFor(Tail(down), e, asked[e]) /\ (m.to = e => m.n = asked[e])
    BY <1>1, <2>1, RequestTail
  <2> QED
    BY <1>1, <2>2
<1> HIDE DEF m
<1>4. CASE m.to # e
  <2>1. mux'.msg.to # e
    BY <1>1, <1>2, <1>4
  <2>2. Waiting(down', e) = Waiting(down, e)
    BY <1>3, <1>4
  <2> QED
    BY <1>1, <1>2, <1>3, <2>1, <2>2, BatchHas, BatchSame
<1>5. CASE m.to = e /\ task[e] = "gone"
  <2>1. mux' = mux
    BY <1>1, <1>5
  <2> QED
    BY <1>1, <1>2, <1>3, <1>5, <2>1, BatchHas, BatchSame
<1>6. CASE m.to = e /\ task[e] # "gone"
  <2>1. mux'.msg = m
    BY <1>1, <1>6
  <2>2. Sum(Waiting(down', e), mux'.msg.to, chan'[e], cur'[e],
            Answers(sendq', e), Answers(up', e), e)
        = Sum(Waiting(down, e), mux.msg.to, chan[e], cur[e],
              Answers(sendq, e), Answers(up, e), e)
    <3>1. /\ Answers(sendq', e) = Answers(sendq, e) /\ Answers(up', e) = Answers(up, e)
          /\ chan'[e] = chan[e] /\ cur'[e] = cur[e]
      BY <1>1
    <3> QED
      BY <1>2, <1>3, <1>6, <2>1, <3>1, EvalerFacts DEF Sum
  <2> QED
    BY <1>1, <1>3, <1>6, <2>1, <2>2, BatchHas, BatchBy
<1> QED
  BY <1>4, <1>5, <1>6

LEMMA ReaderToChannel ==
  ASSUME NEW e, NEW w \in Nat, NEW m, NEW n, NEW ch, NEW k, NEW c, NEW a \in Nat, NEW b \in Nat,
         m = e, n # e, Len(ch) \in Nat, Len(k) = Len(ch) + 1
  PROVE  Sum(w, n, k, c, a, b, e) = Sum(w, m, ch, c, a, b, e)
  BY DEF Sum

LEMMA BatchMuxSend ==
  ASSUME TypeOK, MuxShape, MuxSend, NEW e \in Evaler, Batch(e)
  PROVE  Batch(e)'
<1> DEFINE d == mux.msg.to
<1>1. /\ mux.pc = "send" /\ mux'.msg = NoMsg
      /\ chan' = IF task[d] = "gone" THEN chan
                 ELSE [chan EXCEPT ![d] = Append(@, mux.msg.n)]
      /\ UNCHANGED <<asked, answered, down, cur, queue, resp, task, sendq, up, conn>>
  BY DEF MuxSend, Closed
<1>2. mux'.msg.to # e
  BY <1>1, Bounds DEF NoMsg
<1>3. mux.msg.n \in 1..MaxBatches /\ d \in Evaler
  BY <1>1 DEF MuxShape, Request
<1>4. chan[e] \in Seq(1..MaxBatches)
  BY EvalerFacts
<1>5. CASE d # e
  <2>1. chan'[e] = chan[e]
    BY <1>1, <1>5
  <2> QED
    BY <1>1, <1>2, <1>5, <2>1, BatchHas, BatchSame
<1>6. CASE d = e /\ task[e] = "gone"
  BY <1>1, <1>2, <1>6, BatchHas, BatchBy
<1>7. CASE d = e /\ task[e] # "gone"
  <2>1. chan'[e] = Append(chan[e], mux.msg.n) /\ mux.msg.n = asked[e]
    BY <1>1, <1>7, Facts, BatchHas
  <2>2. /\ Len(chan'[e]) = Len(chan[e]) + 1
        /\ \A i \in DOMAIN chan'[e] : chan'[e][i] = asked[e]
    <3>1. /\ DOMAIN Append(chan[e], mux.msg.n) = 1..(Len(chan[e]) + 1)
          /\ DOMAIN chan[e] = 1..Len(chan[e]) /\ Len(chan[e]) \in Nat
          /\ Len(Append(chan[e], mux.msg.n)) = Len(chan[e]) + 1
          /\ \A i \in 1..Len(chan[e]) : Append(chan[e], mux.msg.n)[i] = chan[e][i]
          /\ Append(chan[e], mux.msg.n)[Len(chan[e]) + 1] = mux.msg.n
      BY <1>3, <1>4, AppendProperties, LenProperties
    <3>2. \A i \in DOMAIN chan[e] : chan[e][i] = asked[e]
      BY BatchHas
    <3> QED
      BY <2>1, <3>1, <3>2
  <2>3. Sum(Waiting(down', e), mux'.msg.to, chan'[e], cur'[e],
            Answers(sendq', e), Answers(up', e), e)
        = Sum(Waiting(down, e), mux.msg.to, chan[e], cur[e],
              Answers(sendq, e), Answers(up, e), e)
    <3>1. /\ Answers(sendq', e) = Answers(sendq, e) /\ Answers(up', e) = Answers(up, e)
          /\ Waiting(down', e) = Waiting(down, e) /\ cur'[e] = cur[e]
      BY <1>1
    <3>2. mux.msg.to = e /\ Len(chan'[e]) = Len(chan[e]) + 1 /\ Len(chan[e]) \in Nat
      BY <1>7, <2>2, EvalerFacts
    <3>3. Waiting(down, e) \in Nat /\ Answers(sendq, e) \in Nat /\ Answers(up, e) \in Nat
      BY EvalerFacts
    <3> QED
      BY <1>2, <3>1, <3>2, <3>3, ReaderToChannel
  <2> QED
    BY <1>1, <1>2, <1>7, <2>2, <2>3, BatchHas, BatchBy
<1> QED
  BY <1>5, <1>6, <1>7

\* A step of one evaler's task or thread leaves the others' batches alone.
LEMMA BatchOther ==
  ASSUME NEW e, Batch(e),
         UNCHANGED <<asked, answered, down, mux, sendq, up, conn>>,
         chan'[e] = chan[e], cur'[e] = cur[e], queue'[e] = queue[e], resp'[e] = resp[e],
         task'[e] = task[e]
  PROVE  Batch(e)'
  BY BatchHas, BatchSame

LEMMA ChannelToTask ==
  ASSUME NEW e, NEW w \in Nat, NEW m, NEW ch, NEW k, NEW c, NEW d, NEW a \in Nat, NEW b \in Nat,
         Len(ch) \in Nat, Len(k) = Len(ch) - 1, c = 0, d # 0
  PROVE  Sum(w, m, k, d, a, b, e) = Sum(w, m, ch, c, a, b, e)
  BY DEF Sum

LEMMA TaskToSender ==
  ASSUME NEW e, NEW w \in Nat, NEW m, NEW ch, NEW c, NEW d, NEW a \in Nat, NEW b \in Nat,
         Len(ch) \in Nat, c # 0, d = 0
  PROVE  Sum(w, m, ch, d, a + 1, b, e) = Sum(w, m, ch, c, a, b, e)
<1> DEFINE r == IF m = e THEN 1 ELSE 0
           l == Len(ch)
<1>1. r \in Nat /\ l \in Nat
  OBVIOUS
<1>2. /\ Sum(w, m, ch, d, a + 1, b, e) = w + r + l + 0 + (a + 1) + b
      /\ Sum(w, m, ch, c, a, b, e) = w + r + l + 1 + a + b
  BY DEF Sum
<1> HIDE DEF r, l
<1> QED
  BY <1>1, <1>2

LEMMA HeldByTask ==
  ASSUME NEW e, NEW w \in Nat, NEW m, NEW ch, NEW c, NEW a \in Nat, NEW b \in Nat,
         Len(ch) \in Nat, c # 0, Sum(w, m, ch, c, a, b, e) \in {0, 1}
  PROVE  a = 0 /\ b = 0 /\ Sum(w, m, ch, c, a, b, e) = 1
  BY DEF Sum

LEMMA BatchTaskRecv ==
  ASSUME TypeOK, NEW d \in Evaler, TaskRecv(d), NEW e \in Evaler, Batch(e)
  PROVE  Batch(e)'
<1>1. /\ task[d] = "recv" /\ chan[d] # <<>>
      /\ cur' = [cur EXCEPT ![d] = Head(chan[d])]
      /\ chan' = [chan EXCEPT ![d] = Tail(chan[d])]
      /\ task' = [task EXCEPT ![d] = "post"]
      /\ UNCHANGED <<queue, resp, mux, sendq, down, up, conn, asked, answered>>
  BY DEF TaskRecv
<1>2. CASE e # d
  BY <1>1, <1>2, Facts, BatchOther
<1>3. CASE e = d
  <2>1. cur'[e] = Head(chan[e]) /\ chan'[e] = Tail(chan[e]) /\ task'[e] = "post"
    BY <1>1, <1>3, Facts
  <2>2. /\ Head(chan[e]) = chan[e][1] /\ 1 \in DOMAIN chan[e] /\ Head(chan[e]) \in 1..MaxBatches
        /\ Len(chan[e]) \in Nat /\ Len(Tail(chan[e])) = Len(chan[e]) - 1
        /\ \A i \in DOMAIN Tail(chan[e]) : i + 1 \in DOMAIN chan[e]
                                           /\ Tail(chan[e])[i] = chan[e][i + 1]
    <3>1. chan[e] \in Seq(1..MaxBatches) /\ chan[e] # <<>>
      BY <1>1, <1>3, EvalerFacts
    <3>2. Tail(chan[e]) \in Seq(1..MaxBatches) /\ Len(Tail(chan[e])) = Len(chan[e]) - 1
          /\ Head(chan[e]) \in 1..MaxBatches
      BY <3>1, HeadTailProperties
    <3>3. Len(chan[e]) \in Nat /\ Len(chan[e]) # 0
      BY <3>1, LenProperties, EmptySeq
    <3> QED
      BY <3>1, <3>2, <3>3, HeadTailProperties, LenProperties
  <2>3. /\ cur'[e] = asked[e] /\ cur'[e] # 0 /\ cur[e] = 0
        /\ \A i \in DOMAIN chan'[e] : chan'[e][i] = asked[e]
    <3>1. \A i \in DOMAIN chan[e] : chan[e][i] = asked[e]
      BY BatchHas
    <3>2. cur[e] = 0
      BY <1>1, <1>3, BatchHas
    <3> QED
      BY <2>1, <2>2, <3>1, <3>2, Bounds
  <2>4. Sum(Waiting(down', e), mux'.msg.to, chan'[e], cur'[e],
            Answers(sendq', e), Answers(up', e), e)
        = Sum(Waiting(down, e), mux.msg.to, chan[e], cur[e],
              Answers(sendq, e), Answers(up, e), e)
    <3>1. Len(chan'[e]) = Len(chan[e]) - 1 /\ Len(chan[e]) \in Nat
      BY <2>1, <2>2
    <3>2. Waiting(down, e) \in Nat /\ Answers(sendq, e) \in Nat /\ Answers(up, e) \in Nat
      BY EvalerFacts
    <3>3. Sum(Waiting(down, e), mux.msg.to, chan'[e], cur'[e],
              Answers(sendq, e), Answers(up, e), e)
          = Sum(Waiting(down, e), mux.msg.to, chan[e], cur[e],
                Answers(sendq, e), Answers(up, e), e)
      BY <2>3, <3>1, <3>2, ChannelToTask
    <3> QED
      BY <1>1, <3>3
  <2>5. queue'[e] = 0 /\ resp'[e] = 0 /\ task[e] # "gone"
    BY <1>1, <1>3, BatchHas
  <2> QED
    BY <1>1, <2>1, <2>3, <2>4, <2>5, BatchHas, BatchBy
<1> QED
  BY <1>2, <1>3

\* A task that panics while it has the batch: no answer is under way.
LEMMA BatchPanic ==
  ASSUME TypeOK, NEW d \in Evaler, Panic(d), task[d] \in {"post", "wait"},
         UNCHANGED <<queue, resp, mux, sendq, down, up, conn, asked, answered>>,
         NEW e \in Evaler, Batch(e)
  PROVE  Batch(e)'
<1>1. /\ task' = [task EXCEPT ![d] = "gone"] /\ cur' = [cur EXCEPT ![d] = 0]
      /\ chan' = [chan EXCEPT ![d] = <<>>]
  BY DEF Panic
<1>2. CASE e # d
  BY <1>1, <1>2, Facts, BatchOther
<1>3. CASE e = d
  <2>1. cur'[e] = 0 /\ chan'[e] = <<>> /\ task'[e] = "gone"
    BY <1>1, <1>3, Facts
  <2>2. cur[e] # 0 /\ task[e] # "gone"
    BY <1>3, BatchHas
  <2>3. conn = "open" => /\ asked[e] # answered[e]
                         /\ Answers(sendq, e) = 0 /\ Answers(up, e) = 0
    <3> SUFFICES ASSUME conn = "open"
                 PROVE  /\ asked[e] # answered[e]
                        /\ Answers(sendq, e) = 0 /\ Answers(up, e) = 0
      OBVIOUS
    <3>1. Sum(Waiting(down, e), mux.msg.to, chan[e], cur[e], Answers(sendq, e), Answers(up, e), e)
            = asked[e] - answered[e]
      BY <2>2, BatchHas
    <3>2. asked[e] - answered[e] \in {0, 1}
      BY BatchHas
    <3>3. /\ Answers(sendq, e) = 0 /\ Answers(up, e) = 0
          /\ asked[e] - answered[e] = 1
      BY <2>2, <3>1, <3>2, EvalerFacts, HeldByTask
    <3> QED
      BY <3>3, EvalerFacts
  <2>4. \A i \in DOMAIN chan'[e] : chan'[e][i] = asked[e]
    BY <2>1, EmptySeq
  <2>5. /\ Answers(sendq', e) = Answers(sendq, e) /\ Answers(up', e) = Answers(up, e)
        /\ AsksFor(down', e, asked'[e])
        /\ Replies(sendq', e, asked'[e]) /\ Replies(up', e, asked'[e])
    BY BatchHas
  <2> QED
    BY <2>1, <2>3, <2>4, <2>5, BatchHas, BatchBy
<1> QED
  BY <1>2, <1>3

LEMMA BatchTaskPost ==
  ASSUME TypeOK, NEW d \in Evaler, TaskPost(d), NEW e \in Evaler, Batch(e)
  PROVE  Batch(e)'
<1>1. /\ task[d] = "post"
      /\ UNCHANGED <<resp, mux, sendq, down, up, conn, asked, answered>>
  BY DEF TaskPost
<1>2. CASE thread[d] = "dead"
  <2>1. Panic(d) /\ UNCHANGED queue
    BY <1>2 DEF TaskPost
  <2> QED
    BY <1>1, <2>1, BatchPanic
<1>3. CASE thread[d] # "dead"
  <2>1. /\ queue' = [queue EXCEPT ![d] = cur[d]]
        /\ task' = [task EXCEPT ![d] = "wait"] /\ UNCHANGED <<cur, chan>>
    BY <1>3 DEF TaskPost
  <2>2. CASE e # d
    BY <1>1, <2>1, <2>2, Facts, BatchOther
  <2>3. CASE e = d
    <3>1. queue'[e] = cur[e] /\ task'[e] = "wait"
      BY <2>1, <2>3, Facts
    <3>2. cur[e] = asked[e] /\ cur[e] # 0 /\ resp[e] = 0
      BY <1>1, <2>3, BatchHas
    <3>3. Sum(Waiting(down', e), mux'.msg.to, chan'[e], cur'[e],
              Answers(sendq', e), Answers(up', e), e)
          = Sum(Waiting(down, e), mux.msg.to, chan[e], cur[e],
                Answers(sendq, e), Answers(up, e), e)
      BY <1>1, <2>1
    <3>4. conn = "open" =>
            Sum(Waiting(down, e), mux.msg.to, chan[e], cur[e],
                Answers(sendq, e), Answers(up, e), e) = asked[e] - answered[e]
      BY <1>1, <2>3, BatchHas
    <3> QED
      BY <1>1, <2>1, <3>1, <3>2, <3>3, <3>4, BatchHas, BatchBy
  <2> QED
    BY <2>2, <2>3
<1> QED
  BY <1>2, <1>3

LEMMA BatchTaskAwait ==
  ASSUME TypeOK, NEW d \in Evaler, TaskAwait(d), NEW e \in Evaler, Batch(e)
  PROVE  Batch(e)'
<1>1. /\ task[d] = "wait"
      /\ UNCHANGED <<queue, mux, sendq, down, up, conn, asked, answered>>
  BY DEF TaskAwait
<1>2. CASE resp[d] = 0
  <2>1. Panic(d) /\ UNCHANGED resp
    BY <1>2 DEF TaskAwait
  <2> QED
    BY <1>1, <2>1, BatchPanic
<1>3. CASE resp[d] # 0
  <2>1. /\ task' = [task EXCEPT ![d] = "reply"] /\ cur' = [cur EXCEPT ![d] = resp[d]]
        /\ resp' = [resp EXCEPT ![d] = 0] /\ UNCHANGED chan
    BY <1>3 DEF TaskAwait
  <2>2. CASE e # d
    BY <1>1, <2>1, <2>2, Facts, BatchOther
  <2>3. CASE e = d
    <3>1. cur'[e] = resp[e] /\ resp'[e] = 0 /\ task'[e] = "reply"
      BY <2>1, <2>3, Facts
    <3>2. cur[e] = asked[e] /\ cur[e] # 0 /\ resp[e] = asked[e] /\ queue[e] = 0
      BY <1>1, <1>3, <2>3, BatchHas
    <3>3. Sum(Waiting(down', e), mux'.msg.to, chan'[e], cur'[e],
              Answers(sendq', e), Answers(up', e), e)
          = Sum(Waiting(down, e), mux.msg.to, chan[e], cur[e],
                Answers(sendq, e), Answers(up, e), e)
      BY <1>1, <2>1, <3>1, <3>2
    <3>4. conn = "open" =>
            Sum(Waiting(down, e), mux.msg.to, chan[e], cur[e],
                Answers(sendq, e), Answers(up, e), e) = asked[e] - answered[e]
      BY <1>1, <2>3, BatchHas
    <3> QED
      BY <1>1, <2>1, <3>1, <3>2, <3>3, <3>4, BatchHas, BatchBy
  <2> QED
    BY <2>2, <2>3
<1> QED
  BY <1>2, <1>3

LEMMA BatchTaskReply ==
  ASSUME TypeOK, NEW d \in Evaler, TaskReply(d), NEW e \in Evaler, Batch(e)
  PROVE  Batch(e)'
<1> DEFINE m == Msg("evaluation", d, cur[d])
<1>1. /\ task[d] = "reply" /\ sendq' = Append(sendq, m)
      /\ task' = [task EXCEPT ![d] = "recv"] /\ cur' = [cur EXCEPT ![d] = 0]
      /\ UNCHANGED <<queue, resp, chan, mux, down, up, conn, asked, answered>>
  BY DEF TaskReply
<1>2. m \in Message /\ m.kind = "evaluation" /\ m.from = d /\ m.n = cur[d]
  BY EvalerFacts, Bounds DEF Msg, Message
<1> HIDE DEF m
<1>3. /\ Answers(sendq', e) = Answers(sendq, e) + IF d = e THEN 1 ELSE 0
      /\ Answers(sendq, e) \in Nat
      /\ (d = e => cur[d] = asked[e]) => Replies(sendq', e, asked[e])
  <2>1. sendq \in Seq(Message) /\ Replies(sendq, e, asked[e])
    BY Facts, BatchHas
  <2>2. /\ Answers(Append(sendq, m), e) = Answers(sendq, e) + IF d = e THEN 1 ELSE 0
        /\ Answers(sendq, e) \in Nat
        /\ (d = e => cur[d] = asked[e]) => Replies(Append(sendq, m), e, asked[e])
    BY <1>2, <2>1, ReplyAppend
  <2> QED
    BY <1>1, <2>2
<1>4. CASE e # d
  <2>1. cur'[e] = cur[e] /\ task'[e] = task[e]
    BY <1>1, <1>4, Facts
  <2>2. Answers(sendq', e) = Answers(sendq, e) /\ Replies(sendq', e, asked[e])
    BY <1>3, <1>4
  <2> QED
    BY <1>1, <2>1, <2>2, BatchHas, BatchSame
<1>5. CASE e = d
  <2>1. cur'[e] = 0 /\ task'[e] = "recv" /\ task[e] = "reply"
    BY <1>1, <1>5, Facts
  <2>2. cur[e] = asked[e] /\ cur[e] # 0 /\ queue[e] = 0 /\ resp[e] = 0
    BY <2>1, BatchHas
  <2>3. Answers(sendq', e) = Answers(sendq, e) + 1 /\ Replies(sendq', e, asked[e])
    BY <1>3, <1>5, <2>2
  <2>4. Sum(Waiting(down', e), mux'.msg.to, chan'[e], cur'[e],
            Answers(sendq', e), Answers(up', e), e)
        = Sum(Waiting(down, e), mux.msg.to, chan[e], cur[e],
              Answers(sendq, e), Answers(up, e), e)
    <3>1. Sum(Waiting(down, e), mux.msg.to, chan[e], cur'[e],
              Answers(sendq, e) + 1, Answers(up, e), e)
          = Sum(Waiting(down, e), mux.msg.to, chan[e], cur[e],
                Answers(sendq, e), Answers(up, e), e)
      BY <2>1, <2>2, EvalerFacts, TaskToSender
    <3> QED
      BY <1>1, <2>3, <3>1
  <2>5. conn = "open" =>
          Sum(Waiting(down, e), mux.msg.to, chan[e], cur[e],
              Answers(sendq, e), Answers(up, e), e) = asked[e] - answered[e]
    BY <2>1, BatchHas
  <2> QED
    BY <1>1, <2>1, <2>2, <2>3, <2>4, <2>5, BatchHas, BatchBy
<1> QED
  BY <1>4, <1>5

LEMMA BatchThreadDone ==
  ASSUME TypeOK, NEW d \in Evaler, ThreadDone(d), NEW e \in Evaler, Batch(e)
  PROVE  Batch(e)'
<1>1. /\ resp' = [resp EXCEPT ![d] = queue[d]] /\ queue' = [queue EXCEPT ![d] = 0]
      /\ UNCHANGED <<task, cur, chan, mux, sendq, down, up, conn, asked, answered>>
  BY DEF ThreadDone
<1>2. CASE e # d
  BY <1>1, <1>2, Facts, BatchOther
<1>3. CASE e = d
  <2>1. resp'[e] = queue[e] /\ queue'[e] = 0
    BY <1>1, <1>3, Facts
  <2> QED
    BY <1>1, <2>1, BatchHas, BatchSame
<1> QED
  BY <1>2, <1>3

LEMMA BatchThreadFails ==
  ASSUME TypeOK, NEW x, ThreadFails(x), NEW e \in Evaler, Batch(e)
  PROVE  Batch(e)'
<1>1. /\ queue'[e] = 0 \/ queue'[e] = queue[e]
      /\ UNCHANGED <<task, cur, resp, chan, mux, sendq, down, up, conn, asked, answered>>
  BY DEF ThreadFails
<1> QED
  BY <1>1, BatchHas, BatchSame

LEMMA BatchFireSent ==
  ASSUME TypeOK, NEW f \in Fuzzer, FireSent(f), NEW e \in Evaler, Batch(e)
  PROVE  Batch(e)'
<1> DEFINE m == Msg("testcase", f, fired[f])
<1>1. /\ sendq' = Append(sendq, m)
      /\ UNCHANGED <<task, cur, queue, resp, chan, mux, down, up, conn, asked, answered>>
  BY DEF FireSent
<1>2. m \in Message /\ m.kind # "evaluation"
  <2>1. fired[f] \in Nat /\ f \in Element
    BY Bounds DEF TypeOK
  <2> QED
    BY <2>1 DEF Msg, Message
<1> HIDE DEF m
<1>3. Answers(sendq', e) = Answers(sendq, e) /\ Replies(sendq', e, asked[e])
  <2>1. sendq \in Seq(Message) /\ Replies(sendq, e, asked[e])
    BY Facts, BatchHas
  <2>2. /\ Answers(Append(sendq, m), e) = Answers(sendq, e) + 0 /\ Answers(sendq, e) \in Nat
        /\ Replies(Append(sendq, m), e, asked[e])
    BY <1>2, <2>1, ReplyAppend
  <2> QED
    BY <1>1, <2>2
<1> QED
  BY <1>1, <1>3, BatchHas, BatchSame

LEMMA SenderToConnection ==
  ASSUME NEW e, NEW w \in Nat, NEW m, NEW ch, NEW c, NEW a \in Nat, NEW b \in Nat, NEW x \in Nat,
         Len(ch) \in Nat
  PROVE  Sum(w, m, ch, c, a, b + x, e) = Sum(w, m, ch, c, a + x, b, e)
<1> DEFINE p == IF m = e THEN 1 ELSE 0
           q == IF c # 0 THEN 1 ELSE 0
           l == Len(ch)
           r == w + p + l + q
<1>1. r \in Nat
  <2>1. p \in Nat /\ q \in Nat /\ l \in Nat
    OBVIOUS
  <2> HIDE DEF p, q, l
  <2> QED
    BY <2>1
<1>2. /\ Sum(w, m, ch, c, a, b + x, e) = r + a + (b + x)
      /\ Sum(w, m, ch, c, a + x, b, e) = r + (a + x) + b
  BY DEF Sum
<1> HIDE DEF r
<1> QED
  BY <1>1, <1>2

\* An answer that is read was the only place of the batch.
LEMMA LastAnswer ==
  ASSUME NEW e, NEW w \in Nat, NEW m, NEW ch, NEW c, NEW a \in Nat, NEW b \in Nat,
         Len(ch) \in Nat, Sum(w, m, ch, c, a, b + 1, e) \in {0, 1}
  PROVE  Sum(w, m, ch, c, a, b, e) = 0
<1> DEFINE p == IF m = e THEN 1 ELSE 0
           q == IF c # 0 THEN 1 ELSE 0
           l == Len(ch)
           r == w + p + l + q
<1>1. r \in Nat
  <2>1. p \in Nat /\ q \in Nat /\ l \in Nat
    OBVIOUS
  <2> HIDE DEF p, q, l
  <2> QED
    BY <2>1
<1>2. /\ Sum(w, m, ch, c, a, b + 1, e) = r + a + (b + 1)
      /\ Sum(w, m, ch, c, a, b, e) = r + a + b
  BY DEF Sum
<1> HIDE DEF r
<1> QED
  BY <1>1, <1>2

LEMMA BatchSendMsg ==
  ASSUME TypeOK, SendMsg, NEW e \in Evaler, Batch(e)
  PROVE  Batch(e)'
<1> DEFINE h == Head(sendq)
           x == IF h.kind = "evaluation" /\ h.from = e THEN 1 ELSE 0
<1>1. /\ sendq # <<>> /\ sendq' = Tail(sendq)
      /\ up' = IF conn = "open" THEN Append(up, h) ELSE up
      /\ UNCHANGED <<task, cur, queue, resp, chan, mux, down, conn, asked, answered>>
  BY DEF SendMsg
<1>2. /\ sendq \in Seq(Message) /\ up \in Seq(Message)
      /\ Replies(sendq, e, asked[e]) /\ Replies(up, e, asked[e])
  BY Facts, BatchHas
<1>3. /\ h \in Message
      /\ Answers(sendq, e) = Answers(sendq', e) + x /\ Answers(sendq', e) \in Nat
      /\ Replies(sendq', e, asked[e])
      /\ h.kind = "evaluation" /\ h.from = e => h.n = asked[e]
  <2>1. /\ h \in Message
        /\ Answers(sendq, e) = Answers(Tail(sendq), e) + x /\ Answers(Tail(sendq), e) \in Nat
        /\ Replies(Tail(sendq), e, asked[e])
        /\ h.kind = "evaluation" /\ h.from = e => h.n = asked[e]
    BY <1>1, <1>2, ReplyTail
  <2> QED
    BY <1>1, <2>1
<1> HIDE DEF h
<1>4. /\ Replies(up', e, asked[e])
      /\ conn = "open" => Answers(up', e) = Answers(up, e) + x
  <2>1. /\ Answers(Append(up, h), e) = Answers(up, e) + x
        /\ Replies(Append(up, h), e, asked[e])
    BY <1>2, <1>3, ReplyAppend
  <2> QED
    BY <1>1, <1>2, <2>1
<1>5. x \in {0, 1}
  OBVIOUS
<1> HIDE DEF x
<1>6. conn = "open" /\ task[e] = "gone" => /\ asked[e] # answered[e]
                                           /\ Answers(sendq', e) = 0 /\ Answers(up', e) = 0
  <2> SUFFICES ASSUME conn = "open", task[e] = "gone"
               PROVE  /\ asked[e] # answered[e]
                      /\ Answers(sendq', e) = 0 /\ Answers(up', e) = 0
    OBVIOUS
  <2>1. asked[e] # answered[e] /\ Answers(sendq, e) = 0 /\ Answers(up, e) = 0
    BY BatchHas
  <2> QED
    BY <1>3, <1>4, <1>5, <2>1
<1>7. conn = "open" =>
        Sum(Waiting(down', e), mux'.msg.to, chan'[e], cur'[e],
            Answers(sendq', e), Answers(up', e), e)
        = Sum(Waiting(down, e), mux.msg.to, chan[e], cur[e],
              Answers(sendq, e), Answers(up, e), e)
  <2> SUFFICES ASSUME conn = "open"
               PROVE  Sum(Waiting(down', e), mux'.msg.to, chan'[e], cur'[e],
                          Answers(sendq', e), Answers(up', e), e)
                      = Sum(Waiting(down, e), mux.msg.to, chan[e], cur[e],
                            Answers(sendq, e), Answers(up, e), e)
    OBVIOUS
  <2>1. Sum(Waiting(down, e), mux.msg.to, chan[e], cur[e],
            Answers(sendq', e), Answers(up, e) + x, e)
        = Sum(Waiting(down, e), mux.msg.to, chan[e], cur[e],
              Answers(sendq', e) + x, Answers(up, e), e)
    BY <1>3, <1>5, EvalerFacts, SenderToConnection
  <2> QED
    BY <1>1, <1>3, <1>4, <2>1
<1>8. task'[e] = task[e] /\ cur'[e] = cur[e] /\ queue'[e] = queue[e] /\ resp'[e] = resp[e]
      /\ chan'[e] = chan[e] /\ mux' = mux /\ down' = down /\ conn' = conn
      /\ asked'[e] = asked[e] /\ answered'[e] = answered[e]
  BY <1>1
<1> QED
  BY <1>3, <1>4, <1>6, <1>7, <1>8, BatchHas, BatchBy

LEMMA BatchMasterReads ==
  ASSUME TypeOK, MasterReads, NEW e \in Evaler, Batch(e)
  PROVE  Batch(e)'
<1> DEFINE h == Head(up)
<1>1. /\ up # <<>> /\ conn = "open" /\ up' = Tail(up)
      /\ answered' = IF h.kind = "evaluation" THEN [answered EXCEPT ![h.from] = h.n]
                     ELSE answered
      /\ UNCHANGED <<task, cur, queue, resp, chan, mux, sendq, down, conn, asked>>
  BY DEF MasterReads, agent
<1>2. /\ Answers(up, e) = Answers(up', e)
           + IF h.kind = "evaluation" /\ h.from = e THEN 1 ELSE 0
      /\ Answers(up', e) \in Nat
      /\ Replies(up', e, asked[e])
      /\ h.kind = "evaluation" /\ h.from = e => h.n = asked[e]
  <2>1. up \in Seq(Message) /\ Replies(up, e, asked[e])
    BY Facts, BatchHas
  <2>2. /\ Answers(up, e) = Answers(Tail(up), e)
             + IF h.kind = "evaluation" /\ h.from = e THEN 1 ELSE 0
        /\ Answers(Tail(up), e) \in Nat
        /\ Replies(Tail(up), e, asked[e])
        /\ h.kind = "evaluation" /\ h.from = e => h.n = asked[e]
    BY <1>1, <2>1, ReplyTail
  <2> QED
    BY <1>1, <2>2
<1> HIDE DEF h
<1>3. CASE h.kind = "evaluation" /\ h.from = e
  <2>1. answered'[e] = asked[e] /\ asked'[e] = asked[e]
    BY <1>1, <1>2, <1>3, Facts
  <2>2. Answers(up, e) = Answers(up', e) + 1 /\ Answers(up', e) \in Nat
    BY <1>2, <1>3
  <2>3. task[e] # "gone"
    BY <1>1, <2>2, BatchHas
  <2>4. Sum(Waiting(down', e), mux'.msg.to, chan'[e], cur'[e],
            Answers(sendq', e), Answers(up', e), e) = 0
    <3>1. Sum(Waiting(down, e), mux.msg.to, chan[e], cur[e],
              Answers(sendq, e), Answers(up, e), e) \in {0, 1}
      BY <1>1, <2>3, BatchHas
    <3>2. Sum(Waiting(down, e), mux.msg.to, chan[e], cur[e],
              Answers(sendq, e), Answers(up', e), e) = 0
      BY <2>2, <3>1, EvalerFacts, LastAnswer
    <3> QED
      BY <1>1, <3>2
  <2>5. asked'[e] - answered'[e] = 0
    BY <2>1, EvalerFacts
  <2> QED
    BY <1>1, <1>2, <2>1, <2>3, <2>4, <2>5, BatchHas, BatchBy
<1>4. CASE ~(h.kind = "evaluation" /\ h.from = e)
  <2>1. answered'[e] = answered[e]
    BY <1>1, <1>4, Facts
  <2>2. Answers(up', e) = Answers(up, e)
    BY <1>2, <1>4
  <2> QED
    BY <1>1, <1>2, <2>1, <2>2, BatchHas, BatchSame
<1> QED
  BY <1>3, <1>4

LEMMA NothingInFlight ==
  ASSUME NEW e, NEW w \in Nat, NEW m, NEW ch, NEW c, NEW a \in Nat, NEW b \in Nat,
         Len(ch) \in Nat, Sum(w, m, ch, c, a, b, e) = 0
  PROVE  w = 0 /\ m # e /\ Len(ch) = 0 /\ c = 0 /\ a = 0 /\ b = 0
<1> DEFINE p == IF m = e THEN 1 ELSE 0
           q == IF c # 0 THEN 1 ELSE 0
           l == Len(ch)
<1>1. p \in Nat /\ q \in Nat /\ l \in Nat
  OBVIOUS
<1>2. Sum(w, m, ch, c, a, b, e) = w + p + l + q + a + b
  BY DEF Sum
<1>3. (p = 0 => m # e) /\ (q = 0 => c = 0) /\ l = Len(ch)
  OBVIOUS
<1> HIDE DEF p, q, l
<1>4. w = 0 /\ p = 0 /\ l = 0 /\ q = 0 /\ a = 0 /\ b = 0
  BY <1>1, <1>2
<1> QED
  BY <1>3, <1>4

LEMMA OneRequest ==
  ASSUME NEW e, NEW w, NEW m, NEW ch, NEW c, NEW a, NEW b,
         w = 1, m # e, Len(ch) = 0, c = 0, a = 0, b = 0
  PROVE  Sum(w, m, ch, c, a, b, e) = 1
  BY DEF Sum

LEMMA BatchAsk ==
  ASSUME TypeOK, NEW d \in Evaler, Ask(d), NEW e \in Evaler, Batch(e)
  PROVE  Batch(e)'
<1> DEFINE m == [to |-> d, n |-> asked[d] + 1]
<1>1. /\ conn = "open" /\ asked[d] = answered[d] /\ asked[d] < MaxBatches
      /\ asked' = [asked EXCEPT ![d] = asked[d] + 1] /\ down' = Append(down, m)
      /\ UNCHANGED <<task, cur, queue, resp, chan, mux, sendq, up, conn, answered>>
  BY DEF Ask, agent
<1>2. m \in Request /\ m.to = d /\ m.n = asked[d] + 1
  BY <1>1, EvalerFacts, Bounds DEF Request
<1>3. down \in Seq(Request)
  BY Facts
<1> HIDE DEF m
<1>4. CASE e # d
  <2>1. asked'[e] = asked[e]
    BY <1>1, <1>4, Facts
  <2>2. Waiting(down', e) = Waiting(down, e) /\ AsksFor(down', e, asked[e])
    <3>1. AsksFor(down, e, asked[e])
      BY BatchHas
    <3>2. Waiting(Append(down, m), e) = Waiting(down, e) + 0 /\ Waiting(down, e) \in Nat
          /\ AsksFor(Append(down, m), e, asked[e])
      BY <1>2, <1>3, <1>4, <3>1, RequestAppend
    <3> QED
      BY <1>1, <3>2
  <2> QED
    BY <1>1, <2>1, <2>2, BatchHas, BatchSame
<1>5. CASE e = d
  <2>1. asked'[e] = asked[e] + 1 /\ answered'[e] = answered[e] /\ asked[e] = answered[e]
    BY <1>1, <1>5, Facts
  <2>2. task[e] # "gone"
    BY <1>1, <2>1, BatchHas
  <2>3. /\ Waiting(down, e) = 0 /\ mux.msg.to # e /\ Len(chan[e]) = 0 /\ cur[e] = 0
        /\ Answers(sendq, e) = 0 /\ Answers(up, e) = 0
    <3>1. Sum(Waiting(down, e), mux.msg.to, chan[e], cur[e],
              Answers(sendq, e), Answers(up, e), e) = asked[e] - answered[e]
      BY <1>1, <2>2, BatchHas
    <3>2. asked[e] - answered[e] = 0
      BY <2>1, EvalerFacts
    <3>3. /\ Waiting(down, e) \in Nat /\ Len(chan[e]) \in Nat
          /\ Answers(sendq, e) \in Nat /\ Answers(up, e) \in Nat
      BY EvalerFacts
    <3>4. Sum(Waiting(down, e), mux.msg.to, chan[e], cur[e],
              Answers(sendq, e), Answers(up, e), e) = 0
      BY <3>1, <3>2
    <3> QED
      BY <3>3, <3>4, NothingInFlight
  <2>4. Waiting(down', e) = Waiting(down, e) + 1 /\ AsksFor(down', e, asked[e] + 1)
    <3>1. AsksFor(down, e, asked[e] + 1)
      BY <1>2, <1>3, <2>3, RequestAppend
    <3>2. Waiting(Append(down, m), e) = Waiting(down, e) + 1
          /\ AsksFor(Append(down, m), e, asked[e] + 1)
      BY <1>2, <1>3, <1>5, <3>1, RequestAppend
    <3> QED
      BY <1>1, <3>2
  <2>5. \A i \in DOMAIN chan[e] : chan[e][i] = asked[e] + 1
    BY <2>3, EvalerFacts, LenProperties
  <2>6. task[e] = "recv" /\ queue[e] = 0 /\ resp[e] = 0
    BY <2>2, <2>3, BatchHas
  <2>7. Replies(sendq, e, asked[e] + 1) /\ Replies(up, e, asked[e] + 1)
    <3>1. /\ \A i \in DOMAIN sendq : ~(sendq[i].kind = "evaluation" /\ sendq[i].from = e)
          /\ \A i \in DOMAIN up : ~(up[i].kind = "evaluation" /\ up[i].from = e)
      BY <2>3, Facts, AnswersIs
    <3> QED
      BY <3>1 DEF Replies
  <2>8. asked'[e] - answered'[e] = 1
    BY <2>1, EvalerFacts
  <2>9. Sum(Waiting(down', e), mux'.msg.to, chan'[e], cur'[e],
            Answers(sendq', e), Answers(up', e), e) = 1
    <3>1. Waiting(down', e) = 1
      BY <2>3, <2>4
    <3>2. /\ mux' = mux /\ chan' = chan /\ cur' = cur
          /\ Answers(sendq', e) = Answers(sendq, e) /\ Answers(up', e) = Answers(up, e)
      BY <1>1
    <3> QED
      BY <2>3, <3>1, <3>2, OneRequest
  <2>10. /\ AsksFor(down', e, asked'[e])
         /\ mux'.msg.to # e
         /\ \A i \in DOMAIN chan'[e] : chan'[e][i] = asked'[e]
         /\ cur'[e] = 0 /\ queue'[e] = 0 /\ resp'[e] = 0 /\ task'[e] = "recv"
         /\ Replies(sendq', e, asked'[e]) /\ Replies(up', e, asked'[e])
    BY <1>1, <2>1, <2>3, <2>4, <2>5, <2>6, <2>7
  <2> QED
    BY <2>8, <2>9, <2>10, BatchBy
<1> QED
  BY <1>4, <1>5

-----------------------------------------------------------------------------
(* The types *)

ElementTypes ==
  /\ env \in Element \cup {None}
  /\ map \in [Element -> Element \cup {None}]
  /\ thread \in [Element -> {"shm", "build", "idle", "busy", "send", "dead"}]
  /\ fired \in [Fuzzer -> 0..MaxEvents]

EvalerTypes ==
  /\ task \in [Evaler -> {"recv", "post", "wait", "reply", "gone"}]
  /\ cur \in [Evaler -> 0..MaxBatches] /\ queue \in [Evaler -> 0..MaxBatches]
  /\ resp \in [Evaler -> 0..MaxBatches] /\ asked \in [Evaler -> 0..MaxBatches]
  /\ answered \in [Evaler -> 0..MaxBatches]
  /\ chan \in [Evaler -> Seq(1..MaxBatches)]
  /\ \A e \in Evaler : Len(chan[e]) <= ChanCap

QueueTypes ==
  /\ mux \in [pc : {"read", "send", "ended"},
              msg : [to : Evaler \cup {None}, n : 0..MaxBatches]]
  /\ sendq \in Seq(Message) /\ Len(sendq) <= SendCap
  /\ up \in Seq(Message) /\ Len(up) <= TcpCap
  /\ down \in Seq(Request)
  /\ conn \in {"open", "closed"}

LEMMA TypeIs == TypeOK <=> ElementTypes /\ EvalerTypes /\ QueueTypes
  BY DEF TypeOK, ElementTypes, EvalerTypes, QueueTypes, Message, Request

LEMMA TypeNext ==
  ASSUME ElementTypes', EvalerTypes', QueueTypes'
  PROVE  TypeOK'
  BY DEF TypeOK, ElementTypes, EvalerTypes, QueueTypes, Message, Request

LEMMA SameElementTypes ==
  ASSUME TypeOK, UNCHANGED <<env, map, thread, fired>>
  PROVE  ElementTypes'
  BY TypeIs DEF ElementTypes

LEMMA SameEvalerTypes ==
  ASSUME TypeOK, UNCHANGED <<task, cur, queue, resp, asked, answered, chan>>
  PROVE  EvalerTypes'
  BY TypeIs DEF EvalerTypes

LEMMA SameQueueTypes ==
  ASSUME TypeOK, MuxShape, UNCHANGED <<mux, sendq, up, down>>, conn' \in {"open", "closed"}
  PROVE  QueueTypes' /\ MuxShape'
<1>1. QueueTypes'
  BY TypeIs DEF QueueTypes
<1>2. MuxShape'
  BY DEF MuxShape
<1> QED
  BY <1>1, <1>2

LEMMA ConnIs ==
  ASSUME TypeOK
  PROVE  conn \in {"open", "closed"}
  BY DEF TypeOK

LEMMA TypesStart ==
  ASSUME TypeOK, MuxShape, NEW x \in Element,
         Start(x) \/ ThreadFails(x)
  PROVE  TypeOK' /\ MuxShape'
<1>1. CASE WriteEnv(x)
  <2>1. ElementTypes'
    BY <1>1, TypeIs DEF WriteEnv, ElementTypes
  <2>2. EvalerTypes' /\ QueueTypes' /\ MuxShape'
    BY <1>1, SameEvalerTypes, SameQueueTypes, ConnIs DEF WriteEnv
  <2> QED
    BY <2>1, <2>2, TypeNext
<1>2. ASSUME NEW ok \in BOOLEAN, BuildExecutor(x, ok) PROVE TypeOK' /\ MuxShape'
  <2>1. ElementTypes'
    <3>1. /\ map' = map \/ map' = [map EXCEPT ![x] = env]
          /\ \/ thread' = [thread EXCEPT ![x] = "idle"]
             \/ thread' = [thread EXCEPT ![x] = "dead"]
          /\ UNCHANGED <<env, fired>>
      BY <1>2 DEF BuildExecutor
    <3> QED
      BY <3>1, TypeIs DEF ElementTypes
  <2>2. EvalerTypes' /\ QueueTypes' /\ MuxShape'
    BY <1>2, SameEvalerTypes, SameQueueTypes, ConnIs DEF BuildExecutor
  <2> QED
    BY <2>1, <2>2, TypeNext
<1>3. CASE ThreadFails(x)
  <2>1. ElementTypes'
    BY <1>3, TypeIs DEF ThreadFails, ElementTypes
  <2>2. EvalerTypes'
    <3>1. queue' = [e \in Evaler |-> IF e = x THEN 0 ELSE queue[e]]
          /\ UNCHANGED <<task, cur, resp, asked, answered, chan>>
      BY <1>3 DEF ThreadFails
    <3>2. queue' \in [Evaler -> 0..MaxBatches]
      BY <3>1, Facts, Bounds
    <3> QED
      BY <3>1, <3>2, TypeIs DEF EvalerTypes
  <2>3. QueueTypes' /\ MuxShape'
    BY <1>3, SameQueueTypes, ConnIs DEF ThreadFails
  <2> QED
    BY <2>1, <2>2, <2>3, TypeNext
<1> QED
  BY <1>1, <1>2, <1>3 DEF Start

LEMMA TypesMux ==
  ASSUME TypeOK, MuxShape, Mux
  PROVE  TypeOK' /\ MuxShape'
<1>1. CASE MuxRead
  <2>1. ElementTypes' /\ EvalerTypes'
    BY <1>1, SameElementTypes, SameEvalerTypes DEF MuxRead
  <2>2. /\ down' = Tail(down) /\ down # <<>> /\ UNCHANGED <<sendq, up, conn>>
        /\ mux' = mux \/ mux' = [pc |-> "send", msg |-> Head(down)]
    BY <1>1 DEF MuxRead
  <2>3. Head(down) \in Request /\ Tail(down) \in Seq(Request)
    BY <2>2, Facts, RequestTail
  <2>4. Head(down) \in [to : Evaler \cup {None}, n : 0..MaxBatches]
    BY <2>3, Bounds DEF Request
  <2>5. QueueTypes'
    BY <2>2, <2>3, <2>4, TypeIs DEF QueueTypes
  <2>6. MuxShape'
    BY <2>2, <2>3 DEF MuxShape
  <2> QED
    BY <2>1, <2>5, <2>6, TypeNext
<1>2. CASE MuxSend
  <2> DEFINE d == mux.msg.to
  <2>1. /\ mux.pc = "send" /\ mux' = [pc |-> "read", msg |-> NoMsg]
        /\ task[d] = "gone" \/ Len(chan[d]) < ChanCap
        /\ chan' = IF task[d] = "gone" THEN chan
                   ELSE [chan EXCEPT ![d] = Append(@, mux.msg.n)]
        /\ UNCHANGED <<task, cur, queue, resp, asked, answered, sendq, up, down, conn>>
    BY <1>2 DEF MuxSend, Closed
  <2>2. d \in Evaler /\ mux.msg.n \in 1..MaxBatches
    BY <2>1 DEF MuxShape, Request
  <2>3. ElementTypes'
    BY <1>2, SameElementTypes DEF MuxSend
  <2>4. EvalerTypes'
    <3>1. CASE task[d] = "gone"
      BY <2>1, <3>1, SameEvalerTypes
    <3>2. CASE task[d] # "gone"
      <4>1. chan[d] \in Seq(1..MaxBatches) /\ Len(chan[d]) < ChanCap
        BY <2>1, <2>2, <3>2, EvalerFacts
      <4>2. /\ Append(chan[d], mux.msg.n) \in Seq(1..MaxBatches)
            /\ Len(Append(chan[d], mux.msg.n)) = Len(chan[d]) + 1
        BY <2>2, <4>1, AppendProperties
      <4>3. Len(Append(chan[d], mux.msg.n)) <= ChanCap
        BY <4>1, <4>2, Bounds, LenProperties
      <4>4. chan' = [chan EXCEPT ![d] = Append(chan[d], mux.msg.n)]
        BY <2>1, <3>2
      <4> HIDE DEF d
      <4>5. chan' \in [Evaler -> Seq(1..MaxBatches)]
        BY <4>2, <4>4, Facts
      <4>6. \A e \in Evaler : Len(chan'[e]) <= ChanCap
        BY <2>2, <4>3, <4>4, TypeIs DEF EvalerTypes
      <4> QED
        BY <2>1, <4>5, <4>6, TypeIs DEF EvalerTypes
    <3> QED
      BY <3>1, <3>2
  <2>5. QueueTypes'
    <3>1. mux' \in [pc : {"read", "send", "ended"},
                    msg : [to : Evaler \cup {None}, n : 0..MaxBatches]]
      BY <2>1, Bounds DEF NoMsg
    <3> QED
      BY <2>1, <3>1, TypeIs DEF QueueTypes
  <2>6. MuxShape'
    BY <2>1 DEF MuxShape
  <2> QED
    BY <2>3, <2>4, <2>5, <2>6, TypeNext
<1>3. CASE MuxEnds
  <2>1. ElementTypes' /\ EvalerTypes'
    BY <1>3, SameElementTypes, SameEvalerTypes DEF MuxEnds
  <2>2. mux.pc = "read" /\ mux' = [mux EXCEPT !.pc = "ended"] /\ UNCHANGED <<sendq, up, down, conn>>
    BY <1>3 DEF MuxEnds
  <2>3. mux'.pc = "ended" /\ mux'.msg = mux.msg
        /\ mux' \in [pc : {"read", "send", "ended"},
                     msg : [to : Evaler \cup {None}, n : 0..MaxBatches]]
    BY <2>2, Facts
  <2>4. QueueTypes'
    BY <2>2, <2>3, TypeIs DEF QueueTypes
  <2>5. MuxShape'
    BY <2>2, <2>3 DEF MuxShape
  <2> QED
    BY <2>1, <2>4, <2>5, TypeNext
<1> QED
  BY <1>1, <1>2, <1>3 DEF Mux

LEMMA TypesPanic ==
  ASSUME TypeOK, MuxShape, NEW e \in Evaler, Panic(e),
         UNCHANGED <<env, map, thread, fired, queue, resp, mux, sendq, down, up, conn, asked,
                     answered>>
  PROVE  TypeOK' /\ MuxShape'
<1>1. EvalerTypes'
  <2>1. /\ task' = [task EXCEPT ![e] = "gone"] /\ cur' = [cur EXCEPT ![e] = 0]
        /\ chan' = [chan EXCEPT ![e] = <<>>]
    BY DEF Panic
  <2>2. <<>> \in Seq(1..MaxBatches) /\ Len(<<>>) = 0
    BY EmptySeq
  <2>3. cur' \in [Evaler -> 0..MaxBatches]
    BY <2>1, Facts, Bounds
  <2>4. chan' \in [Evaler -> Seq(1..MaxBatches)] /\ \A x \in Evaler : Len(chan'[x]) <= ChanCap
    BY <2>1, <2>2, Bounds, TypeIs DEF EvalerTypes
  <2> QED
    BY <2>1, <2>3, <2>4, TypeIs DEF EvalerTypes
<1> QED
  BY <1>1, SameElementTypes, SameQueueTypes, ConnIs, TypeNext

LEMMA TypesTask ==
  ASSUME TypeOK, MuxShape, NEW e \in Evaler, Task(e)
  PROVE  TypeOK' /\ MuxShape'
<1>1. CASE TaskRecv(e)
  <2>1. EvalerTypes'
    <3>1. /\ chan[e] # <<>> /\ cur' = [cur EXCEPT ![e] = Head(chan[e])]
          /\ chan' = [chan EXCEPT ![e] = Tail(chan[e])]
          /\ task' = [task EXCEPT ![e] = "post"] /\ UNCHANGED <<queue, resp, asked, answered>>
      BY <1>1 DEF TaskRecv
    <3>2. chan[e] \in Seq(1..MaxBatches) /\ Len(chan[e]) <= ChanCap
      BY TypeIs DEF EvalerTypes
    <3>3. /\ Head(chan[e]) \in 1..MaxBatches /\ Tail(chan[e]) \in Seq(1..MaxBatches)
          /\ Len(Tail(chan[e])) = Len(chan[e]) - 1
      BY <3>1, <3>2, HeadTailProperties
    <3>4. Len(Tail(chan[e])) <= ChanCap
      BY <3>2, <3>3, Bounds, LenProperties
    <3>5. cur' \in [Evaler -> 0..MaxBatches]
      <4>1. 1..MaxBatches \subseteq 0..MaxBatches
        BY Bounds
      <4>2. cur \in [Evaler -> 0..MaxBatches]
        BY Facts
      <4> QED
        BY <3>1, <3>3, <4>1, <4>2
    <3>6. chan' \in [Evaler -> Seq(1..MaxBatches)] /\ \A x \in Evaler : Len(chan'[x]) <= ChanCap
      BY <3>1, <3>3, <3>4, TypeIs DEF EvalerTypes
    <3> QED
      BY <3>1, <3>5, <3>6, TypeIs DEF EvalerTypes
  <2>2. ElementTypes' /\ QueueTypes' /\ MuxShape'
    BY <1>1, SameElementTypes, SameQueueTypes, ConnIs DEF TaskRecv
  <2> QED
    BY <2>1, <2>2, TypeNext
<1>2. CASE TaskPost(e)
  <2>1. UNCHANGED <<env, map, thread, fired, resp, mux, sendq, down, up, conn, asked, answered>>
    BY <1>2 DEF TaskPost
  <2>2. CASE thread[e] = "dead"
    <3>1. Panic(e) /\ UNCHANGED queue
      BY <1>2, <2>2 DEF TaskPost
    <3> QED
      BY <2>1, <3>1, TypesPanic
  <2>3. CASE thread[e] # "dead"
    <3>1. EvalerTypes'
      <4>1. /\ queue' = [queue EXCEPT ![e] = cur[e]] /\ task' = [task EXCEPT ![e] = "wait"]
            /\ UNCHANGED <<cur, chan>>
        BY <1>2, <2>3 DEF TaskPost
      <4> QED
        BY <2>1, <4>1, TypeIs DEF EvalerTypes
    <3> QED
      BY <2>1, <3>1, SameElementTypes, SameQueueTypes, ConnIs, TypeNext
  <2> QED
    BY <2>2, <2>3
<1>3. CASE TaskAwait(e)
  <2>1. UNCHANGED <<env, map, thread, fired, queue, mux, sendq, down, up, conn, asked, answered>>
    BY <1>3 DEF TaskAwait
  <2>2. CASE resp[e] = 0
    <3>1. Panic(e) /\ UNCHANGED resp
      BY <1>3, <2>2 DEF TaskAwait
    <3> QED
      BY <2>1, <3>1, TypesPanic
  <2>3. CASE resp[e] # 0
    <3>1. EvalerTypes'
      <4>1. /\ task' = [task EXCEPT ![e] = "reply"] /\ cur' = [cur EXCEPT ![e] = resp[e]]
            /\ resp' = [resp EXCEPT ![e] = 0] /\ UNCHANGED chan
        BY <1>3, <2>3 DEF TaskAwait
      <4>2. resp' \in [Evaler -> 0..MaxBatches] /\ cur' \in [Evaler -> 0..MaxBatches]
        <5>1. /\ cur \in [Evaler -> 0..MaxBatches] /\ resp \in [Evaler -> 0..MaxBatches]
              /\ 0 \in 0..MaxBatches
          BY ZeroBatches, Facts
        <5> QED
          BY <4>1, <5>1
      <4> QED
        BY <2>1, <4>1, <4>2, TypeIs DEF EvalerTypes
    <3> QED
      BY <2>1, <3>1, SameElementTypes, SameQueueTypes, ConnIs, TypeNext
  <2> QED
    BY <2>2, <2>3
<1>4. CASE TaskReply(e)
  <2> DEFINE m == Msg("evaluation", e, cur[e])
  <2>1. /\ Len(sendq) < SendCap /\ sendq' = Append(sendq, m)
        /\ task' = [task EXCEPT ![e] = "recv"] /\ cur' = [cur EXCEPT ![e] = 0]
        /\ UNCHANGED <<queue, resp, chan, mux, down, up, conn, asked, answered>>
    BY <1>4 DEF TaskReply
  <2>2. EvalerTypes'
    <3>1. cur' \in [Evaler -> 0..MaxBatches]
      BY <2>1, Facts, Bounds
    <3> QED
      BY <2>1, <3>1, TypeIs DEF EvalerTypes
  <2>3. m \in Message
    BY EvalerFacts, Bounds DEF Msg, Message
  <2> HIDE DEF m
  <2>4. QueueTypes'
    <3>1. sendq' \in Seq(Message) /\ Len(sendq') = Len(sendq) + 1
      BY <2>1, <2>3, Facts, AppendProperties
    <3>2. Len(sendq') <= SendCap
      BY <2>1, <3>1, Facts, Bounds, LenProperties
    <3> QED
      BY <2>1, <3>1, <3>2, TypeIs DEF QueueTypes
  <2>5. MuxShape'
    BY <2>1 DEF MuxShape
  <2>6. ElementTypes'
    BY <1>4, SameElementTypes DEF TaskReply
  <2> QED
    BY <2>2, <2>4, <2>5, <2>6, TypeNext
<1> QED
  BY <1>1, <1>2, <1>3, <1>4 DEF Task

LEMMA TypesEvaluating ==
  ASSUME TypeOK, MuxShape, NEW e \in Evaler, Evaluating(e)
  PROVE  TypeOK' /\ MuxShape'
<1>1. CASE ThreadTake(e)
  <2>1. ElementTypes'
    BY <1>1, Bounds, TypeIs DEF ThreadTake, ElementTypes
  <2>2. EvalerTypes' /\ QueueTypes' /\ MuxShape'
    BY <1>1, SameEvalerTypes, SameQueueTypes, ConnIs DEF ThreadTake
  <2> QED
    BY <2>1, <2>2, TypeNext
<1>2. CASE ThreadDone(e)
  <2>1. ElementTypes'
    BY <1>2, Bounds, TypeIs DEF ThreadDone, ElementTypes
  <2>2. EvalerTypes'
    <3>1. /\ resp' = [resp EXCEPT ![e] = queue[e]] /\ queue' = [queue EXCEPT ![e] = 0]
          /\ UNCHANGED <<task, cur, chan, asked, answered>>
      BY <1>2 DEF ThreadDone
    <3>2. /\ queue \in [Evaler -> 0..MaxBatches] /\ resp \in [Evaler -> 0..MaxBatches]
          /\ 0 \in 0..MaxBatches
      BY ZeroBatches, Facts
    <3>3. resp' \in [Evaler -> 0..MaxBatches] /\ queue' \in [Evaler -> 0..MaxBatches]
      BY <3>1, <3>2
    <3> QED
      BY <3>1, <3>3, TypeIs DEF EvalerTypes
  <2>3. QueueTypes' /\ MuxShape'
    BY <1>2, SameQueueTypes, ConnIs DEF ThreadDone
  <2> QED
    BY <2>1, <2>2, <2>3, TypeNext
<1> QED
  BY <1>1, <1>2 DEF Evaluating

LEMMA TypesFuzzer ==
  ASSUME TypeOK, MuxShape, NEW f \in Fuzzer, Fire(f) \/ FireSent(f)
  PROVE  TypeOK' /\ MuxShape'
<1>1. CASE Fire(f)
  <2>1. ElementTypes'
    <3>1. /\ fired[f] < MaxEvents /\ fired' = [fired EXCEPT ![f] = @ + 1]
          /\ thread' = [thread EXCEPT ![f] = "send"] /\ UNCHANGED <<env, map>>
      BY <1>1 DEF Fire
    <3>2. fired \in [Fuzzer -> 0..MaxEvents]
      BY TypeIs DEF ElementTypes
    <3>3. fired' \in [Fuzzer -> 0..MaxEvents]
      BY <3>1, <3>2, Bounds
    <3> QED
      BY <3>1, <3>3, Bounds, TypeIs DEF ElementTypes
  <2>2. EvalerTypes' /\ QueueTypes' /\ MuxShape'
    BY <1>1, SameEvalerTypes, SameQueueTypes, ConnIs DEF Fire
  <2> QED
    BY <2>1, <2>2, TypeNext
<1>2. CASE FireSent(f)
  <2> DEFINE m == Msg("testcase", f, fired[f])
  <2>1. /\ Len(sendq) < SendCap /\ sendq' = Append(sendq, m)
        /\ thread' = [thread EXCEPT ![f] = "idle"]
        /\ UNCHANGED <<env, map, fired, mux, down, up, conn>>
    BY <1>2 DEF FireSent
  <2>2. ElementTypes'
    BY <2>1, Bounds, TypeIs DEF ElementTypes
  <2>3. m \in Message
    <3>1. fired[f] \in Nat /\ f \in Element
      BY Bounds, TypeIs DEF ElementTypes
    <3> QED
      BY <3>1 DEF Msg, Message
  <2> HIDE DEF m
  <2>4. QueueTypes'
    <3>1. sendq' \in Seq(Message) /\ Len(sendq') = Len(sendq) + 1
      BY <2>1, <2>3, Facts, AppendProperties
    <3>2. Len(sendq') <= SendCap
      BY <2>1, <3>1, Facts, Bounds, LenProperties
    <3> QED
      BY <2>1, <3>1, <3>2, TypeIs DEF QueueTypes
  <2>5. MuxShape'
    BY <2>1 DEF MuxShape
  <2>6. EvalerTypes'
    BY <1>2, SameEvalerTypes DEF FireSent
  <2> QED
    BY <2>2, <2>4, <2>5, <2>6, TypeNext
<1> QED
  BY <1>1, <1>2

LEMMA TypesSendMsg ==
  ASSUME TypeOK, MuxShape, SendMsg
  PROVE  TypeOK' /\ MuxShape'
<1> DEFINE h == Head(sendq)
<1>1. /\ sendq # <<>> /\ sendq' = Tail(sendq) /\ (conn = "open" => Len(up) < TcpCap)
      /\ up' = IF conn = "open" THEN Append(up, h) ELSE up
      /\ UNCHANGED <<mux, down, conn>>
  BY DEF SendMsg
<1>2. /\ sendq \in Seq(Message) /\ up \in Seq(Message)
      /\ Len(sendq) <= SendCap /\ Len(up) <= TcpCap
  BY TypeIs DEF QueueTypes
<1>3. h \in Message /\ sendq' \in Seq(Message) /\ Len(sendq') = Len(sendq) - 1
  BY <1>1, <1>2, HeadTailProperties
<1> HIDE DEF h
<1>4. Len(sendq') <= SendCap
  BY <1>2, <1>3, Bounds, LenProperties
<1>5. up' \in Seq(Message) /\ Len(up') <= TcpCap
  <2>1. Append(up, h) \in Seq(Message) /\ Len(Append(up, h)) = Len(up) + 1
    BY <1>2, <1>3, AppendProperties
  <2>2. conn = "open" => Len(Append(up, h)) <= TcpCap
    BY <1>1, <1>2, <2>1, Bounds, LenProperties
  <2> QED
    BY <1>1, <1>2, <2>1, <2>2
<1>6. QueueTypes'
  BY <1>1, <1>3, <1>4, <1>5, TypeIs DEF QueueTypes
<1>7. MuxShape'
  BY <1>1 DEF MuxShape
<1>8. ElementTypes' /\ EvalerTypes'
  BY SameElementTypes, SameEvalerTypes DEF SendMsg
<1> QED
  BY <1>6, <1>7, <1>8, TypeNext

LEMMA TypesMasterReads ==
  ASSUME TypeOK, MuxShape, \A e \in Evaler : Batch(e), MasterReads
  PROVE  TypeOK' /\ MuxShape'
<1> DEFINE h == Head(up)
<1>1. /\ up # <<>> /\ up' = Tail(up)
      /\ answered' = IF h.kind = "evaluation" THEN [answered EXCEPT ![h.from] = h.n]
                     ELSE answered
      /\ UNCHANGED <<task, cur, queue, resp, chan, asked, mux, sendq, down, conn>>
  BY DEF MasterReads, agent
<1>2. up \in Seq(Message) /\ Len(up) <= TcpCap
  BY TypeIs DEF QueueTypes
<1>3. up' \in Seq(Message) /\ Len(up') = Len(up) - 1
  BY <1>1, <1>2, HeadTailProperties
<1>4. Len(up') <= TcpCap
  BY <1>2, <1>3, Bounds, LenProperties
<1>5. QueueTypes'
  BY <1>1, <1>3, <1>4, TypeIs DEF QueueTypes
<1>6. h.kind = "evaluation" /\ h.from \in Evaler => h.n \in 0..MaxBatches
  <2> SUFFICES ASSUME h.kind = "evaluation", h.from \in Evaler PROVE h.n \in 0..MaxBatches
    OBVIOUS
  <2>1. Batch(h.from)
    OBVIOUS
  <2>2. Replies(up, h.from, asked[h.from])
    BY <2>1, BatchHas
  <2>3. h.n = asked[h.from]
    BY <1>1, <1>2, <2>2, ReplyTail
  <2> QED
    BY <2>3, Facts
<1> HIDE DEF h
<1>7. answered' \in [Evaler -> 0..MaxBatches]
  BY <1>1, <1>6, Facts
<1>8. EvalerTypes'
  BY <1>1, <1>7, TypeIs DEF EvalerTypes
<1>9. MuxShape'
  BY <1>1 DEF MuxShape
<1>10. ElementTypes'
  BY SameElementTypes DEF MasterReads, agent
<1> QED
  BY <1>5, <1>8, <1>9, <1>10, TypeNext

LEMMA TypesAsk ==
  ASSUME TypeOK, MuxShape, NEW e \in Evaler, Ask(e)
  PROVE  TypeOK' /\ MuxShape'
<1> DEFINE m == [to |-> e, n |-> asked[e] + 1]
<1>1. /\ asked[e] < MaxBatches /\ asked' = [asked EXCEPT ![e] = asked[e] + 1]
      /\ down' = Append(down, m)
      /\ UNCHANGED <<task, cur, queue, resp, chan, answered, mux, sendq, up, conn>>
  BY DEF Ask, agent
<1>2. m \in Request /\ asked[e] + 1 \in 0..MaxBatches
  BY <1>1, EvalerFacts, Bounds DEF Request
<1> HIDE DEF m
<1>3. down' \in Seq(Request)
  BY <1>1, <1>2, Facts, AppendProperties
<1>4. QueueTypes'
  BY <1>1, <1>3, TypeIs DEF QueueTypes
<1>5. EvalerTypes'
  BY <1>1, <1>2, TypeIs DEF EvalerTypes
<1>6. MuxShape'
  BY <1>1 DEF MuxShape
<1>7. ElementTypes'
  BY SameElementTypes DEF Ask, agent
<1> QED
  BY <1>4, <1>5, <1>6, <1>7, TypeNext

LEMMA TypesLose ==
  ASSUME TypeOK, MuxShape, Lose
  PROVE  TypeOK' /\ MuxShape'
<1>1. UNCHANGED <<env, map, thread, fired, task, cur, queue, resp, asked, answered, chan, mux,
                  sendq, up, down>> /\ conn' = "closed"
  BY DEF Lose, agent
<1> QED
  BY <1>1, SameElementTypes, SameEvalerTypes, SameQueueTypes, TypeNext

-----------------------------------------------------------------------------
(* The invariant *)

LEMMA InvariantInit == Init => IInv
<1> SUFFICES ASSUME Init PROVE IInv
  OBVIOUS
<1>1. <<>> \in Seq(Request) /\ <<>> \in Seq(Message) /\ <<>> \in Seq(1..MaxBatches)
      /\ DOMAIN <<>> = {} /\ Len(<<>>) = 0
  BY EmptySeq
<1>2. TypeOK
  <2>1. ElementTypes
    BY Bounds DEF Init, ElementTypes
  <2>2. EvalerTypes
    BY <1>1, Bounds DEF Init, EvalerTypes
  <2>3. QueueTypes
    BY <1>1, Bounds DEF Init, QueueTypes, NoMsg
  <2> QED
    BY <2>1, <2>2, <2>3, TypeIs
<1>3. MuxShape
  BY DEF Init, MuxShape
<1>4. ASSUME NEW e \in Evaler PROVE Batch(e)
  <2>1. down = <<>> /\ sendq = <<>> /\ up = <<>> /\ chan[e] = <<>> /\ mux.msg.to # e
    BY Bounds DEF Init, NoMsg
  <2>2. /\ asked[e] = 0 /\ answered[e] = 0 /\ cur[e] = 0 /\ queue[e] = 0 /\ resp[e] = 0
        /\ task[e] = "recv"
    BY DEF Init
  <2>3. Waiting(down, e) = 0 /\ Answers(sendq, e) = 0 /\ Answers(up, e) = 0
    <3>1. {i \in DOMAIN down : down[i].to = e} = {}
      BY <1>1, <2>1
    <3>2. /\ {i \in DOMAIN sendq : sendq[i].kind = "evaluation" /\ sendq[i].from = e} = {}
          /\ {i \in DOMAIN up : up[i].kind = "evaluation" /\ up[i].from = e} = {}
      BY <1>1, <2>1
    <3> QED
      BY <3>1, <3>2, FS_EmptySet DEF Waiting, Answers
  <2>4. Turn(e) /\ Working(e)
    BY <2>2 DEF Turn, Working
  <2>5. Numbers(e)
    BY <1>1, <2>1, <2>2 DEF Numbers, AsksFor, Replies
  <2>6. Unanswered(e)
    BY <2>2 DEF Unanswered
  <2>7. InFlight(e) = 0
    BY <1>1, <2>1, <2>2, <2>3, InFlightIs DEF Sum
  <2>8. Counted(e)
    BY <2>2, <2>7 DEF Counted
  <2> QED
    BY <2>4, <2>5, <2>6, <2>8 DEF Batch
<1> QED
  BY <1>2, <1>3, <1>4 DEF IInv

LEMMA InvariantNext == IInv /\ [Next]_vars => IInv'
<1> SUFFICES ASSUME IInv, [Next]_vars PROVE IInv'
  OBVIOUS
<1>1. TypeOK /\ MuxShape /\ \A e \in Evaler : Batch(e)
  BY DEF IInv
<1>2. ASSUME TypeOK' /\ MuxShape', \A e \in Evaler : Batch(e)'
      PROVE  IInv'
  BY <1>2 DEF IInv
<1>3. CASE Mux
  <2>1. ASSUME NEW e \in Evaler PROVE Batch(e)'
    <3>1. CASE MuxRead
      BY <1>1, <3>1, BatchMuxRead
    <3>2. CASE MuxSend
      BY <1>1, <3>2, BatchMuxSend
    <3>3. CASE MuxEnds
      <4>1. /\ UNCHANGED <<asked, answered, down, chan, cur, queue, resp, task, sendq, up, conn>>
            /\ mux'.msg = mux.msg
        BY <1>1, <3>3, Facts DEF MuxEnds
      <4> QED
        BY <1>1, <4>1, BatchUnmoved
    <3> QED
      BY <1>3, <3>1, <3>2, <3>3 DEF Mux
  <2> QED
    BY <1>1, <1>2, <1>3, <2>1, TypesMux
<1>4. CASE SendMsg
  BY <1>1, <1>2, <1>4, TypesSendMsg, BatchSendMsg
<1>5. CASE MasterReads
  BY <1>1, <1>2, <1>5, TypesMasterReads, BatchMasterReads
<1>6. CASE Lose
  <2>1. ASSUME NEW e \in Evaler PROVE Batch(e)'
    <3>1. /\ UNCHANGED <<asked, answered, down, chan, cur, queue, resp, task, sendq, up, mux>>
          /\ conn' = "closed"
      BY <1>6 DEF Lose, agent
    <3> QED
      BY <1>1, <3>1, BatchUnmoved
  <2> QED
    BY <1>1, <1>2, <1>6, <2>1, TypesLose
<1>7. ASSUME NEW x \in Element, Start(x) \/ ThreadFails(x) PROVE IInv'
  <2>1. ASSUME NEW e \in Evaler PROVE Batch(e)'
    <3>1. CASE ThreadFails(x)
      BY <1>1, <3>1, BatchThreadFails
    <3>2. CASE Start(x)
      <4>1. UNCHANGED <<asked, answered, down, chan, cur, queue, resp, task, sendq, up, mux, conn>>
        BY <3>2 DEF Start, WriteEnv, BuildExecutor
      <4> QED
        BY <1>1, <4>1, BatchUnmoved
    <3> QED
      BY <1>7, <3>1, <3>2
  <2> QED
    BY <1>1, <1>2, <1>7, <2>1, TypesStart
<1>8. ASSUME NEW d \in Evaler, Task(d) PROVE IInv'
  <2>1. ASSUME NEW e \in Evaler PROVE Batch(e)'
    BY <1>1, <1>8, BatchTaskRecv, BatchTaskPost, BatchTaskAwait, BatchTaskReply DEF Task
  <2> QED
    BY <1>1, <1>2, <1>8, <2>1, TypesTask
<1>9. ASSUME NEW d \in Evaler, Evaluating(d) PROVE IInv'
  <2>1. ASSUME NEW e \in Evaler PROVE Batch(e)'
    <3>1. CASE ThreadDone(d)
      BY <1>1, <3>1, BatchThreadDone
    <3>2. CASE ThreadTake(d)
      <4>1. UNCHANGED <<asked, answered, down, chan, cur, queue, resp, task, sendq, up, mux, conn>>
        BY <3>2 DEF ThreadTake
      <4> QED
        BY <1>1, <4>1, BatchUnmoved
    <3> QED
      BY <1>9, <3>1, <3>2 DEF Evaluating
  <2> QED
    BY <1>1, <1>2, <1>9, <2>1, TypesEvaluating
<1>10. ASSUME NEW d \in Evaler, Ask(d) PROVE IInv'
  BY <1>1, <1>2, <1>10, TypesAsk, BatchAsk
<1>11. ASSUME NEW f \in Fuzzer, Fire(f) \/ FireSent(f) PROVE IInv'
  <2>1. ASSUME NEW e \in Evaler PROVE Batch(e)'
    <3>1. CASE FireSent(f)
      BY <1>1, <3>1, BatchFireSent
    <3>2. CASE Fire(f)
      <4>1. UNCHANGED <<asked, answered, down, chan, cur, queue, resp, task, sendq, up, mux, conn>>
        BY <3>2 DEF Fire
      <4> QED
        BY <1>1, <4>1, BatchUnmoved
    <3> QED
      BY <1>11, <3>1, <3>2
  <2> QED
    BY <1>1, <1>2, <1>11, <2>1, TypesFuzzer
<1>12. CASE UNCHANGED vars
  <2>1. /\ UNCHANGED <<asked, answered, down, chan, cur, queue, resp, task, sendq, up, mux, conn>>
        /\ UNCHANGED <<env, map, thread, fired>>
    BY <1>12 DEF vars, agent
  <2>2. TypeOK' /\ MuxShape'
    BY <1>1, <2>1, SameElementTypes, SameEvalerTypes, SameQueueTypes, ConnIs, TypeNext
  <2>3. ASSUME NEW e \in Evaler PROVE Batch(e)'
    BY <1>1, <2>1, BatchUnmoved
  <2> QED
    BY <1>2, <2>2, <2>3
<1> QED
  BY <1>3, <1>4, <1>5, <1>6, <1>7, <1>8, <1>9, <1>10, <1>11, <1>12 DEF Next

-----------------------------------------------------------------------------
(* The theorems *)

\* The inductive invariant holds in every behaviour.  For every number of
\* fuzzers and evalers, every capacity and every number of batches.
THEOREM NodeAgentInvariant == Spec => []IInv
  BY InvariantInit, InvariantNext, PTL DEF Spec

\* As long as the connection and an evaler live, its batch is in exactly one
\* place until the answer is read, and every answer on the connection is to the
\* batch asked for last: handle_connection, start_evaler and its thread neither
\* lose nor repeat it (main.rs:457-473, 302-329).
THEOREM NodeAgentBatchConserved == Spec => []BatchConserved
<1>1. IInv => BatchConserved
  <2> SUFFICES ASSUME IInv PROVE BatchConserved
    OBVIOUS
  <2>1. ASSUME NEW e \in Evaler
        PROVE  /\ conn = "open" /\ task[e] # "gone" => InFlight(e) = asked[e] - answered[e]
               /\ \A i \in DOMAIN up :
                    up[i].kind = "evaluation" /\ up[i].from = e => up[i].n = asked[e]
    BY DEF IInv, Batch, Counted, Numbers, Replies
  <2> QED
    BY <2>1 DEF IInv, BatchConserved
<1> QED
  BY <1>1, NodeAgentInvariant, PTL

=============================================================================
