------------------------------ MODULE Pipeline ------------------------------
(***************************************************************************)
(* The path of a testcase through the master: from a fuzzer's connection   *)
(* through the fuzzer's worker (core/master/fuzzer.go) into the bounded    *)
(* testcase channel, from there into the buffer of an evaler's worker      *)
(* (core/master/evaler.go), over the evaler's connection and back, and     *)
(* into the database.  Each connection has one reader goroutine            *)
(* (handleConnection in infra/conn/tcp/server.go) that hands messages over *)
(* to the workers by unbuffered channels, in the order they arrived.       *)
(*                                                                         *)
(* The state starts after set-up, with every worker running.  Of the event *)
(* channel only the number of queued events matters here; Master models    *)
(* what is done with them.                                                 *)
(***************************************************************************)
EXTENDS Integers, Sequences, FiniteSets, SequencesExt

CONSTANTS
  Fuzzer, Evaler,     \* elements
  Conn, ConnOf,       \* connections, and the one an element is reached by
  Faulty,             \* connections whose peer may go away or answer
                      \* what cannot be decoded
  Answers,            \* what an evaler's answer may be, see AnswerKinds
  MaxSent,            \* bound: testcases a fuzzer sends
  TestcaseChanBuf,    \* capacity of the testcase channel
  EventChanBuf,       \* capacity of the event channel
  BufferMaxSize,      \* bufferMaxSize of an evaler
  EvalRetryCount,     \* evalRetryCount
  MaxStops            \* bound: flushes a cancelled evaler may still begin

\* An answer Recv can unmarshal, one it cannot, and one that the reader of the
\* connection already fails to unmarshal or to decompress.
AnswerKinds == {"data", "garbage", "undecodable"}

ASSUME PipelineAssumption ==
  /\ Fuzzer \cap Evaler = {}
  /\ "nobody" \notin Fuzzer \cup Evaler
  /\ ConnOf \in [Fuzzer \cup Evaler -> Conn]
  /\ Faulty \subseteq Conn
  /\ Answers \subseteq AnswerKinds
  /\ {MaxSent, EvalRetryCount} \subseteq Nat
  /\ {TestcaseChanBuf, EventChanBuf, BufferMaxSize, MaxStops} \subseteq Nat \ {0}

\* The i-th testcase of fuzzer f.
Testcase == Fuzzer \X (1..MaxSent)

VARIABLES
  sent,          \* testcases each fuzzer's node has put on the wire
  wire,          \* bytes that travel from the node, per connection
  phase,         \* of a connection: "open", "eof" (peer gone) or "closed"
  hand,          \* the message a connection's reader tries to hand over
  fz,            \* fuzzer workers
  ev,            \* evaler workers
  asked,         \* evalers whose node has a request to answer
  testcaseChan,  \* Master.testcaseChan
  events,        \* number of events in Master.eventChan
  evaluated,     \* how often a testcase was passed to AddTestcases
  dropped        \* testcases given up after the last retry

net == <<sent, wire, phase, asked>>
results == <<evaluated, dropped>>
vars == <<net, hand, fz, ev, testcaseChan, events, results>>

NoMsg == [to |-> "nobody", tc |-> <<>>, kind |-> "none"]

Init ==
  /\ sent = [f \in Fuzzer |-> 0]
  /\ wire = [c \in Conn |-> <<>>]
  /\ phase = [c \in Conn |-> "open"]
  /\ hand = [c \in Conn |-> NoMsg]
  /\ fz = [f \in Fuzzer |-> [pc |-> "recv", tc |-> <<>>]]
  /\ ev = [e \in Evaler |-> [pc |-> "select", buf |-> <<>>, try |-> 0,
                             from |-> "tick", at |-> 0, second |-> TRUE,
                             cancelled |-> FALSE, stops |-> 0]]
  /\ asked = {}
  /\ testcaseChan = <<>>
  /\ events = 0
  /\ evaluated = [t \in Testcase |-> 0]
  /\ dropped = {}

-----------------------------------------------------------------------------
(* The remote node *)

NodeSendsTestcase(f) ==
  LET c == ConnOf[f]
  IN /\ phase[c] = "open"
     /\ sent[f] < MaxSent
     /\ sent' = [sent EXCEPT ![f] = @ + 1]
     /\ wire' = [wire EXCEPT ![c] =
          Append(@, [to |-> f, tc |-> <<f, sent[f] + 1>>, kind |-> "testcase"])]
     /\ UNCHANGED <<phase, asked, hand, fz, ev, testcaseChan, events, results>>

\* The evaler answers a request.
NodeAnswers(e, kind) ==
  LET c == ConnOf[e]
  IN /\ phase[c] = "open"
     /\ e \in asked
     /\ kind # "data" => c \in Faulty
     /\ asked' = asked \ {e}
     /\ wire' = [wire EXCEPT ![c] =
          Append(@, [to |-> e, tc |-> <<>>, kind |-> kind])]
     /\ UNCHANGED <<sent, phase, hand, fz, ev, testcaseChan, events, results>>

NodeLeaves(c) ==
  /\ c \in Faulty
  /\ phase[c] = "open"
  /\ phase' = [phase EXCEPT ![c] = "eof"]
  /\ asked' = {e \in asked : ConnOf[e] # c}
  /\ UNCHANGED <<sent, wire, hand, fz, ev, testcaseChan, events, results>>

-----------------------------------------------------------------------------
(* handleConnection *)

\* A message that cannot be decoded is logged and skipped.
ReaderReads(c) ==
  /\ phase[c] # "closed"
  /\ hand[c] = NoMsg
  /\ wire[c] # <<>>
  /\ hand' = IF Head(wire[c]).kind = "undecodable" THEN hand
             ELSE [hand EXCEPT ![c] = Head(wire[c])]
  /\ wire' = [wire EXCEPT ![c] = Tail(@)]
  /\ UNCHANGED <<sent, phase, asked, fz, ev, testcaseChan, events, results>>

\* EOF: every channel of the connection and the socket are closed.
ReaderCloses(c) ==
  /\ phase[c] = "eof"
  /\ hand[c] = NoMsg
  /\ wire[c] = <<>>
  /\ phase' = [phase EXCEPT ![c] = "closed"]
  /\ UNCHANGED <<sent, wire, asked, hand, fz, ev, testcaseChan, events, results>>

-----------------------------------------------------------------------------
(* Fuzzer.Run *)

\* The rendezvous of the reader with GetTestcase.
FuzzerGets(f) ==
  LET c == ConnOf[f]
  IN /\ fz[f].pc = "recv"
     /\ hand[c].to = f
     /\ fz' = [fz EXCEPT ![f] = [pc |-> "push", tc |-> hand[c].tc]]
     /\ hand' = [hand EXCEPT ![c] = NoMsg]
     /\ UNCHANGED <<net, ev, testcaseChan, events, results>>

FuzzerSeesClosed(f) ==
  /\ fz[f].pc = "recv"
  /\ phase[ConnOf[f]] = "closed"
  /\ fz' = [fz EXCEPT ![f].pc = "event"]
  /\ UNCHANGED <<net, hand, ev, testcaseChan, events, results>>

QueueFull == Len(testcaseChan) = TestcaseChanBuf

\* The first select: send without blocking, or report a full channel.
FuzzerPushes(f) ==
  /\ fz[f].pc = "push"
  /\ IF QueueFull
     THEN /\ fz' = [fz EXCEPT ![f].pc = "hint"]
          /\ UNCHANGED testcaseChan
     ELSE /\ fz' = [fz EXCEPT ![f] = [pc |-> "recv", tc |-> <<>>]]
          /\ testcaseChan' = Append(testcaseChan, fz[f].tc)
  /\ UNCHANGED <<net, hand, ev, events, results>>

\* The second select; its context is never cancelled while it waits.
FuzzerPushesBlocked(f) ==
  /\ fz[f].pc = "blocked"
  /\ ~QueueFull
  /\ fz' = [fz EXCEPT ![f] = [pc |-> "recv", tc |-> <<>>]]
  /\ testcaseChan' = Append(testcaseChan, fz[f].tc)
  /\ UNCHANGED <<net, hand, ev, events, results>>

\* The blocking sends on the event channel.
FuzzerPosts(f) ==
  /\ fz[f].pc \in {"hint", "event"}
  /\ events < EventChanBuf
  /\ events' = events + 1
  /\ fz' = [fz EXCEPT ![f].pc = IF @ = "hint" THEN "blocked" ELSE "done"]
  /\ UNCHANGED <<net, hand, ev, testcaseChan, results>>

-----------------------------------------------------------------------------
(* Evaler.Run and Evaler.flush *)

\* Where the loop of Run goes on once flush has returned.
FlushReturns(w) ==
  IF w.from = "recv" THEN [w EXCEPT !.pc = "select", !.second = TRUE]
  ELSE IF w.second THEN [w EXCEPT !.pc = "select", !.second = FALSE]
  ELSE [w EXCEPT !.pc = "hint"]

Flush(w) == [w EXCEPT !.pc = "send", !.try = 0]

\* A cancelled worker's select may still pick another case; see MaxStops.
MayGoOn(w) == ~w.cancelled \/ w.stops < MaxStops

EvalerTicks_OnlyFull(e) ==
  LET w == [ev[e] EXCEPT !.from = "tick"]
  IN /\ w.pc = "select"
     /\ MayGoOn(w)
     /\ ev' = [ev EXCEPT ![e] = IF Len(w.buf) < BufferMaxSize
                                THEN FlushReturns(w) ELSE Flush(w)]
     /\ UNCHANGED <<net, hand, fz, testcaseChan, events, results>>

\* The saveTimeout of the ticker: flush, which does nothing on an empty buffer.
EvalerTicks(e) ==
  LET w == [ev[e] EXCEPT !.from = "tick"]
  IN /\ w.pc = "select"
     /\ MayGoOn(w)
     /\ ev' = [ev EXCEPT ![e] = IF w.buf = <<>> THEN FlushReturns(w) ELSE Flush(w)]
     /\ UNCHANGED <<net, hand, fz, testcaseChan, events, results>>

\* A testcase joins the buffer, which is flushed when it is full.
EvalerReceives(e) ==
  LET w == [ev[e] EXCEPT !.from = "recv", !.buf = Append(@, Head(testcaseChan))]
  IN /\ ev[e].pc = "select"
     /\ MayGoOn(ev[e])
     /\ testcaseChan # <<>>
     /\ testcaseChan' = Tail(testcaseChan)
     /\ ev' = [ev EXCEPT ![e] = IF Len(w.buf) = BufferMaxSize
                                THEN Flush(w) ELSE FlushReturns(w)]
     /\ UNCHANGED <<net, hand, fz, events, results>>

EvalerExits_WhenDrained(e) ==
  /\ ev[e].pc = "select"
  /\ ev[e].cancelled
  /\ ev[e].buf = <<>>
  /\ ev' = [ev EXCEPT ![e].pc = "done"]
  /\ UNCHANGED <<net, hand, fz, testcaseChan, events, results>>

\* select picks ctx.Done; what the buffer holds is gone with the worker.
EvalerExits(e) ==
  /\ ev[e].pc = "select"
  /\ ev[e].cancelled
  /\ ev' = [ev EXCEPT ![e].pc = "done"]
  /\ UNCHANGED <<net, hand, fz, testcaseChan, events, results>>

\* Evaluate failed for another reason than a closed connection: try again, or
\* give the whole buffer up.
EvaluateFails(e) ==
  LET w == ev[e]
  IN IF w.try < EvalRetryCount
     THEN /\ ev' = [ev EXCEPT ![e] = [w EXCEPT !.pc = "send", !.try = @ + 1]]
          /\ UNCHANGED dropped
     ELSE /\ ev' = [ev EXCEPT ![e] = FlushReturns([w EXCEPT !.buf = <<>>])]
          /\ dropped' = dropped \cup ToSet(w.buf)

\* Evaluate, first half: the request goes out.
EvalerSends(e) ==
  LET c == ConnOf[e]
  IN /\ ev[e].pc = "send"
     /\ phase[c] # "closed"
     /\ ev' = [ev EXCEPT ![e].pc = "recv"]
     /\ asked' = IF phase[c] = "open" THEN asked \cup {e} ELSE asked
     /\ UNCHANGED <<sent, wire, phase, hand, fz, testcaseChan, events, results>>

\* The peer is gone and the socket says so before the reader has seen EOF.
EvalerSendFails(e) ==
  /\ ev[e].pc = "send"
  /\ phase[ConnOf[e]] = "eof"
  /\ EvaluateFails(e)
  /\ UNCHANGED <<net, hand, fz, testcaseChan, events, evaluated>>

EvalerGetsAnswer_KeepsBuffer(e) ==
  LET c == ConnOf[e]
      w == ev[e]
  IN /\ w.pc = "recv"
     /\ hand[c].to = e
     /\ hand[c].kind = "data"
     /\ hand' = [hand EXCEPT ![c] = NoMsg]
     /\ evaluated' = [t \in Testcase |->
          evaluated[t] + Cardinality({i \in DOMAIN w.buf : w.buf[i] = t})]
     /\ ev' = [ev EXCEPT ![e] = FlushReturns(w)]
     /\ UNCHANGED <<net, fz, testcaseChan, events, dropped>>

\* Evaluate, second half: the rendezvous with the reader.
EvalerGetsAnswer(e) ==
  LET c == ConnOf[e]
      w == ev[e]
  IN /\ w.pc = "recv"
     /\ hand[c].to = e
     /\ hand[c].kind = "data"
     /\ hand' = [hand EXCEPT ![c] = NoMsg]
     /\ evaluated' = [t \in Testcase |->
          evaluated[t] + Cardinality({i \in DOMAIN w.buf : w.buf[i] = t})]
     /\ ev' = [ev EXCEPT ![e] = FlushReturns([w EXCEPT !.buf = <<>>])]
     /\ UNCHANGED <<net, fz, testcaseChan, events, dropped>>

EvalerGetsGarbage(e) ==
  LET c == ConnOf[e]
  IN /\ ev[e].pc = "recv"
     /\ hand[c].to = e
     /\ hand[c].kind = "garbage"
     /\ hand' = [hand EXCEPT ![c] = NoMsg]
     /\ EvaluateFails(e)
     /\ UNCHANGED <<net, fz, testcaseChan, events, evaluated>>

\* Either half meets the closed connection: ErrStopElement.
EvalerStops(e) ==
  /\ ev[e].pc \in {"send", "recv"}
  /\ phase[ConnOf[e]] = "closed"
  /\ ev' = [ev EXCEPT ![e].pc = "event", ![e].cancelled = TRUE,
                      ![e].stops = @ + 1]
  /\ UNCHANGED <<net, hand, fz, testcaseChan, events, results>>

EvalerPosts_NoResend(e) ==
  /\ ev[e].pc \in {"hint", "event"}
  /\ events < EventChanBuf
  /\ events' = events + 1
  /\ ev' = [ev EXCEPT ![e] =
       IF ev[e].pc = "hint" THEN [ev[e] EXCEPT !.pc = "select", !.second = TRUE]
       ELSE FlushReturns([ev[e] EXCEPT !.buf = <<>>])]
  /\ UNCHANGED <<net, hand, fz, testcaseChan, results>>

\* The blocking sends on the event channel.
EvalerPosts(e) ==
  /\ ev[e].pc \in {"hint", "event"}
  /\ events < EventChanBuf
  /\ events' = events + 1
  /\ ev' = [ev EXCEPT ![e] =
       IF ev[e].pc = "hint" THEN [ev[e] EXCEPT !.pc = "select", !.second = TRUE]
       ELSE [ev[e] EXCEPT !.pc = "resend", !.at = 1]]
  /\ UNCHANGED <<net, hand, fz, testcaseChan, results>>

\* The buffer goes back into the channel, one blocking send at a time; flush
\* returns without emptying it.
EvalerResends(e) ==
  LET w == ev[e]
  IN /\ w.pc = "resend"
     /\ ~QueueFull
     /\ testcaseChan' = Append(testcaseChan, w.buf[w.at])
     /\ ev' = [ev EXCEPT ![e] = IF w.at < Len(w.buf) THEN [w EXCEPT !.at = @ + 1]
                                ELSE FlushReturns(w)]
     /\ UNCHANGED <<net, hand, fz, events, results>>

-----------------------------------------------------------------------------
\* The event loop takes one event; elementDeleted blocks on nothing here.
EventLoopTakes ==
  /\ events > 0
  /\ events' = events - 1
  /\ UNCHANGED <<net, hand, fz, ev, testcaseChan, results>>

FuzzerStep(f) ==
  \/ FuzzerGets(f)
  \/ FuzzerSeesClosed(f)
  \/ FuzzerPushes(f)
  \/ FuzzerPushesBlocked(f)
  \/ FuzzerPosts(f)

FlushStep(e) ==
  \/ EvalerSends(e)
  \/ EvalerSendFails(e)
  \/ EvalerGetsAnswer(e)
  \/ EvalerGetsGarbage(e)
  \/ EvalerStops(e)
  \/ EvalerPosts(e)
  \/ EvalerResends(e)

Next ==
  \/ \E f \in Fuzzer : NodeSendsTestcase(f) \/ FuzzerStep(f)
  \/ \E e \in Evaler : \/ \E kind \in Answers : NodeAnswers(e, kind)
                       \/ EvalerTicks(e)
                       \/ EvalerReceives(e)
                       \/ EvalerExits(e)
                       \/ FlushStep(e)
  \/ \E c \in Conn : NodeLeaves(c) \/ ReaderReads(c) \/ ReaderCloses(c)
  \/ EventLoopTakes

Spec == Init /\ [][Next]_vars

\* Goroutines are scheduled; a goroutine parked in a channel operation is
\* served in turn; a select that is reached again and again picks each of its
\* ready cases sometimes.  Nothing is assumed of a node: its executor has no
\* timeout and may have ended (forkserver_simple/src/main.rs:269, 283), so a
\* request may stay without an answer on a connection that stays open.
Fairness ==
  /\ \A f \in Fuzzer : SF_vars(FuzzerStep(f))
  /\ \A e \in Evaler :
       /\ SF_vars(FlushStep(e))
       /\ WF_vars(EvalerTicks(e))
       /\ SF_vars(EvalerReceives(e))
       /\ SF_vars(EvalerExits(e))
  /\ \A c \in Conn : WF_vars(ReaderReads(c)) /\ WF_vars(ReaderCloses(c))
  /\ WF_vars(EventLoopTakes)

FairSpec == Spec /\ Fairness

-----------------------------------------------------------------------------
(* Properties *)

Message == [to : Fuzzer, tc : Testcase, kind : {"testcase"}]
           \cup [to : Evaler, tc : {<<>>}, kind : Answers]

EvalerPC == {"select", "send", "recv", "event", "resend", "hint", "done"}

FuzzerType ==
  [pc : {"recv", "push", "hint", "blocked", "event", "done"}, tc : Testcase \cup {<<>>}]

EvalerType ==
  [pc : EvalerPC, buf : Seq(Testcase), try : 0..EvalRetryCount, from : {"tick", "recv"},
   at : Nat, second : BOOLEAN, cancelled : BOOLEAN, stops : 0..MaxStops]

\* Every variable keeps its type and every channel its capacity; a buffer
\* that grows past bufferMaxSize belongs to a cancelled worker.
TypeOK ==
  /\ sent \in [Fuzzer -> 0..MaxSent]
  /\ wire \in [Conn -> Seq(Message)]
  /\ phase \in [Conn -> {"open", "eof", "closed"}]
  /\ hand \in [Conn -> Message \cup {NoMsg}]
  /\ fz \in [Fuzzer -> FuzzerType]
  /\ ev \in [Evaler -> EvalerType]
  /\ \A e \in Evaler : Len(ev[e].buf) > BufferMaxSize => ev[e].cancelled
  /\ asked \subseteq Evaler
  /\ testcaseChan \in Seq(Testcase)
  /\ Len(testcaseChan) <= TestcaseChanBuf
  /\ events \in 0..EventChanBuf
  /\ evaluated \in [Testcase -> Nat]
  /\ dropped \subseteq Testcase

\* Testcases a worker has taken over from its connection's reader.
Accepted ==
  {t \in Testcase :
     LET c == ConnOf[t[1]]
     IN /\ t[2] <= sent[t[1]]
        /\ hand[c].tc # t
        /\ \A i \in DOMAIN wire[c] : wire[c][i].tc # t}

\* What a worker that ended takes with it: testcases it received after it had
\* resent its buffer (evaler.go: select may pick the channel, not ctx.Done).
LostWith(w) == {w.buf[i] : i \in {j \in DOMAIN w.buf : w.pc = "done" /\ j > w.at}}

\* Where the copies of t are: with its fuzzer's worker, queued, in the buffer of
\* an evaler that runs, in the database (once for every time), or given up.
Places(t) ==
  {<<"worker", f>> : f \in {g \in Fuzzer : fz[g].tc = t}}
  \cup {<<"queue", i>> : i \in {j \in DOMAIN testcaseChan : testcaseChan[j] = t}}
  \cup {<<"database", n>> : n \in 1..evaluated[t]}
  \cup {<<"dropped", d>> : d \in dropped \cap {t}}
  \cup UNION {{<<"buffer", e, i>> : i \in {j \in DOMAIN ev[e].buf : ev[e].buf[j] = t}} :
                e \in {d \in Evaler : ev[d].pc # "done"}}

\* Channels keep their capacities, and whatever connections close and however
\* often, a retry, a full channel or the resending of a lost evaler's buffer
\* makes no testcase disappear; the only loss is of what a cancelled worker
\* still takes from the channel.
OnlyLateTakesAreLost ==
  /\ TypeOK
  /\ \A t \in Accepted :
       Places(t) # {} \/ \E e \in Evaler : t \in LostWith(ev[e])

\* Only the resending of a stopped evaler duplicates: before the first stop
\* every accepted testcase is in exactly one place.
ExactlyOnceBeforeStops ==
  (\A e \in Evaler : ~ev[e].cancelled) =>
    \A t \in Accepted : \E p \in Places(t) : Places(t) = {p}

\* Nobody can take from the testcase channel any more: an evaler has ended,
\* waits for an answer, or resends its buffer into the full channel.
NobodyTakes ==
  \A e \in Evaler : ev[e].pc \in {"done", "recv"} \/ (ev[e].pc = "resend" /\ QueueFull)

\* An evaler that waits for an answer holds t, or took it after the end of its
\* connection and has ended with it.
Held(t) ==
  \E e \in Evaler :
    t \in ToSet(ev[e].buf) /\ (ev[e].pc = "recv" \/ t \in LostWith(ev[e]))

\* Every testcase the master accepted is evaluated, or given up after the
\* retries, unless an answer never comes, a worker that lost its connection took
\* it at the end, or no evaler is left to take it from the channel.
TestcasesFinish ==
  \A t \in Testcase :
    \/ t \in Accepted ~> evaluated[t] > 0 \/ t \in dropped
    \/ <>[]Held(t)
    \/ <>[]NobodyTakes

\* An evaler whose connection closed while it held testcases notices, gets
\* through its resending and ends, unless it is left resending into a full
\* channel (evaler.go:122) that nobody takes from, it being a consumer itself;
\* an idle one may never notice (evaler.go:99).
DeadEvalerLeaves ==
  \A e \in Evaler :
    \/ (phase[ConnOf[e]] = "closed" /\ ev[e].buf # <<>>) ~> ev[e].pc = "done"
    \/ <>[](ev[e].pc = "resend" /\ NobodyTakes)

=============================================================================
