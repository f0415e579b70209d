------------------------------ MODULE NodeAgent ------------------------------
(***************************************************************************)
(* The process on a node (fuzzers/forkserver_simple/src/main.rs) once it   *)
(* has its configuration: one task that reads the connection and hands the *)
(* messages out (Multiplexer::handle_connection), one that writes to it,   *)
(* and for every element of the configuration a fuzzer thread or an evaler *)
(* task with its executor thread.  Channels are bounded.  Every thread     *)
(* tells its forkserver which coverage map to use through one variable of  *)
(* the process environment.                                                *)
(*                                                                         *)
(* The master's part is what Evaler.Evaluate does: one batch at a time,    *)
(* the next one when the answer to the last one is there.                  *)
(***************************************************************************)
EXTENDS Integers, Sequences, FiniteSets, SequencesExt

CONSTANTS
  Fuzzer, Evaler,   \* the elements of the configuration, by on_node_id
  None,
  MaxBatches,       \* bound: batches for one evaler
  MaxEvents,        \* bound: new testcases of one fuzzer
  ChanCap,          \* the capacity of an element's channel
  SendCap,          \* the capacity of the channel of messages to send
  TcpCap,           \* messages the connection takes before a write waits
  MayFail,          \* whether executors fail
  MayLose           \* whether the connection is lost

ASSUME NodeAgentAssumption ==
  /\ Fuzzer \cap Evaler = {}
  /\ None \notin Fuzzer \cup Evaler
  /\ {MaxBatches, MaxEvents} \subseteq Nat
  /\ {ChanCap, SendCap, TcpCap} \subseteq Nat \ {0}
  /\ {MayFail, MayLose} \subseteq BOOLEAN

Element == Fuzzer \cup Evaler

VARIABLES
  env,       \* __AFL_SHM_ID
  map,       \* the coverage map each element's target writes to
  thread,    \* each element's thread
  task,      \* each evaler's task
  cur,       \* the batch it works on
  queue,     \* the batch its thread has been given, 0 without one
  resp,      \* the thread's answer
  chan,      \* the elements' channels
  mux,       \* the reading task and the message it holds
  sendq,     \* messages to send
  down, up,  \* the connection's two directions
  conn,
  asked, answered,  \* the master's count for each evaler
  fired             \* new testcases of each fuzzer

agent == <<env, map, thread, task, cur, queue, resp, chan, mux, sendq, fired>>
vars == <<agent, down, up, conn, asked, answered>>

NoMsg == [to |-> None, n |-> 0]

Init ==
  /\ env = None
  /\ map = [x \in Element |-> None]
  /\ thread = [x \in Element |-> "shm"]
  /\ task = [e \in Evaler |-> "recv"]
  /\ cur = [e \in Evaler |-> 0]
  /\ queue = [e \in Evaler |-> 0]
  /\ resp = [e \in Evaler |-> 0]
  /\ chan = [e \in Evaler |-> <<>>]
  /\ mux = [pc |-> "read", msg |-> NoMsg]
  /\ sendq = <<>>
  /\ down = <<>>
  /\ up = <<>>
  /\ conn = "open"
  /\ asked = [e \in Evaler |-> 0]
  /\ answered = [e \in Evaler |-> 0]
  /\ fired = [f \in Fuzzer |-> 0]

-----------------------------------------------------------------------------
(* Start of an element's thread *)

\* "let the forkserver know the shmid"
WriteEnv(x) ==
  /\ thread[x] = "shm"
  /\ env' = x
  /\ thread' = [thread EXCEPT ![x] = "build"]
  /\ UNCHANGED <<map, task, cur, queue, resp, chan, mux, sendq, fired, down, up, conn,
                 asked, answered>>

\* The target is started with the environment of this moment; an executor that
\* cannot be built ends the thread.
BuildExecutor(x, ok) ==
  /\ thread[x] = "build"
  /\ ~ok => MayFail
  /\ map' = IF ok THEN [map EXCEPT ![x] = env] ELSE map
  /\ thread' = [thread EXCEPT ![x] = IF ok THEN "idle" ELSE "dead"]
  /\ UNCHANGED <<env, task, cur, queue, resp, chan, mux, sendq, fired, down, up, conn,
                 asked, answered>>

-----------------------------------------------------------------------------
(* Multiplexer::handle_connection *)

\* A task that panicked has dropped its end of the channel.
Closed(e) == task[e] = "gone"

\* A message is taken from the connection; one for a closed channel is dropped.
MuxRead ==
  /\ mux.pc = "read"
  /\ down # <<>>
  /\ down' = Tail(down)
  /\ mux' = IF Closed(Head(down).to) THEN mux
            ELSE [pc |-> "send", msg |-> Head(down)]
  /\ UNCHANGED <<env, map, thread, task, cur, queue, resp, chan, sendq, fired, up, conn,
                 asked, answered>>

\* ch.send(...).await: waits for room, fails when the channel is closed meanwhile.
MuxSend ==
  LET e == mux.msg.to
  IN /\ mux.pc = "send"
     /\ Closed(e) \/ Len(chan[e]) < ChanCap
     /\ chan' = IF Closed(e) THEN chan ELSE [chan EXCEPT ![e] = Append(@, mux.msg.n)]
     /\ mux' = [pc |-> "read", msg |-> NoMsg]
     /\ UNCHANGED <<env, map, thread, task, cur, queue, resp, sendq, fired, down, up, conn,
                    asked, answered>>

\* A failed read ends the task; what had not been read is lost.
MuxEnds ==
  /\ mux.pc = "read"
  /\ conn = "closed"
  /\ mux' = [mux EXCEPT !.pc = "ended"]
  /\ UNCHANGED <<env, map, thread, task, cur, queue, resp, chan, sendq, fired, down, up,
                 conn, asked, answered>>

-----------------------------------------------------------------------------
(* start_evaler: the task *)

\* stream.recv.recv().  With the channel empty and the reader ended the task
\* goes round its loop without a change of state.
TaskRecv(e) ==
  /\ task[e] = "recv"
  /\ chan[e] # <<>>
  /\ cur' = [cur EXCEPT ![e] = Head(chan[e])]
  /\ chan' = [chan EXCEPT ![e] = Tail(@)]
  /\ task' = [task EXCEPT ![e] = "post"]
  /\ UNCHANGED <<env, map, thread, queue, resp, mux, sendq, fired, down, up, conn, asked,
                 answered>>

\* The task panics: producer.send or resp_rx.await found the thread gone.
Panic(e) ==
  /\ task' = [task EXCEPT ![e] = "gone"]
  /\ cur' = [cur EXCEPT ![e] = 0]
  /\ chan' = [chan EXCEPT ![e] = <<>>]

TaskPost(e) ==
  /\ task[e] = "post"
  /\ IF thread[e] = "dead" THEN Panic(e) /\ UNCHANGED queue
     ELSE /\ queue' = [queue EXCEPT ![e] = cur[e]]
          /\ task' = [task EXCEPT ![e] = "wait"]
          /\ UNCHANGED <<cur, chan>>
  /\ UNCHANGED <<env, map, thread, resp, mux, sendq, fired, down, up, conn, asked, answered>>

TaskAwait_SharedResponse(e) ==
  /\ task[e] = "wait"
  /\ resp[e] # 0
  /\ task' = [task EXCEPT ![e] = "reply"]
  /\ cur' = [cur EXCEPT ![e] = resp[e]]
  /\ UNCHANGED <<env, map, thread, queue, resp, chan, mux, sendq, fired, down, up, conn, asked,
                 answered>>

\* Every task has a response channel of its own, which the thread drops when it
\* fails.
TaskAwait(e) ==
  /\ task[e] = "wait"
  /\ \/ /\ resp[e] # 0
        /\ task' = [task EXCEPT ![e] = "reply"]
        /\ cur' = [cur EXCEPT ![e] = resp[e]]
        /\ resp' = [resp EXCEPT ![e] = 0]
        /\ UNCHANGED chan
     \/ /\ resp[e] = 0
        /\ thread[e] = "dead"
        /\ Panic(e)
        /\ UNCHANGED resp
  /\ UNCHANGED <<env, map, thread, queue, mux, sendq, fired, down, up, conn, asked, answered>>

Msg(kind, from, n) == [kind |-> kind, from |-> from, n |-> n]

TaskReply_Again(e) ==
  /\ task[e] = "reply"
  /\ Len(sendq) < SendCap
  /\ sendq' = Append(sendq, Msg("evaluation", e, cur[e]))
  /\ \E again \in BOOLEAN : task' = [task EXCEPT ![e] = IF again THEN "reply" ELSE "recv"]
  /\ UNCHANGED <<env, map, thread, cur, queue, resp, chan, mux, fired, down, up, conn, asked,
                 answered>>

TaskReply(e) ==
  /\ task[e] = "reply"
  /\ Len(sendq) < SendCap
  /\ sendq' = Append(sendq, Msg("evaluation", e, cur[e]))
  /\ task' = [task EXCEPT ![e] = "recv"]
  /\ cur' = [cur EXCEPT ![e] = 0]
  /\ UNCHANGED <<env, map, thread, queue, resp, chan, mux, fired, down, up, conn, asked,
                 answered>>

-----------------------------------------------------------------------------
(* start_evaler: the thread; start_fuzzer *)

ThreadTake(e) ==
  /\ thread[e] = "idle"
  /\ queue[e] # 0
  /\ thread' = [thread EXCEPT ![e] = "busy"]
  /\ UNCHANGED <<env, map, task, cur, queue, resp, chan, mux, sendq, fired, down, up, conn,
                 asked, answered>>

\* Every testcase of the batch has been run.
ThreadDone(e) ==
  /\ thread[e] = "busy"
  /\ resp' = [resp EXCEPT ![e] = queue[e]]
  /\ queue' = [queue EXCEPT ![e] = 0]
  /\ thread' = [thread EXCEPT ![e] = "idle"]
  /\ UNCHANGED <<env, map, task, cur, chan, mux, sendq, fired, down, up, conn, asked, answered>>

\* execute_input or fuzz_loop returned an error.
ThreadFails(x) ==
  /\ MayFail
  /\ thread[x] = IF x \in Evaler THEN "busy" ELSE "idle"
  /\ thread' = [thread EXCEPT ![x] = "dead"]
  /\ queue' = [e \in Evaler |-> IF e = x THEN 0 ELSE queue[e]]
  /\ UNCHANGED <<env, map, task, cur, resp, chan, mux, sendq, fired, down, up, conn, asked,
                 answered>>

\* A new testcase: MasterEventManager::fire, which may have to wait.
Fire(f) ==
  /\ thread[f] = "idle"
  /\ fired[f] < MaxEvents
  /\ fired' = [fired EXCEPT ![f] = @ + 1]
  /\ thread' = [thread EXCEPT ![f] = "send"]
  /\ UNCHANGED <<env, map, task, cur, queue, resp, chan, mux, sendq, down, up, conn, asked,
                 answered>>

\* blocking_send
FireSent(f) ==
  /\ thread[f] = "send"
  /\ Len(sendq) < SendCap
  /\ sendq' = Append(sendq, Msg("testcase", f, fired[f]))
  /\ thread' = [thread EXCEPT ![f] = "idle"]
  /\ UNCHANGED <<env, map, task, cur, queue, resp, chan, mux, fired, down, up, conn, asked,
                 answered>>

-----------------------------------------------------------------------------
(* The sending task *)

SendMsg_Retries ==
  /\ sendq # <<>>
  /\ conn = "open"
  /\ Len(up) < TcpCap
  /\ up' = Append(up, Head(sendq))
  /\ sendq' = Tail(sendq)
  /\ UNCHANGED <<env, map, thread, task, cur, queue, resp, chan, mux, fired, down, conn, asked,
                 answered>>

\* A message that cannot be sent is dropped.
SendMsg ==
  /\ sendq # <<>>
  /\ conn = "open" => Len(up) < TcpCap
  /\ up' = IF conn = "open" THEN Append(up, Head(sendq)) ELSE up
  /\ sendq' = Tail(sendq)
  /\ UNCHANGED <<env, map, thread, task, cur, queue, resp, chan, mux, fired, down, conn, asked,
                 answered>>

-----------------------------------------------------------------------------
(* The master and the network *)

Ask(e) ==
  /\ conn = "open"
  /\ asked[e] = answered[e]
  /\ asked[e] < MaxBatches
  /\ asked' = [asked EXCEPT ![e] = @ + 1]
  /\ down' = Append(down, [to |-> e, n |-> asked[e] + 1])
  /\ UNCHANGED <<agent, up, conn, answered>>

MasterReads ==
  LET m == Head(up)
  IN /\ up # <<>>
     /\ conn = "open"
     /\ up' = Tail(up)
     /\ answered' = IF m.kind = "evaluation" THEN [answered EXCEPT ![m.from] = m.n]
                    ELSE answered
     /\ UNCHANGED <<agent, down, conn, asked>>

Lose ==
  /\ MayLose
  /\ conn = "open"
  /\ conn' = "closed"
  /\ UNCHANGED <<agent, down, up, asked, answered>>

-----------------------------------------------------------------------------
Start(x) == WriteEnv(x) \/ \E ok \in BOOLEAN : BuildExecutor(x, ok)
Mux == MuxRead \/ MuxSend \/ MuxEnds
Task(e) == TaskRecv(e) \/ TaskPost(e) \/ TaskAwait(e) \/ TaskReply(e)
Evaluating(e) == ThreadTake(e) \/ ThreadDone(e)

Next ==
  \/ Mux
  \/ SendMsg
  \/ MasterReads
  \/ Lose
  \/ \E x \in Element : Start(x) \/ ThreadFails(x)
  \/ \E e \in Evaler : Task(e) \/ Evaluating(e) \/ Ask(e)
  \/ \E f \in Fuzzer : Fire(f) \/ FireSent(f)

Spec == Init /\ [][Next]_vars

\* Tasks and threads keep running, and the senders of a channel wait in line, so
\* each gets its turn.  Nothing is assumed of the target, for whose handshake and,
\* in an evaler, for whose run no timeout is set (forkserver.rs:815, main.rs:269),
\* nor of the master, whose reader may be held up by a worker (server.go:134).
FairSpec ==
  /\ Spec
  /\ WF_vars(Mux) /\ WF_vars(SendMsg)
  /\ \A x \in Element : WF_vars(WriteEnv(x))
  /\ \A e \in Evaler : WF_vars(Task(e)) /\ SF_vars(TaskReply(e)) /\ WF_vars(ThreadTake(e))
  /\ \A f \in Fuzzer : SF_vars(FireSent(f))

-----------------------------------------------------------------------------
(* Properties *)

\* Every variable keeps its type, and no channel holds more than its capacity.
TypeOK ==
  /\ env \in Element \cup {None}
  /\ map \in [Element -> Element \cup {None}]
  /\ thread \in [Element -> {"shm", "build", "idle", "busy", "send", "dead"}]
  /\ task \in [Evaler -> {"recv", "post", "wait", "reply", "gone"}]
  /\ {cur, queue, resp, asked, answered} \subseteq [Evaler -> 0..MaxBatches]
  /\ chan \in [Evaler -> Seq(1..MaxBatches)]
  /\ \A e \in Evaler : Len(chan[e]) <= ChanCap
  /\ mux \in [pc : {"read", "send", "ended"},
              msg : [to : Evaler \cup {None}, n : 0..MaxBatches]]
  /\ \A s \in {sendq, up} :
       s \in Seq([kind : {"evaluation", "testcase"}, from : Element, n : Nat])
  /\ Len(sendq) <= SendCap
  /\ Len(up) <= TcpCap
  /\ down \in Seq([to : Evaler, n : 1..MaxBatches])
  /\ conn \in {"open", "closed"}
  /\ fired \in [Fuzzer -> 0..MaxEvents]

Answers(s, e) == Cardinality({i \in DOMAIN s : s[i].kind = "evaluation" /\ s[i].from = e})

\* Where the batch an evaler has been asked for is: on its way, in the hands of
\* the reader or of the task, or back as an answer.
InFlight(e) ==
  Cardinality({i \in DOMAIN down : down[i].to = e})
  + (IF mux.msg.to = e THEN 1 ELSE 0) + Len(chan[e])
  + (IF cur[e] # 0 THEN 1 ELSE 0) + Answers(sendq, e) + Answers(up, e)

\* With every channel within its capacity and as long as the connection and the
\* evaler live, a batch is in exactly one place until its answer is read: handed
\* to the element it is for, evaluated and answered once (main.rs:457-473,
\* 302-329), and the answer is to this batch and to no earlier one.
BatchConserved ==
  /\ TypeOK
  /\ \A e \in Evaler :
       /\ conn = "open" /\ task[e] # "gone" => InFlight(e) = asked[e] - answered[e]
       /\ \A i \in DOMAIN up :
            up[i].kind = "evaluation" /\ up[i].from = e => up[i].n = asked[e]

\* The master does not read what the node has sent.
MasterStalls == conn = "open" /\ up # <<>>

\* A fuzzer that has a testcase to send goes on fuzzing, also after the
\* connection is lost: the sending task keeps emptying the channel
\* (main.rs:160-170, master.rs:107).  Only a master that stops reading and leaves
\* the connection open holds it up.
FuzzerGoesOn ==
  \A f \in Fuzzer : (thread[f] = "send" ~> thread[f] = "idle") \/ <>[]MasterStalls

\* Every batch is answered, unless the connection is lost, the executor of this
\* evaler failed or its target hangs: nobody tells the master of the last two
\* (main.rs:269, 283), who then waits for ever; or the master stops reading.
EveryBatchAnswered ==
  \A e \in Evaler :
    \/ asked[e] # answered[e]
         ~> asked[e] = answered[e] \/ conn = "closed" \/ thread[e] = "dead"
    \/ <>[](thread[e] \in {"build", "busy"})
    \/ <>[]MasterStalls

\* The target of an element writes its coverage to the map that this element
\* reads ("let the forkserver know the shmid", main.rs:215, 539).
OwnMap == \A x \in Element : map[x] \in {None, x}

=============================================================================
