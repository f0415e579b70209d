----------------------------- MODULE Forkserver -----------------------------
(***************************************************************************)
(* Running a target under a forkserver: the executor in the fuzzer         *)
(* (libafl/src/executors/forkserver.rs), the server linked into the target *)
(* (libafl_targets/src/forkserver.c) and the processes the server forks.   *)
(* The two sides talk over two pipes: ctl carries words to the server, st  *)
(* carries words back.                                                     *)
(*                                                                         *)
(* A word is a record whose fields are what the receiver can tell from its *)
(* bits; "run" is not transmitted, it says to which run the word belongs.  *)
(* A status of an error (FS_OPT_ERROR) has the bits of an option word that *)
(* offers a dictionary.                                                    *)
(***************************************************************************)
EXTENDS Integers, Sequences, FiniteSets

CONSTANTS
  MaxRuns,      \* bound: runs of the executor
  TargetShm,    \* __afl_sharedmem_fuzzing
  DictLen,      \* bytes of the target's dictionary, -1 without one
  PipeCap,      \* bytes of the dictionary that fit into the pipe
  Executors,    \* executors the target may meet, see Executor
  Persistent,   \* is_persistent
  MayFail       \* whether shared memory, fork or the server may fail

\* Whether it has a shared memory provider, wants the dictionary (autotokens), is
\* a TimeoutForkserverExecutor, and its signal for a timed-out child.
Executor == [shm : BOOLEAN, dict : BOOLEAN, timeout : BOOLEAN,
             sig : {"KILL", "TERM"}]

ASSUME ForkserverAssumption ==
  /\ MaxRuns \in Nat
  /\ DictLen \in Nat \cup {-1}
  /\ PipeCap \in Nat \ {0}
  /\ Executors \subseteq Executor
  /\ {TargetShm, Persistent, MayFail} \subseteq BOOLEAN

Pid == 1..MaxRuns

VARIABLES
  ctl, st,   \* the pipes
  exec,      \* the executor
  server,    \* the forkserver
  procs      \* the processes it forked

vars == <<ctl, st, exec, server, procs>>

Word(kind) == [kind |-> kind, shm |-> FALSE, dict |-> FALSE, killed |-> FALSE,
               len |-> 0, pid |-> 0, run |-> 0]

NoProc == [st |-> "none", run |-> 0, term |-> FALSE]

Init ==
  /\ ctl = <<>>
  /\ st = <<>>
  /\ \E x \in Executors :
       exec = [is |-> x, pc |-> "hello", run |-> 0, got |-> 0, child |-> 0,
               want |-> 0, timedOut |-> FALSE, shm |-> FALSE]
  /\ server = [pc |-> "start", word |-> Word("none"), first |-> FALSE,
               stopped |-> FALSE, child |-> 0, shm |-> FALSE, left |-> 0]
  /\ procs = [p \in Pid |-> NoProc]

Exited == server.pc = "exited"

HasDict == DictLen >= 0

-----------------------------------------------------------------------------
(* Processes: what the kernel does *)

Dead(p) == procs[p].st \in {"exited", "signalled"}

\* A signal sent to p.  SIGTERM waits until a stopped process goes on.
Signalled(p, sig) ==
  CASE p \notin Pid -> procs
    [] procs[p].st = "running" -> [procs EXCEPT ![p].st = "signalled"]
    [] procs[p].st = "stopped" /\ sig = "KILL" -> [procs EXCEPT ![p].st = "signalled"]
    [] procs[p].st = "stopped" /\ sig = "TERM" -> [procs EXCEPT ![p].term = TRUE]
    [] OTHER -> procs

\* SIGCONT: a stopped process takes up the next run, or its pending signal.
Continued(p, run) ==
  CASE procs[p].st = "stopped" /\ procs[p].term -> [procs EXCEPT ![p].st = "signalled"]
    [] procs[p].st = "stopped" /\ ~procs[p].term ->
         [procs EXCEPT ![p].st = "running", ![p].run = run]
    [] OTHER -> procs

\* The child ends its run: by SIGSTOP when persistent, by exit or by a crash.
\* Nothing makes it end.
ChildEnds(p, how) ==
  /\ procs[p].st = "running"
  /\ how = "stopped" => Persistent
  /\ procs' = [procs EXCEPT ![p].st = how]
  /\ UNCHANGED <<ctl, st, exec, server>>

-----------------------------------------------------------------------------
(* The forkserver: start and handshake *)

Exit == server' = [server EXCEPT !.pc = "exited"]

\* __afl_map_shm: without the coverage map an error word is all that is sent.
MapShm(ok) ==
  /\ server.pc = "start"
  /\ ~ok => MayFail
  /\ IF ok THEN server' = [server EXCEPT !.pc = "phone"] /\ UNCHANGED st
     ELSE Exit /\ st' = Append(st, Word("error"))
  /\ UNCHANGED <<ctl, exec, procs>>

PhoneHome ==
  /\ server.pc = "phone"
  /\ st' = Append(st, [Word("hello") EXCEPT !.shm = TargetShm, !.dict = HasDict])
  /\ server' = [server EXCEPT !.pc = IF TargetShm \/ HasDict THEN "opts" ELSE "read"]
  /\ UNCHANGED <<ctl, exec, procs>>

AfterOptions_Forgets(w, shm) ==
  IF w.kind = "opts" /\ w.dict /\ HasDict
  THEN [server EXCEPT !.pc = "len", !.shm = shm, !.word = w]
  ELSE [server EXCEPT !.pc = "read", !.shm = shm, !.word = w]

\* With the options read: the dictionary goes out, or, when the word was no
\* option word, it is kept as the first command.
AfterOptions(w, shm) ==
  IF w.kind = "opts" /\ w.dict /\ HasDict
  THEN [server EXCEPT !.pc = "len", !.shm = shm, !.word = w]
  ELSE [server EXCEPT !.pc = "read", !.shm = shm, !.word = w, !.first = ~shm]

\* The first word from the executor; map_input_shared_memory may fail.
ReadOptions(ok) ==
  LET w == Head(ctl)
      wantsShm == w.kind = "opts" /\ w.shm
  IN /\ server.pc = "opts"
     /\ ctl # <<>>
     /\ ~ok => MayFail /\ wantsShm
     /\ ctl' = Tail(ctl)
     /\ IF ok THEN server' = AfterOptions(w, wantsShm) /\ UNCHANGED st
        ELSE Exit /\ st' = Append(st, Word("error"))
     /\ UNCHANGED <<exec, procs>>

SendDictLen ==
  /\ server.pc = "len"
  /\ st' = Append(st, [Word("len") EXCEPT !.len = DictLen])
  /\ server' = [server EXCEPT !.left = DictLen,
                              !.pc = IF DictLen = 0 THEN "read" ELSE "dict"]
  /\ UNCHANGED <<ctl, exec, procs>>

\* A write puts as many bytes into the pipe as fit.
SendDict(n) ==
  /\ server.pc = "dict"
  /\ n <= server.left
  /\ Len(st) + n <= PipeCap + 1
  /\ st' = st \o [i \in 1..n |-> Word("byte")]
  /\ server' = [server EXCEPT !.left = @ - n,
                              !.pc = IF n = server.left THEN "read" ELSE "dict"]
  /\ UNCHANGED <<ctl, exec, procs>>

-----------------------------------------------------------------------------
(* The forkserver: the loop *)

ReadCommand ==
  /\ server.pc = "read"
  /\ IF server.first
     THEN /\ server' = [server EXCEPT !.pc = "spawn", !.first = FALSE]
          /\ UNCHANGED ctl
     ELSE /\ ctl # <<>>
          /\ server' = [server EXCEPT !.pc = "spawn", !.word = Head(ctl)]
          /\ ctl' = Tail(ctl)
  /\ UNCHANGED <<st, exec, procs>>

MustReap_Never == FALSE

\* The executor killed a child that had stopped just before.
MustReap == server.stopped /\ server.word.killed

Reap ==
  /\ server.pc = "spawn"
  /\ MustReap
  /\ Dead(server.child)
  /\ procs' = [procs EXCEPT ![server.child].st = "reaped"]
  /\ server' = [server EXCEPT !.stopped = FALSE]
  /\ UNCHANGED <<ctl, st, exec>>

\* A new child, or the stopped one goes on; its pid is sent.
Spawn ==
  LET new == 1 + Cardinality({p \in Pid : procs[p] # NoProc})
      p == IF server.stopped THEN server.child ELSE new
  IN /\ server.pc = "spawn"
     /\ ~MustReap
     /\ procs' = IF server.stopped THEN Continued(p, server.word.run)
                 ELSE [procs EXCEPT ![p] = [NoProc EXCEPT !.st = "running",
                                                          !.run = server.word.run]]
     /\ server' = [server EXCEPT !.pc = "wait", !.child = p, !.stopped = FALSE]
     /\ st' = Append(st, [Word("pid") EXCEPT !.pid = p])
     /\ UNCHANGED <<ctl, exec>>

ForkFails ==
  /\ MayFail
  /\ server.pc = "spawn"
  /\ ~MustReap
  /\ ~server.stopped
  /\ Exit
  /\ UNCHANGED <<ctl, st, exec, procs>>

\* waitpid and the status; a child that only stopped stays.
Wait ==
  LET p == server.child
      stops == Persistent /\ procs[p].st = "stopped"
  IN /\ server.pc = "wait"
     /\ Dead(p) \/ stops
     /\ procs' = IF stops THEN procs ELSE [procs EXCEPT ![p].st = "reaped"]
     /\ server' = [server EXCEPT !.pc = "read", !.stopped = stops]
     /\ st' = Append(st, [Word("status") EXCEPT !.run = procs[p].run])
     /\ UNCHANGED <<ctl, exec>>

Terminated_NoKill ==
  /\ MayFail
  /\ server.pc \in {"opts", "len", "dict", "read", "spawn", "wait"}
  /\ Exit
  /\ UNCHANGED <<ctl, st, exec, procs>>

\* SIGTERM: at_exit takes the child along.
Terminated ==
  /\ MayFail
  /\ server.pc \in {"opts", "len", "dict", "read", "spawn", "wait"}
  /\ procs' = Signalled(server.child, "KILL")
  /\ Exit
  /\ UNCHANGED <<ctl, st, exec>>

-----------------------------------------------------------------------------
(* The executor: build_helper *)

Fail == exec' = [exec EXCEPT !.pc = "failed"]

\* A write to the server's pipe, which fails once the server is gone.
WriteCtl(word, next) ==
  IF Exited THEN Fail /\ UNCHANGED ctl
  ELSE exec' = next /\ ctl' = Append(ctl, word)

Offers(w) == [shm |-> w.shm, dict |-> w.dict \/ w.kind = "error"]

Replies_Always(opts) == TRUE

\* "If send_status is not changed, then don't send" (forkserver.rs:866).
Replies(opts) == opts.shm \/ opts.dict

ReadHello ==
  LET offers == Offers(Head(st))
      opts == [shm |-> offers.shm /\ exec.is.shm,
               dict |-> offers.dict /\ exec.is.dict]
      next == [exec EXCEPT !.shm = opts.shm,
                           !.pc = IF opts.dict THEN "len" ELSE "idle"]
  IN /\ exec.pc = "hello"
     /\ st # <<>>
     /\ st' = Tail(st)
     /\ IF Replies(opts)
        THEN WriteCtl([Word("opts") EXCEPT !.shm = opts.shm, !.dict = opts.dict,
                                           !.killed = TRUE], next)
        ELSE exec' = next /\ UNCHANGED ctl
     /\ UNCHANGED <<server, procs>>

\* An error word is a negative length.
ReadDictLen ==
  /\ exec.pc = "len"
  /\ st # <<>>
  /\ st' = Tail(st)
  /\ IF Head(st).kind = "len" /\ Head(st).len >= 2
     THEN exec' = [exec EXCEPT !.pc = "dict", !.want = Head(st).len]
     ELSE Fail
  /\ UNCHANGED <<ctl, server, procs>>

\* One read takes what the pipe holds; it must be the whole dictionary.
ReadDict ==
  LET n == IF Len(st) < exec.want THEN Len(st) ELSE exec.want
  IN /\ exec.pc = "dict"
     /\ st # <<>>
     /\ st' = SubSeq(st, n + 1, Len(st))
     /\ IF n = exec.want THEN exec' = [exec EXCEPT !.pc = "idle"] ELSE Fail
     /\ UNCHANGED <<ctl, server, procs>>

-----------------------------------------------------------------------------
(* The executor: run_target *)

\* The input is in place and a run is requested; last_run_timed_out is sent
\* along and cleared.
StartRun ==
  /\ exec.pc = "idle"
  /\ exec.run < MaxRuns
  /\ WriteCtl([Word("run") EXCEPT !.killed = exec.timedOut, !.run = exec.run + 1],
              [exec EXCEPT !.pc = "pid", !.run = @ + 1, !.timedOut = FALSE])
  /\ UNCHANGED <<st, server, procs>>

\* An error word is a negative pid.
ReadPid ==
  /\ exec.pc = "pid"
  /\ st # <<>>
  /\ st' = Tail(st)
  /\ IF Head(st).kind = "pid"
     THEN exec' = [exec EXCEPT !.pc = "status", !.child = Head(st).pid]
     ELSE Fail
  /\ UNCHANGED <<ctl, server, procs>>

RunReturns(word) ==
  exec' = [exec EXCEPT !.pc = "idle", !.child = 0, !.got = word.run]

ReadStatus ==
  /\ exec.pc = "status"
  /\ st # <<>>
  /\ st' = Tail(st)
  /\ RunReturns(Head(st))
  /\ UNCHANGED <<ctl, server, procs>>

\* pselect returns with nothing to read.
TimesOut ==
  /\ exec.is.timeout
  /\ exec.pc = "status"
  /\ st = <<>>
  /\ ~Exited
  /\ exec' = [exec EXCEPT !.pc = "kill", !.timedOut = TRUE]
  /\ UNCHANGED <<ctl, st, server, procs>>

KillChild_OnlyReturns ==
  /\ exec.pc = "kill"
  /\ exec' = [exec EXCEPT !.pc = "idle", !.child = 0, !.got = exec.run]
  /\ UNCHANGED <<ctl, st, server, procs>>

KillChild_Spares ==
  /\ exec.pc = "kill"
  /\ exec' = [exec EXCEPT !.pc = "last"]
  /\ UNCHANGED <<ctl, st, server, procs>>

KillChild ==
  /\ exec.pc = "kill"
  /\ procs' = Signalled(exec.child, exec.is.sig)
  /\ exec' = [exec EXCEPT !.pc = "last"]
  /\ UNCHANGED <<ctl, st, server>>

\* The status of the killed child, or the one that was on its way.
ReadLastStatus ==
  /\ exec.pc = "last"
  /\ st # <<>>
  /\ st' = Tail(st)
  /\ RunReturns(Head(st))
  /\ UNCHANGED <<ctl, server, procs>>

\* Every read of an empty pipe whose writer is gone.
ReadsEnd ==
  /\ exec.pc \in {"hello", "len", "dict", "pid", "status", "last"}
  /\ st = <<>>
  /\ Exited
  /\ Fail
  /\ UNCHANGED <<ctl, st, server, procs>>

-----------------------------------------------------------------------------
ServerStep ==
  \/ \E ok \in BOOLEAN : MapShm(ok) \/ ReadOptions(ok)
  \/ PhoneHome
  \/ SendDictLen
  \/ \E n \in 1..DictLen : SendDict(n)
  \/ ReadCommand
  \/ Reap
  \/ Spawn
  \/ ForkFails
  \/ Wait

ExecStep ==
  \/ ReadHello
  \/ ReadDictLen
  \/ ReadDict
  \/ StartRun
  \/ ReadPid
  \/ ReadStatus
  \/ TimesOut
  \/ KillChild
  \/ ReadLastStatus
  \/ ReadsEnd

Next ==
  \/ ServerStep
  \/ Terminated
  \/ ExecStep
  \/ \E p \in Pid, how \in {"stopped", "exited", "signalled"} : ChildEnds(p, how)

Spec == Init /\ [][Next]_vars

\* Both sides keep running; time passes.  A child may hang for ever.
FairSpec == Spec /\ WF_vars(ServerStep) /\ WF_vars(ExecStep)

-----------------------------------------------------------------------------
(* Properties *)

WordType ==
  [kind : {"none", "error", "hello", "opts", "len", "byte", "run", "pid", "status"},
   shm : BOOLEAN, dict : BOOLEAN, killed : BOOLEAN, len : Nat \cup {-1},
   pid : 0..MaxRuns, run : 0..MaxRuns]

ExecType ==
  [is : Executors,
   pc : {"hello", "len", "dict", "idle", "pid", "status", "kill", "last", "failed"},
   run : 0..MaxRuns, got : 0..MaxRuns, child : 0..MaxRuns,
   want : Nat, timedOut : BOOLEAN, shm : BOOLEAN]

ServerType ==
  [pc : {"start", "phone", "opts", "len", "dict", "read", "spawn", "wait", "exited"},
   word : WordType, first : BOOLEAN, stopped : BOOLEAN,
   child : 0..MaxRuns, shm : BOOLEAN, left : Nat]

ProcType ==
  [st : {"none", "running", "stopped", "exited", "signalled", "reaped"},
   run : 0..MaxRuns, term : BOOLEAN]

\* Every variable keeps its type.
TypeOK ==
  /\ ctl \in Seq(WordType)
  /\ st \in Seq(WordType)
  /\ exec \in ExecType
  /\ server \in ServerType
  /\ procs \in [Pid -> ProcType]

\* The status a run returns with is that of the child that ran its input, after
\* any number of timeouts and whatever a killed child did last; and then no
\* process of the target runs: the coverage map the executor reads is not written
\* to (forkserver.rs:1170, 1227).
BetweenRuns ==
  exec.pc = "idle" => /\ exec.got = exec.run
                      /\ \A p \in Pid : procs[p].st # "running"

\* Every variable keeps its type, there is never more than one child, and when
\* the server is gone and the executor has noticed there is none that runs.
OneChild ==
  /\ TypeOK
  /\ Cardinality({p \in Pid : procs[p].st \in {"running", "stopped"}}) <= 1
  /\ exec.pc = "failed" /\ Exited => \A p \in Pid : procs[p].st # "running"

\* Both sides agree on where the input is, and every word the server acts on as
\* a command is one ("This is important", forkserver.rs:867; "only with SHMEM or
\* AUTODICT we can send send_status back or it breaks", forkserver.rs:843).
HandshakeAgrees ==
  server.pc \in {"spawn", "wait"} =>
    server.word.kind = "run" /\ server.shm = exec.shm

\* The handshake comes to an end whatever one side offers and the other takes: a
\* word the server read as its options is not lost when it was the first command
\* (forkserver.c:282).  So does every run under a timeout, with a child that hangs
\* or one that stops just as it is killed ("sends a user-defined signal to the
\* timed-out process", forkserver.rs:400), provided the signal is SIGKILL: a
\* stopped child keeps SIGTERM pending and its server waits for ever.
RunEnds ==
  (\/ exec.pc \in {"hello", "len", "dict"}
   \/ /\ exec.pc \in {"pid", "status", "kill", "last"}
      /\ exec.is.timeout
      /\ exec.is.sig = "KILL")
  ~> exec.pc \in {"idle", "failed"}

=============================================================================
