-------------------------- MODULE ForkserverProofs --------------------------
(***************************************************************************)
(* Safety of the forkserver and its executor, for every number of runs,    *)
(* every mix of options on either side and every size of dictionary and    *)
(* pipe.  The invariant says where the conversation over the two pipes is: *)
(* what each side does next determines what is in the pipes and which      *)
(* process of the target may live.                                         *)
(***************************************************************************)
EXTENDS Forkserver, FiniteSetTheorems, SequenceTheorems, TLAPS

-----------------------------------------------------------------------------
(* The conversation *)

IsOpts(w, dict) == w.kind = "opts" /\ w.shm = exec.shm /\ w.dict = dict
IsRun(w) == w.kind = "run" /\ w.run = exec.run
IsPid(w) == w.kind = "pid" /\ w.pid = server.child
IsStatus(w) == w.kind = "status" /\ w.run = exec.run

\* No child was forked yet.
Fresh == ~server.first /\ ~server.stopped /\ server.child = 0

\* What the executor hears first.
IsHello(w) == w.kind = "hello" /\ w.shm = TargetShm /\ w.dict = HasDict

\* After its hello the server reads options, if it offered any.
AfterHello == IF TargetShm \/ HasDict THEN "opts" ELSE "read"

Greeting ==
  /\ exec.pc = "hello" /\ ctl = <<>> /\ Fresh /\ ~server.shm /\ ~exec.shm
  /\ \/ server.pc \in {"start", "phone"} /\ st = <<>>
     \/ server.pc = AfterHello /\ Len(st) = 1 /\ IsHello(st[1])

\* The executor has answered, if it had to, and may be ahead by a run.
OptionsDue ==
  /\ server.pc = "opts" /\ st = <<>> /\ Fresh /\ ~server.shm
  /\ \/ exec.pc = "len" /\ HasDict /\ Len(ctl) = 1 /\ IsOpts(ctl[1], TRUE)
     \/ exec.pc = "idle" /\ exec.run = 0 /\ exec.shm
          /\ Len(ctl) = 1 /\ IsOpts(ctl[1], FALSE)
     \/ exec.pc = "idle" /\ exec.run = 0 /\ ~exec.shm /\ ctl = <<>>
     \/ exec.pc = "pid" /\ exec.run = 1 /\ exec.shm
          /\ Len(ctl) = 2 /\ IsOpts(ctl[1], FALSE) /\ IsRun(ctl[2])
     \/ exec.pc = "pid" /\ exec.run = 1 /\ ~exec.shm /\ Len(ctl) = 1 /\ IsRun(ctl[1])

\* The dictionary: its length, then the bytes that are left to send.
Dictionary ==
  /\ ctl = <<>> /\ Fresh /\ HasDict /\ server.shm = exec.shm
  /\ \/ server.pc = "len" /\ exec.pc = "len" /\ st = <<>>
     \/ /\ server.pc \in {"dict", "read"}
        /\ server.pc = "read" <=> server.left = 0
        /\ \/ /\ exec.pc = "len" /\ st # <<>>
              /\ st[1].kind = "len" /\ st[1].len = DictLen
              /\ Len(st) + server.left = DictLen + 1
           \/ /\ exec.pc = "dict" /\ exec.want = DictLen
              /\ Len(st) + server.left = DictLen

Resting ==
  /\ exec.pc = "idle" /\ server.pc = "read" /\ ctl = <<>> /\ st = <<>>
  /\ ~server.first /\ server.shm = exec.shm

Requested ==
  /\ exec.pc = "pid" /\ st = <<>> /\ server.shm = exec.shm
  /\ \/ server.pc = "read" /\ ~server.first /\ Len(ctl) = 1 /\ IsRun(ctl[1])
     \/ server.pc = "read" /\ server.first /\ ~server.stopped /\ ctl = <<>>
          /\ IsRun(server.word)
     \/ server.pc = "spawn" /\ ~server.first /\ ctl = <<>> /\ IsRun(server.word)

Busy == {"status", "kill", "last"}

\* The child has not ended its run, or nobody knows yet.
Running ==
  /\ server.pc = "wait" /\ ~server.first /\ ~server.stopped /\ ctl = <<>>
  /\ server.shm = exec.shm /\ IsRun(server.word)
  /\ \/ exec.pc = "pid" /\ Len(st) = 1 /\ IsPid(st[1])
     \/ exec.pc \in Busy /\ exec.child = server.child /\ st = <<>>

\* The status is on its way.
Over ==
  /\ server.pc = "read" /\ ~server.first /\ ctl = <<>> /\ server.shm = exec.shm
  /\ \/ exec.pc = "pid" /\ Len(st) = 2 /\ IsPid(st[1]) /\ IsStatus(st[2])
     \/ exec.pc \in Busy /\ exec.child = server.child
          /\ Len(st) = 1 /\ IsStatus(st[1])

\* The executor did not take the dictionary.
GaveUp ==
  exec.pc = "failed" /\ server.pc \in {"dict", "read"} /\ ctl = <<>> /\ Fresh

Talk ==
  \/ Greeting
  \/ OptionsDue
  \/ Dictionary
  \/ Resting
  \/ Requested
  \/ Running
  \/ Over
  \/ GaveUp

-----------------------------------------------------------------------------
(* The processes *)

Alive(p) == procs[p].st \in {"running", "stopped"}

\* The executor signalled the child in the last run it knows of, and the server
\* will be told so.
Killed ==
  IF exec.pc = "pid"
  THEN \/ server.pc = "spawn" /\ server.word.killed
       \/ server.pc = "read" /\ ctl # <<>> /\ ctl[1].killed
  ELSE exec.timedOut

\* The server knows what its child is doing.
ChildOK ==
  \/ /\ server.pc = "wait"
     /\ server.child \in Pid
     /\ procs[server.child].st \in {"running", "stopped", "exited", "signalled"}
     /\ procs[server.child].run = exec.run
     /\ procs[server.child].term => Killed
  \/ /\ server.pc \in {"read", "spawn"} /\ server.stopped
     /\ server.child \in Pid
     /\ procs[server.child].st \in {"stopped", "signalled"}
     /\ Killed \/ (procs[server.child].st = "stopped" /\ ~procs[server.child].term)
  \/ /\ server.pc # "wait" /\ ~server.stopped
     /\ server.child \in Pid => procs[server.child].st = "reaped"

\* The run that is asked for has no child yet.
Unspawned == exec.pc = "pid" /\ st = <<>>

\* Process numbers are given out in order, one for a run at most.
PidsInOrder ==
  \E k \in 0..exec.run :
    /\ \A p \in Pid : procs[p] = NoProc <=> p > k
    /\ Unspawned => k < exec.run

Children ==
  /\ \A p \in Pid : p # server.child => procs[p].st \in {"none", "reaped"}
  /\ \A p \in Pid : procs[p].st = "none" => procs[p] = NoProc
  /\ PidsInOrder
  /\ ChildOK

-----------------------------------------------------------------------------
(* The executor's books, and what is left when the server is gone *)

Books ==
  /\ exec.pc \in {"hello", "len", "dict"} => exec.run = 0
  /\ exec.pc \in {"hello", "len", "dict", "idle"} => exec.got = exec.run
  /\ exec.pc \in {"hello", "len", "dict", "pid", "status"} => ~exec.timedOut
  /\ exec.pc \in {"kill", "last"} => exec.timedOut

Gone ==
  /\ \A p \in Pid : ~Alive(p)
  /\ exec.pc = "pid" => \/ st = <<>>
                        \/ st[1].kind # "pid"
                        \/ Len(st) = 1
                        \/ Len(st) = 2 /\ IsStatus(st[2])
  /\ exec.pc \in Busy => st = <<>> \/ (Len(st) = 1 /\ IsStatus(st[1]))

IInv ==
  /\ TypeOK
  /\ Books
  /\ Exited => Gone
  /\ ~Exited => Talk /\ Children

-----------------------------------------------------------------------------
(* Pipes *)

LEMMA Taken ==
  ASSUME NEW s \in Seq(WordType), s # <<>>
  PROVE  /\ Head(s) = s[1] /\ s[1] \in WordType
         /\ Len(s) \in Nat \ {0}
         /\ Tail(s) \in Seq(WordType) /\ Len(Tail(s)) = Len(s) - 1
         /\ \A i \in 1..(Len(s) - 1) : Tail(s)[i] = s[i + 1]
         /\ Len(s) = 1 => Tail(s) = <<>>
<1>1. Len(s) \in Nat \ {0}
  BY EmptySeq
<1>2. Head(s) = s[1] /\ Head(s) \in WordType
  BY HeadTailProperties
<1>3. /\ Tail(s) \in Seq(WordType) /\ Len(Tail(s)) = Len(s) - 1
      /\ \A i \in 1..(Len(s) - 1) : Tail(s)[i] = s[i + 1]
  BY HeadTailProperties
<1>4. Tail(s) # <<>> => Len(Tail(s)) \in Nat \ {0}
  BY <1>3, EmptySeq
<1> QED
  BY <1>1, <1>2, <1>3, <1>4

LEMMA Added ==
  ASSUME NEW s \in Seq(WordType), NEW w \in WordType
  PROVE  /\ Append(s, w) \in Seq(WordType) /\ Append(s, w) # <<>>
         /\ Len(s) \in Nat /\ Len(Append(s, w)) = Len(s) + 1
         /\ Append(s, w)[Len(s) + 1] = w
         /\ \A i \in 1..Len(s) : Append(s, w)[i] = s[i]
<1>1. Len(s) \in Nat
  BY LenProperties
<1>2. /\ Append(s, w) \in Seq(WordType)
      /\ Len(Append(s, w)) = Len(s) + 1
      /\ Append(s, w)[Len(s) + 1] = w
      /\ \A i \in 1..Len(s) : Append(s, w)[i] = s[i]
  BY AppendProperties, <1>1
<1>3. Append(s, w) # <<>>
  BY <1>1, <1>2, EmptySeq
<1> QED
  BY <1>1, <1>2, <1>3

LEMMA AddedFirst ==
  ASSUME NEW w \in WordType
  PROVE  /\ Append(<<>>, w) \in Seq(WordType)
         /\ Append(<<>>, w) # <<>> /\ Len(Append(<<>>, w)) = 1
         /\ Append(<<>>, w)[1] = w
<1>1. <<>> \in Seq(WordType) /\ Len(<<>>) = 0
  BY EmptySeq
<1> QED
  BY <1>1, Added

LEMMA WordIsWord ==
  ASSUME NEW kind \in {"none", "error", "hello", "opts", "len", "byte", "run",
                       "pid", "status"}
  PROVE  Word(kind) \in WordType
BY ForkserverAssumption DEF Word, WordType

-----------------------------------------------------------------------------
(* Processes *)

\* Process numbers are left for the runs to come.
LEMMA NewPid ==
  ASSUME TypeOK, PidsInOrder, Unspawned,
         NEW new, new = 1 + Cardinality({p \in Pid : procs[p] # NoProc})
  PROVE  /\ new \in Pid
         /\ procs[new] = NoProc
         /\ \A p \in Pid : procs[p] = NoProc <=> p >= new
         /\ new <= exec.run
<1>1. exec.run \in 0..MaxRuns /\ MaxRuns \in Nat
  BY ForkserverAssumption DEF TypeOK, ExecType, ServerType, ProcType
<1>2. PICK k \in 0..exec.run : /\ \A p \in Pid : procs[p] = NoProc <=> p > k
                               /\ k < exec.run
  BY DEF PidsInOrder
<1> DEFINE Used == {p \in Pid : procs[p] # NoProc}
<1>3. Used = 1..k
  BY <1>1, <1>2 DEF Pid
<1>4. k \in Nat /\ Cardinality(1..k) = k
  <2>1. k \in Nat /\ 1 \in Int /\ k \in Int
    BY <1>1, <1>2
  <2>2. Cardinality(1..k) = IF 1 > k THEN 0 ELSE k - 1 + 1
    BY <2>1, FS_Interval
  <2> QED
    BY <2>1, <2>2
<1>5. new = k + 1
  <2>1. new = 1 + Cardinality(Used)
    OBVIOUS
  <2> HIDE DEF Used
  <2> QED
    BY <2>1, <1>3, <1>4
<1> HIDE DEF Used
<1>6. new \in Pid /\ new <= exec.run
  BY <1>1, <1>2, <1>4, <1>5 DEF Pid
<1>7. \A p \in Pid : procs[p] = NoProc <=> p >= new
  BY <1>1, <1>2, <1>4, <1>5 DEF Pid
<1> QED
  BY <1>4, <1>5, <1>6, <1>7

\* A step that leaves the processes alone.
LEMMA ProcessesStay ==
  ASSUME TypeOK, TypeOK', Children, procs' = procs,
         server'.child = server.child,
         exec'.run >= exec.run,
         Unspawned' => Unspawned \/ exec'.run > exec.run,
         ChildOK'
  PROVE  Children'
<1>1. exec.run \in 0..MaxRuns /\ exec'.run \in 0..MaxRuns /\ MaxRuns \in Nat
  BY ForkserverAssumption DEF TypeOK, ExecType, ServerType, ProcType
<1>2. PICK k \in 0..exec.run : /\ \A p \in Pid : procs[p] = NoProc <=> p > k
                               /\ Unspawned => k < exec.run
  BY DEF Children, PidsInOrder
<1>3. k \in 0..exec'.run /\ (Unspawned' => k < exec'.run)
  BY <1>1, <1>2
<1>4. PidsInOrder'
  BY <1>2, <1>3 DEF PidsInOrder
<1> QED
  BY <1>4 DEF Children

\* A step that changes the state of a process that was given out.
LEMMA OneProcessChanges ==
  ASSUME TypeOK, TypeOK', Children, NEW p \in Pid, procs[p].st # "none",
         procs'[p].st # "none",
         \A q \in Pid : q # p => procs'[q] = procs[q],
         p = server.child \/ procs'[p].st = "reaped",
         server'.child = server.child,
         exec'.run = exec.run,
         Unspawned' => Unspawned,
         ChildOK'
  PROVE  Children'
<1>1. PICK k \in 0..exec.run : /\ \A q \in Pid : procs[q] = NoProc <=> q > k
                               /\ Unspawned => k < exec.run
  BY DEF Children, PidsInOrder
<1>2. procs[p] # NoProc /\ procs'[p] # NoProc
  BY DEF NoProc
<1>3. \A q \in Pid : procs'[q] = NoProc <=> q > k
  BY <1>1, <1>2
<1>4. PidsInOrder'
  BY <1>1, <1>3 DEF PidsInOrder
<1>5. \A q \in Pid : q # server.child => procs'[q].st \in {"none", "reaped"}
  BY DEF Children
<1>6. \A q \in Pid : procs'[q].st = "none" => procs'[q] = NoProc
  BY DEF Children
<1> QED
  BY <1>4, <1>5, <1>6 DEF Children

\* The state of a process, and what a signal does to it.
LEMMA OneField ==
  ASSUME NEW a \in ProcType, NEW s \in {"none", "running", "stopped", "exited", "signalled", "reaped"}
  PROVE  [a EXCEPT !.st = s] \in ProcType /\ [a EXCEPT !.st = s].st = s
         /\ [a EXCEPT !.st = s].run = a.run /\ [a EXCEPT !.st = s].term = a.term
BY DEF ProcType

LEMMA SignalledEffect ==
  ASSUME procs \in [Pid -> ProcType], NEW p, NEW sig \in {"KILL", "TERM"}
  PROVE  /\ Signalled(p, sig) \in [Pid -> ProcType]
         /\ \A q \in Pid : q # p \/ ~Alive(q) => Signalled(p, sig)[q] = procs[q]
         /\ p \in Pid /\ Alive(p) =>
              /\ Signalled(p, sig)[p].run = procs[p].run
              /\ Signalled(p, sig)[p].st \in {"stopped", "signalled"}
              /\ sig = "KILL" => Signalled(p, sig)[p].st = "signalled"
<1>1. CASE p \notin Pid
  BY <1>1 DEF Signalled
<1>2. CASE p \in Pid
  <2>1. procs[p] \in ProcType
    BY <1>2
  <2>2. CASE procs[p].st = "running"
    <3>1. Signalled(p, sig) = [procs EXCEPT ![p] = [@ EXCEPT !.st = "signalled"]]
      BY <1>2, <2>2 DEF Signalled
    <3> DEFINE new == [procs[p] EXCEPT !.st = "signalled"]
    <3>2. new \in ProcType /\ new.st = "signalled" /\ new.run = procs[p].run
      BY <2>1, OneField
    <3>3. Signalled(p, sig) = [procs EXCEPT ![p] = new]
      BY <3>1
    <3> HIDE DEF new
    <3> QED
      BY <1>2, <2>2, <3>2, <3>3 DEF Alive
  <2>3. CASE procs[p].st = "stopped" /\ sig = "KILL"
    <3>1. Signalled(p, sig) = [procs EXCEPT ![p] = [@ EXCEPT !.st = "signalled"]]
      BY <1>2, <2>3 DEF Signalled
    <3> DEFINE new == [procs[p] EXCEPT !.st = "signalled"]
    <3>2. new \in ProcType /\ new.st = "signalled" /\ new.run = procs[p].run
      BY <2>1, OneField
    <3>3. Signalled(p, sig) = [procs EXCEPT ![p] = new]
      BY <3>1
    <3> HIDE DEF new
    <3> QED
      BY <1>2, <2>3, <3>2, <3>3 DEF Alive
  <2>4. CASE procs[p].st = "stopped" /\ sig = "TERM"
    <3> DEFINE new == [procs[p] EXCEPT !.term = TRUE]
    <3>1. new \in ProcType /\ new.st = "stopped" /\ new.run = procs[p].run
      BY <2>1, <2>4 DEF ProcType
    <3>2. Signalled(p, sig) = [procs EXCEPT ![p] = new]
      BY <1>2, <2>4 DEF Signalled
    <3> HIDE DEF new
    <3> QED
      BY <1>2, <2>4, <3>1, <3>2 DEF Alive
  <2>5. CASE procs[p].st \notin {"running", "stopped"}
    BY <1>2, <2>5 DEF Signalled, Alive
  <2> QED
    BY <2>2, <2>3, <2>4, <2>5
<1> QED
  BY <1>1, <1>2

-----------------------------------------------------------------------------
(* Types *)

LEMMA ServerTypes ==
  ASSUME IInv, ServerStep \/ Terminated
  PROVE  TypeOK'
<1> USE ForkserverAssumption
<1>0. /\ server \in ServerType /\ exec \in ExecType
      /\ procs \in [Pid -> ProcType]
  BY DEF IInv, TypeOK
<1>1. /\ ctl \in Seq(WordType) /\ st \in Seq(WordType)
      /\ MaxRuns \in Nat
      /\ \A kind \in {"none", "error", "hello", "opts", "len", "byte", "run",
                      "pid", "status"} : Word(kind) \in WordType
  BY WordIsWord DEF IInv, TypeOK, ServerType
<1>2. ASSUME NEW ok \in BOOLEAN, MapShm(ok)
      PROVE  TypeOK'
  <2>1. st' \in Seq(WordType)
    BY <1>1, <1>2, Added DEF MapShm
  <2> QED
    <3>1. server' \in ServerType
      BY <1>0, <1>2 DEF MapShm, Exit, ServerType
    <3> QED
      BY <1>0, <1>1, <1>2, <2>1, <3>1 DEF MapShm, TypeOK
<1>3. CASE PhoneHome
  <2> DEFINE w == [Word("hello") EXCEPT !.shm = TargetShm, !.dict = HasDict]
  <2>1. w \in WordType
    <3>1. HasDict \in BOOLEAN /\ TargetShm \in BOOLEAN /\ Word("hello") \in WordType
      BY <1>1 DEF HasDict
    <3> QED
      BY <3>1 DEF WordType
  <2> HIDE DEF w
  <2>2. st' \in Seq(WordType)
    BY <1>1, <1>3, <2>1, Added DEF PhoneHome, w
  <2> QED
    <3>1. server' \in ServerType
      BY <1>0, <1>3 DEF PhoneHome, ServerType
    <3> QED
      BY <1>0, <1>1, <1>3, <2>2, <3>1 DEF PhoneHome, TypeOK
<1>4. ASSUME NEW ok \in BOOLEAN, ReadOptions(ok)
      PROVE  TypeOK'
  <2>1. ctl' \in Seq(WordType) /\ Head(ctl) \in WordType
    BY <1>1, <1>4, Taken DEF ReadOptions
  <2>2. st' \in Seq(WordType)
    <3>1. Word("error") \in WordType
      BY WordIsWord
    <3>2. Append(st, Word("error")) \in Seq(WordType)
      BY <1>1, <3>1, Added
    <3>3. st' \in {st, Append(st, Word("error"))}
      BY <1>4 DEF ReadOptions
    <3> QED
      BY <1>1, <3>2, <3>3
  <2>3. Head(ctl).shm \in BOOLEAN
    BY <2>1 DEF WordType
  <2> QED
    <3>1. UNCHANGED <<exec, procs>>
      BY <1>4 DEF ReadOptions
    <3> DEFINE shm == Head(ctl).kind = "opts" /\ Head(ctl).shm
    <3>2. shm \in BOOLEAN
      OBVIOUS
    <3>3. server' \in {[server EXCEPT !.pc = "len", !.shm = shm, !.word = Head(ctl)],
                       [server EXCEPT !.pc = "read", !.shm = shm, !.word = Head(ctl),
                                      !.first = ~shm],
                       [server EXCEPT !.pc = "exited"]}
      BY <1>4 DEF ReadOptions, AfterOptions, Exit
    <3> HIDE DEF shm
    <3>4. Head(ctl) \in WordType
      BY <2>1
    <3> DEFINE w == Head(ctl)
    <3> HIDE DEF w
    <3>5. w \in WordType
      BY <3>4 DEF w
    <3>6. /\ [server EXCEPT !.pc = "len", !.shm = shm, !.word = w] \in ServerType
          /\ [server EXCEPT !.pc = "exited"] \in ServerType
      BY <1>0, <3>2, <3>5 DEF ServerType
    <3>7. [server EXCEPT !.pc = "read", !.shm = shm, !.word = w, !.first = ~shm]
            \in ServerType
      BY <1>0, <3>2, <3>5 DEF ServerType
    <3>8. server' \in ServerType
      BY <3>3, <3>6, <3>7 DEF w
    <3> QED
      BY <1>0, <2>1, <2>2, <3>1, <3>8 DEF TypeOK
<1>5. CASE SendDictLen
  <2> DEFINE w == [Word("len") EXCEPT !.len = DictLen]
  <2>1. w \in WordType
    BY <1>1 DEF Word, WordType
  <2> HIDE DEF w
  <2>2. st' \in Seq(WordType)
    BY <1>1, <1>5, <2>1, Added DEF SendDictLen, w
  <2>3. DictLen \in Nat
    BY <1>5 DEF SendDictLen, IInv, Exited, Talk, Greeting, AfterHello, OptionsDue,
                Dictionary, Resting, Requested, Running, Over, GaveUp, HasDict
  <2> QED
    <3>1. server' \in ServerType
      BY <1>0, <1>5, <2>3 DEF SendDictLen, ServerType
    <3> QED
      BY <1>0, <1>1, <1>5, <2>2, <3>1 DEF SendDictLen, TypeOK
<1>6. ASSUME NEW n \in 1..DictLen, SendDict(n)
      PROVE  TypeOK'
  <2>1. n \in Nat /\ server.left \in Nat /\ n <= server.left
    BY <1>0, <1>6 DEF SendDict, ServerType
  <2> DEFINE bytes == [i \in 1..n |-> Word("byte")]
  <2>2. bytes \in Seq(WordType)
    BY <1>1, <2>1
  <2> HIDE DEF bytes
  <2>3. st' \in Seq(WordType)
    BY <1>1, <1>6, <2>2, ConcatProperties DEF SendDict, bytes
  <2> QED
    <3>1. server.left - n \in Nat
      BY <2>1
    <3>2. server' \in {[server EXCEPT !.left = @ - n, !.pc = "read"],
                       [server EXCEPT !.left = @ - n, !.pc = "dict"]}
      BY <1>6 DEF SendDict
    <3>3. UNCHANGED <<ctl, exec, procs>>
      BY <1>6 DEF SendDict
    <3>4. [server EXCEPT !.left = @ - n, !.pc = "read"] \in ServerType
      BY <1>0, <3>1 DEF ServerType
    <3>5. [server EXCEPT !.left = @ - n, !.pc = "dict"] \in ServerType
      BY <1>0, <3>1 DEF ServerType
    <3>6. server' \in ServerType
      BY <3>2, <3>4, <3>5
    <3> QED
      BY <1>0, <1>1, <2>3, <3>3, <3>6 DEF TypeOK
<1>7. CASE ReadCommand
  <2>1. CASE server.first
    <3>1. server' \in ServerType
      BY <1>0, <2>1, <1>7 DEF ReadCommand, ServerType
    <3> QED
      BY <1>0, <1>1, <1>7, <2>1, <3>1 DEF ReadCommand, TypeOK
  <2>2. CASE ~server.first
    <3>1. ctl' \in Seq(WordType) /\ Head(ctl) \in WordType
      BY <1>1, <1>7, <2>2, Taken DEF ReadCommand
    <3>2. server' \in ServerType
      BY <1>0, <1>7, <2>2, <3>1 DEF ReadCommand, ServerType
    <3> QED
      BY <1>0, <1>1, <1>7, <3>1, <3>2 DEF ReadCommand, TypeOK
  <2> QED
    BY <2>1, <2>2
<1>8. CASE Reap
  <2>1. server' \in ServerType
    BY <1>0, <1>8 DEF Reap, ServerType
  <2>2. procs' = [procs EXCEPT ![server.child] = [@ EXCEPT !.st = "reaped"]]
    BY <1>8 DEF Reap
  <2>3. procs' \in [Pid -> ProcType]
    BY <1>0, <2>2, OneField
  <2> QED
    BY <1>1, <1>8, <1>0, <2>1, <2>3 DEF Reap, TypeOK
<1>9. CASE Spawn
  <2> DEFINE new == 1 + Cardinality({p \in Pid : procs[p] # NoProc})
             p == IF server.stopped THEN server.child ELSE new
             w == [Word("pid") EXCEPT !.pid = p]
  <2>1. server.pc = "spawn" /\ ~Exited
    BY <1>9 DEF Spawn, Exited
  <2>2. Requested /\ Children
    BY <2>1 DEF IInv, Talk, Greeting, AfterHello, OptionsDue, Dictionary, Resting,
                Running, Over, GaveUp
  <2>3. Unspawned
    BY <2>2 DEF Requested, Unspawned
  <2>4. new \in Pid
    BY <2>2, <2>3, NewPid DEF IInv, Children
  <2> HIDE DEF new
  <2>5. p \in Pid /\ p \in 0..MaxRuns
    BY <2>1, <2>2, <2>4, <1>1 DEF Children, ChildOK, Pid
  <2> HIDE DEF p
  <2>6. w \in WordType
    BY <1>1, <2>5 DEF Word, WordType
  <2> HIDE DEF w
  <2>7. st' \in Seq(WordType)
    BY <1>1, <1>9, <2>6, Added DEF Spawn, w, p, new
  <2>8. server' = [server EXCEPT !.pc = "wait", !.child = p, !.stopped = FALSE]
    BY <1>9 DEF Spawn, p, new
  <2>9. server.word.run \in 0..MaxRuns
    BY <1>0 DEF ServerType, WordType
  <2>10. procs' \in [Pid -> ProcType]
    <3>1. CASE server.stopped
      <4>1. procs' = Continued(p, server.word.run)
        BY <3>1, <1>9 DEF Spawn, p
      <4>2. /\ [procs[p] EXCEPT !.st = "signalled"] \in ProcType
            /\ [procs[p] EXCEPT !.st = "running", !.run = server.word.run] \in ProcType
        BY <1>0, <2>5, <2>9 DEF ProcType
      <4>3. \/ procs' = procs
            \/ procs' = [procs EXCEPT ![p] = [procs[p] EXCEPT !.st = "signalled"]]
            \/ procs' = [procs EXCEPT ![p] = [procs[p] EXCEPT !.st = "running",
                                                  !.run = server.word.run]]
        <5>1. CASE procs[p].st = "stopped" /\ procs[p].term
          BY <1>0, <4>1, <2>5, <5>1 DEF Continued
        <5>2. CASE procs[p].st = "stopped" /\ ~procs[p].term
          BY <1>0, <4>1, <2>5, <5>2 DEF Continued
        <5>3. CASE procs[p].st # "stopped"
          BY <1>0, <4>1, <2>5, <5>3 DEF Continued
        <5> QED
          BY <5>1, <5>2, <5>3
      <4> QED
        BY <1>0, <2>5, <4>2, <4>3
    <3>2. CASE ~server.stopped
      <4>1. procs' = [procs EXCEPT ![p] = [NoProc EXCEPT !.st = "running",
                                                         !.run = server.word.run]]
        BY <3>2, <1>9 DEF Spawn, p, new
      <4>2. [NoProc EXCEPT !.st = "running", !.run = server.word.run] \in ProcType
        BY <2>9 DEF NoProc, ProcType
      <4> QED
        BY <1>0, <4>1, <4>2, <2>5
    <3> QED
      BY <3>1, <3>2
  <2> QED
    <3>1. server' \in ServerType
      BY <1>0, <2>5, <2>8 DEF ServerType
    <3> QED
      BY <1>0, <1>1, <1>9, <2>7, <2>10, <3>1 DEF Spawn, TypeOK
<1>10. CASE ForkFails
  <2>1. server' \in ServerType
    BY <1>0, <1>10 DEF ForkFails, Exit, ServerType
  <2> QED
    BY <1>0, <1>1, <1>10, <2>1 DEF ForkFails, TypeOK
<1>11. CASE Wait
  <2> DEFINE w == [Word("status") EXCEPT !.run = procs[server.child].run]
  <2>1. server.pc = "wait" /\ ~Exited
    BY <1>11 DEF Wait, Exited
  <2>2. server.child \in Pid
    BY <2>1 DEF IInv, Children, ChildOK
  <2>3. w \in WordType
    <3>1. procs[server.child].run \in 0..MaxRuns /\ Word("status") \in WordType
      BY <1>0, <1>1, <2>2 DEF ProcType
    <3> QED
      BY <3>1 DEF WordType
  <2> HIDE DEF w
  <2>4. st' \in Seq(WordType)
    BY <1>1, <1>11, <2>3, Added DEF Wait, w
  <2> QED
    <3>1. server' \in ServerType
      BY <1>0, <1>11 DEF Wait, ServerType
    <3>2. [procs[server.child] EXCEPT !.st = "reaped"] \in ProcType
      BY <1>0, <2>2, OneField
    <3>3. \/ procs' = procs
          \/ procs' = [procs EXCEPT ![server.child] =
                          [procs[server.child] EXCEPT !.st = "reaped"]]
      BY <1>11 DEF Wait
    <3>4. procs' \in [Pid -> ProcType]
      BY <1>0, <2>2, <3>2, <3>3
    <3> QED
      BY <1>0, <1>1, <1>11, <2>4, <3>1, <3>4 DEF Wait, TypeOK
<1>12. CASE Terminated
  <2>1. procs' \in [Pid -> ProcType]
    BY <1>12, SignalledEffect DEF Terminated, IInv, TypeOK
  <2>2. UNCHANGED <<ctl, st, exec>> /\ server' = [server EXCEPT !.pc = "exited"]
    BY <1>12 DEF Terminated, Exit
  <2> QED
    <3>1. server' \in ServerType
      BY <1>0, <2>2 DEF ServerType
    <3> QED
      BY <1>0, <1>1, <2>1, <2>2, <3>1 DEF TypeOK
<1> QED
  BY <1>2, <1>3, <1>4, <1>5, <1>6, <1>7, <1>8, <1>9, <1>10, <1>11, <1>12 DEF ServerStep

LEMMA ExecTypes ==
  ASSUME IInv, ExecStep
  PROVE  TypeOK'
<1> USE ForkserverAssumption
<1>0. exec \in ExecType /\ server \in ServerType /\ procs \in [Pid -> ProcType]
  BY DEF IInv, TypeOK
<1>1. /\ ctl \in Seq(WordType) /\ st \in Seq(WordType)
      /\ MaxRuns \in Nat
  BY <1>0 DEF IInv, TypeOK, ExecType
<1>failed. [exec EXCEPT !.pc = "failed"] \in ExecType
  BY <1>0 DEF ExecType
<1>2. CASE ReadHello
  <2> DEFINE offers == Offers(Head(st))
             opts == [shm |-> offers.shm /\ exec.is.shm,
                      dict |-> offers.dict /\ exec.is.dict]
             w == [Word("opts") EXCEPT !.shm = opts.shm, !.dict = opts.dict,
                                       !.killed = TRUE]
  <2>1. st' \in Seq(WordType)
    BY <1>1, <1>2, Taken DEF ReadHello
  <2>2. opts.shm \in BOOLEAN /\ opts.dict \in BOOLEAN
    OBVIOUS
  <2>3. w \in WordType
    <3>1. Word("opts") \in WordType
      BY WordIsWord
    <3> HIDE DEF opts
    <3> QED
      BY <2>2, <3>1 DEF WordType
  <2>4. Append(ctl, w) \in Seq(WordType)
    BY <1>1, <2>3, Added
  <2>5. ctl' \in {ctl, Append(ctl, w)}
    BY <1>2 DEF ReadHello, WriteCtl
  <2>6. exec' \in {[exec EXCEPT !.pc = "failed"],
                   [exec EXCEPT !.shm = opts.shm,
                                !.pc = IF opts.dict THEN "len" ELSE "idle"]}
    BY <1>2 DEF ReadHello, WriteCtl, Fail
  <2>7. UNCHANGED <<server, procs>>
    BY <1>2 DEF ReadHello
  <2> HIDE DEF w, opts
  <2> QED
    <3>1. exec \in ExecType
      BY DEF IInv, TypeOK
    <3>2. [exec EXCEPT !.pc = "failed"] \in ExecType
      BY <3>1 DEF ExecType
    <3>3. [exec EXCEPT !.shm = opts.shm, !.pc = IF opts.dict THEN "len" ELSE "idle"]
            \in ExecType
      BY <2>2, <3>1 DEF ExecType
    <3>4. exec' \in ExecType
      BY <2>6, <3>2, <3>3
    <3> QED
      BY <1>1, <2>1, <2>4, <2>5, <2>7, <3>4 DEF IInv, TypeOK
<1>3. CASE ReadDictLen
  <2> DEFINE len == Head(st).len
             next == [exec EXCEPT !.pc = "dict", !.want = len]
  <2>1. st' \in Seq(WordType) /\ Head(st) \in WordType
    BY <1>1, <1>3, Taken DEF ReadDictLen
  <2>2. len >= 2 => len \in Nat
    BY <2>1 DEF WordType
  <2>3. \/ exec' = next /\ len >= 2
        \/ exec' = [exec EXCEPT !.pc = "failed"]
    BY <1>3 DEF ReadDictLen, Fail
  <2>4. UNCHANGED <<ctl, server, procs>>
    BY <1>3 DEF ReadDictLen
  <2> HIDE DEF len
  <2>5. len \in Nat => next \in ExecType
    BY <1>0 DEF ExecType
  <2>6. exec' \in ExecType
    BY <1>failed, <2>2, <2>3, <2>5
  <2> QED
    BY <1>0, <1>1, <2>1, <2>4, <2>6 DEF TypeOK
<1>4. CASE ReadDict
  <2> DEFINE n == IF Len(st) < exec.want THEN Len(st) ELSE exec.want
  <2>1. n \in Nat /\ Len(st) \in Nat
    BY <1>0, <1>1 DEF ExecType
  <2>2. \A i \in (n + 1)..Len(st) : st[i] \in WordType
    BY <1>1, <2>1, ElementOfSeq
  <2>3. SubSeq(st, n + 1, Len(st)) \in Seq(WordType)
    BY <2>1, <2>2, SubSeqProperties
  <2>4. /\ exec' \in {[exec EXCEPT !.pc = "idle"], [exec EXCEPT !.pc = "failed"]}
        /\ UNCHANGED <<ctl, server, procs>>
        /\ st' = SubSeq(st, n + 1, Len(st))
    BY <1>4 DEF ReadDict, Fail
  <2>5. [exec EXCEPT !.pc = "idle"] \in ExecType
    BY <1>0 DEF ExecType
  <2>6. exec' \in ExecType
    BY <1>failed, <2>4, <2>5
  <2> QED
    BY <1>0, <1>1, <2>3, <2>4, <2>6 DEF TypeOK
<1>5. CASE StartRun
  <2> DEFINE w == [Word("run") EXCEPT !.killed = exec.timedOut, !.run = exec.run + 1]
  <2>1. exec.run + 1 \in 0..MaxRuns /\ exec.timedOut \in BOOLEAN
    BY <1>0, <1>1, <1>5 DEF StartRun, ExecType
  <2>2. w \in WordType
    <3>1. Word("run") \in WordType
      BY WordIsWord
    <3> QED
      BY <2>1, <3>1 DEF WordType
  <2>3. Append(ctl, w) \in Seq(WordType)
    BY <1>1, <2>2, Added
  <2>4. ctl' \in {ctl, Append(ctl, w)}
    BY <1>5 DEF StartRun, WriteCtl
  <2>5. exec' \in {[exec EXCEPT !.pc = "failed"],
                   [exec EXCEPT !.pc = "pid", !.run = @ + 1, !.timedOut = FALSE]}
    BY <1>5 DEF StartRun, WriteCtl, Fail
  <2>6. UNCHANGED <<st, server, procs>>
    BY <1>5 DEF StartRun
  <2>7. [exec EXCEPT !.pc = "pid", !.run = @ + 1, !.timedOut = FALSE] \in ExecType
    BY <1>0, <2>1 DEF ExecType
  <2>8. exec' \in ExecType
    BY <1>failed, <2>5, <2>7
  <2> HIDE DEF w
  <2> QED
    BY <1>0, <1>1, <2>3, <2>4, <2>6, <2>8 DEF TypeOK
<1>6. CASE ReadPid
  <2> DEFINE pid == Head(st).pid
  <2>1. st' \in Seq(WordType) /\ Head(st) \in WordType
    BY <1>1, <1>6, Taken DEF ReadPid
  <2>2. pid \in 0..MaxRuns
    BY <2>1 DEF WordType
  <2>3. exec' \in {[exec EXCEPT !.pc = "status", !.child = pid],
                   [exec EXCEPT !.pc = "failed"]}
    BY <1>6 DEF ReadPid, Fail
  <2>4. UNCHANGED <<ctl, server, procs>>
    BY <1>6 DEF ReadPid
  <2> HIDE DEF pid
  <2>5. [exec EXCEPT !.pc = "status", !.child = pid] \in ExecType
    BY <1>0, <2>2 DEF ExecType
  <2>6. exec' \in ExecType
    BY <1>failed, <2>3, <2>5
  <2> QED
    BY <1>0, <1>1, <2>1, <2>4, <2>6 DEF TypeOK
<1>7. CASE ReadStatus \/ ReadLastStatus
  <2> DEFINE run == Head(st).run
  <2>1. st' \in Seq(WordType) /\ Head(st) \in WordType
    BY <1>1, <1>7, Taken DEF ReadStatus, ReadLastStatus
  <2>2. run \in 0..MaxRuns /\ 0 \in 0..MaxRuns
    BY <1>1, <2>1 DEF WordType
  <2>3. exec' = [exec EXCEPT !.pc = "idle", !.child = 0, !.got = run]
    BY <1>7 DEF ReadStatus, ReadLastStatus, RunReturns
  <2>4. UNCHANGED <<ctl, server, procs>>
    BY <1>7 DEF ReadStatus, ReadLastStatus
  <2> HIDE DEF run
  <2>5. exec' \in ExecType
    BY <1>0, <2>2, <2>3 DEF ExecType
  <2> QED
    BY <1>0, <1>1, <2>1, <2>4, <2>5 DEF TypeOK
<1>8. CASE TimesOut
  <2>1. exec' \in ExecType
    BY <1>0, <1>8 DEF TimesOut, ExecType
  <2> QED
    BY <1>0, <1>1, <1>8, <2>1 DEF TimesOut, TypeOK
<1>9. CASE KillChild
  <2>1. exec.is.sig \in {"KILL", "TERM"}
    BY DEF IInv, TypeOK, ExecType, Executor
  <2>2. procs' \in [Pid -> ProcType]
    BY <1>9, <2>1, SignalledEffect DEF KillChild, IInv, TypeOK
  <2>3. UNCHANGED <<ctl, st, server>> /\ exec' = [exec EXCEPT !.pc = "last"]
    BY <1>9 DEF KillChild
  <2>4. exec' \in ExecType
    BY <1>0, <2>3 DEF ExecType
  <2> QED
    BY <1>0, <1>1, <2>2, <2>3, <2>4 DEF TypeOK
<1>10. CASE ReadsEnd
  <2>1. exec' \in ExecType
    BY <1>failed, <1>10 DEF ReadsEnd, Fail
  <2> QED
    BY <1>0, <1>1, <1>10, <2>1 DEF ReadsEnd, TypeOK
<1> QED
  BY <1>2, <1>3, <1>4, <1>5, <1>6, <1>7, <1>8, <1>9, <1>10 DEF ExecStep

LEMMA ChildTypes ==
  ASSUME IInv, NEW p \in Pid, NEW how \in {"stopped", "exited", "signalled"},
         ChildEnds(p, how)
  PROVE  TypeOK'
<1>1. procs \in [Pid -> ProcType]
  BY DEF IInv, TypeOK
<1>2. [procs[p] EXCEPT !.st = how] \in ProcType
  BY <1>1, OneField
<1>3. procs' = [procs EXCEPT ![p] = [@ EXCEPT !.st = how]]
  BY DEF ChildEnds
<1>4. procs' \in [Pid -> ProcType]
  BY <1>1, <1>2, <1>3
<1>5. UNCHANGED <<ctl, st, exec, server>>
  BY DEF ChildEnds
<1> QED
  BY <1>4, <1>5 DEF IInv, TypeOK

-----------------------------------------------------------------------------
(* The server's steps *)

\* Who is where says what is being talked about.
LEMMA Phases ==
  ASSUME Talk
  PROVE  /\ exec.pc = "hello" => Greeting
         /\ exec.pc = "len" => OptionsDue \/ Dictionary
         /\ exec.pc = "dict" => Dictionary
         /\ exec.pc = "idle" => OptionsDue \/ Resting
         /\ exec.pc = "pid" => OptionsDue \/ Requested \/ Running \/ Over
         /\ exec.pc \in Busy => Running \/ Over
         /\ exec.pc = "failed" => GaveUp
         /\ server.pc \in {"start", "phone"} => Greeting
         /\ server.pc = "opts" => Greeting \/ OptionsDue
         /\ server.pc = "len" => Dictionary
         /\ server.pc = "dict" => Dictionary \/ GaveUp
         /\ server.pc = "spawn" => Requested
         /\ server.pc = "wait" => Running
BY DEF Talk, Greeting, AfterHello, OptionsDue, Dictionary, Resting, Requested, Busy,
       Running, Over, GaveUp

\* Only a child that runs or is stopped keeps the processes from being gone.
LEMMA NobodyLives ==
  ASSUME Children, server.child \in Pid => ~Alive(server.child)
  PROVE  \A p \in Pid : ~Alive(p)
BY DEF Children, Alive

\* Before the first run there is no child.
LEMMA NoChildYet ==
  ASSUME Children, server.child = 0
  PROVE  \A p \in Pid : ~Alive(p)
BY NobodyLives DEF Pid

\* A step of the server that keeps the children as they are.
LEMMA ServerKeepsChildren ==
  ASSUME IInv, TypeOK', Children, UNCHANGED <<exec, procs>>,
         server'.child = server.child,
         Unspawned' => Unspawned,
         ChildOK'
  PROVE  Children'
<1>1. exec'.run >= exec.run
  BY ForkserverAssumption DEF IInv, TypeOK, ExecType
<1> QED
  BY <1>1, ProcessesStay DEF IInv

LEMMA MapShmKeeps ==
  ASSUME IInv, TypeOK', NEW ok \in BOOLEAN, MapShm(ok)
  PROVE  IInv'
<1>1. ~Exited /\ Talk /\ Children /\ Greeting /\ server.pc = "start"
  BY Phases DEF MapShm, Exited, IInv
<1>2. exec.pc = "hello" /\ UNCHANGED <<ctl, exec, procs>> /\ server.child = 0
  BY <1>1 DEF Greeting, Fresh, MapShm
<1>4. CASE ok
  <2>1. server' = [server EXCEPT !.pc = "phone"] /\ UNCHANGED st
    BY <1>4 DEF MapShm
  <2>2. /\ server'.pc = "phone" /\ server'.first = server.first
        /\ server'.stopped = server.stopped /\ server'.child = server.child
        /\ server'.shm = server.shm
    BY <2>1 DEF IInv, TypeOK, ServerType
  <2>3. Greeting'
    BY <1>1, <1>2, <2>1, <2>2 DEF Greeting, Fresh, AfterHello
  <2>4. ChildOK'
    BY <1>1, <1>2, <2>2 DEF Greeting, Fresh, ChildOK, Pid
  <2>5. Children'
    BY <1>1, <1>2, <2>1, <2>2, <2>4, ServerKeepsChildren DEF Unspawned
  <2>6. Books' /\ ~Exited'
    BY <1>2, <2>2 DEF IInv, Books, Exited
  <2> QED
    BY <2>3, <2>5, <2>6 DEF IInv, Talk
<1>5. CASE ~ok
  <2>1. server'.pc = "exited"
    BY <1>5 DEF MapShm, Exit, IInv, TypeOK, ServerType
  <2>2. Gone'
    BY <1>1, <1>2, NoChildYet DEF Gone, Busy, Alive
  <2> QED
    BY <1>2, <2>1, <2>2 DEF IInv, Books, Exited
<1> QED
  BY <1>4, <1>5

LEMMA PhoneHomeKeeps ==
  ASSUME IInv, TypeOK', PhoneHome
  PROVE  IInv'
<1>1. ~Exited /\ Talk /\ Children /\ Greeting /\ st = <<>>
  <2>1. ~Exited /\ server.pc = "phone"
    BY DEF PhoneHome, Exited
  <2>2. Talk /\ Children /\ Greeting
    BY <2>1, Phases DEF IInv
  <2> QED
    BY <2>1, <2>2 DEF Greeting, AfterHello
<1>2. exec.pc = "hello" /\ UNCHANGED <<ctl, exec, procs>> /\ server.child = 0
  BY <1>1 DEF Greeting, Fresh, PhoneHome
<1>3. /\ server'.pc = AfterHello /\ server'.first = server.first
      /\ server'.stopped = server.stopped /\ server'.child = server.child
      /\ server'.shm = server.shm
  BY DEF PhoneHome, AfterHello, IInv, TypeOK, ServerType
<1> DEFINE w == [Word("hello") EXCEPT !.shm = TargetShm, !.dict = HasDict]
<1>4. w.kind = "hello" /\ w.shm = TargetShm /\ w.dict = HasDict
  BY DEF Word
<1>5. w \in WordType
  <2>1. HasDict \in BOOLEAN /\ TargetShm \in BOOLEAN /\ Word("hello") \in WordType
    BY ForkserverAssumption, WordIsWord DEF HasDict
  <2> QED
    BY <2>1 DEF WordType
<1>6. st' = Append(<<>>, w)
  BY <1>1 DEF PhoneHome
<1> HIDE DEF w
<1>7. Len(st') = 1 /\ st'[1] = w
  BY <1>5, <1>6, AddedFirst
<1>8. Greeting'
  BY <1>1, <1>2, <1>3, <1>4, <1>7 DEF Greeting, Fresh, AfterHello, IsHello
<1>9. ChildOK'
  BY <1>1, <1>2, <1>3 DEF Greeting, Fresh, ChildOK, Pid, AfterHello
<1>10. Children'
  BY <1>1, <1>2, <1>3, <1>9, ServerKeepsChildren DEF Unspawned
<1>11. Books' /\ ~Exited'
  BY <1>2, <1>3 DEF IInv, Books, Exited, AfterHello
<1> QED
  BY <1>8, <1>10, <1>11 DEF IInv, Talk

LEMMA ReadOptionsKeeps ==
  ASSUME IInv, TypeOK', NEW ok \in BOOLEAN, ReadOptions(ok)
  PROVE  IInv'
<1>1. ~Exited /\ Children /\ OptionsDue /\ ctl # <<>>
  <2>1. ~Exited /\ server.pc = "opts" /\ ctl # <<>>
    BY DEF ReadOptions, Exited
  <2>2. Talk /\ Children /\ (Greeting \/ OptionsDue)
    BY <2>1, Phases DEF IInv
  <2> QED
    BY <2>1, <2>2 DEF Greeting
<1>2. UNCHANGED <<exec, procs>> /\ server.child = 0 /\ st = <<>> /\ ~server.stopped
      /\ exec.pc \in {"len", "idle", "pid"} /\ ctl' = Tail(ctl)
  BY <1>1 DEF OptionsDue, Fresh, ReadOptions
<1>3. /\ Head(ctl) = ctl[1] /\ ctl[1] \in WordType
      /\ Len(ctl) = 1 => Tail(ctl) = <<>>
      /\ Len(ctl) = 2 => Len(Tail(ctl)) = 1 /\ Tail(ctl)[1] = ctl[2]
  <2>1. ctl \in Seq(WordType)
    BY DEF IInv, TypeOK, ExecType, ServerType, ProcType
  <2>2. /\ Head(ctl) = ctl[1] /\ ctl[1] \in WordType
        /\ Len(ctl) = 1 => Tail(ctl) = <<>>
        /\ Len(Tail(ctl)) = Len(ctl) - 1
        /\ \A i \in 1..(Len(ctl) - 1) : Tail(ctl)[i] = ctl[i + 1]
    BY <2>1, <1>1, Taken
  <2>3. Len(ctl) = 2 => 1 \in 1..(Len(ctl) - 1) /\ 1 + 1 = 2
    OBVIOUS
  <2> QED
    BY <2>2, <2>3
<1> DEFINE w == ctl[1]
           shm == w.kind = "opts" /\ w.shm
<1>4. CASE ~ok
  <2>1. server'.pc = "exited" /\ st' = Append(<<>>, Word("error"))
    BY <1>2, <1>4 DEF ReadOptions, Exit, IInv, TypeOK, ExecType, ServerType, ProcType
  <2>2. st'[1].kind = "error"
    BY <2>1, AddedFirst, WordIsWord DEF Word
  <2>3. Gone'
    BY <1>1, <1>2, <2>2, NoChildYet DEF Gone, Busy, Alive
  <2> QED
    BY <1>2, <2>1, <2>3 DEF IInv, Books, Exited
<1>5. CASE ok
  <2>1. server' = AfterOptions(w, shm) /\ st' = <<>>
    BY <1>2, <1>3, <1>5 DEF ReadOptions
  <2>2. /\ server'.stopped = server.stopped /\ server'.child = server.child
        /\ server'.shm = shm /\ server'.word = w
        /\ server'.pc = IF w.kind = "opts" /\ w.dict /\ HasDict THEN "len" ELSE "read"
        /\ server'.first = IF w.kind = "opts" /\ w.dict /\ HasDict
                           THEN server.first ELSE ~shm
    BY <2>1 DEF AfterOptions, IInv, TypeOK, ExecType, ServerType, ProcType
  <2>3. ChildOK'
    BY <1>2, <2>2 DEF ChildOK, Pid
  <2>4. Children'
    BY <1>1, <1>2, <2>1, <2>2, <2>3, ProcessesStay DEF Unspawned, IInv, TypeOK, ExecType, ServerType, ProcType
  <2>5. Books' /\ ~Exited'
    BY <1>2, <2>2 DEF IInv, Books, Exited
  <2>6. ~server.first
    BY <1>1 DEF OptionsDue, Fresh
  <2>7. exec.shm \in BOOLEAN
    BY DEF IInv, TypeOK, ExecType, ServerType, ProcType
  <2>8. Talk'
    <3>1. CASE exec.pc = "len"
      <4>1. HasDict /\ IsOpts(w, TRUE) /\ Len(ctl) = 1
        BY <1>1, <3>1 DEF OptionsDue
      <4>2. Dictionary'
        BY <1>2, <1>3, <2>1, <2>2, <2>6, <2>7, <3>1, <4>1 DEF IsOpts, Dictionary, Fresh, HasDict
      <4> QED
        BY <4>2 DEF Talk
    <3>2. CASE exec.pc = "idle"
      <4>1. exec.shm /\ IsOpts(w, FALSE) /\ Len(ctl) = 1
        BY <1>1, <3>2 DEF OptionsDue
      <4>2. Resting'
        BY <1>2, <1>3, <2>1, <2>2, <3>2, <4>1 DEF IsOpts, Resting
      <4> QED
        BY <4>2 DEF Talk
    <3>3. CASE exec.pc = "pid" /\ exec.shm
      <4>1. IsOpts(w, FALSE) /\ Len(ctl) = 2 /\ IsRun(ctl[2])
        BY <1>1, <3>3 DEF OptionsDue
      <4>2. Requested'
        BY <1>2, <1>3, <2>1, <2>2, <3>3, <4>1 DEF IsOpts, IsRun, Requested
      <4> QED
        BY <4>2 DEF Talk
    <3>4. CASE exec.pc = "pid" /\ ~exec.shm
      <4>1. IsRun(w) /\ Len(ctl) = 1
        BY <1>1, <3>4 DEF OptionsDue
      <4>2. server'.shm = FALSE /\ server'.first = TRUE /\ server'.pc = "read"
        BY <2>2, <4>1 DEF IsRun
      <4>3. exec'.shm = FALSE /\ exec'.pc = "pid" /\ st' = <<>> /\ ctl' = <<>>
        BY <1>2, <1>3, <2>1, <2>7, <3>4, <4>1
      <4>4. IsRun(server.word)' /\ ~server'.stopped
        BY <1>2, <2>2, <4>1 DEF IsRun
      <4>5. Requested'
        BY <4>2, <4>3, <4>4 DEF Requested
      <4> QED
        BY <4>5 DEF Talk
    <3> QED
      BY <1>2, <3>1, <3>2, <3>3, <3>4
  <2> QED
    BY <2>4, <2>5, <2>8 DEF IInv
<1> QED
  BY <1>4, <1>5

LEMMA SendDictLenKeeps ==
  ASSUME IInv, TypeOK', SendDictLen
  PROVE  IInv'
<1>1. ~Exited /\ Children /\ Dictionary /\ server.pc = "len"
  BY Phases DEF SendDictLen, Exited, IInv
<1>2. exec.pc = "len" /\ st = <<>> /\ HasDict /\ UNCHANGED <<ctl, exec, procs>>
  BY <1>1 DEF Dictionary, SendDictLen
<1>3. DictLen \in Nat
  BY <1>2, ForkserverAssumption DEF HasDict
<1>4. /\ server'.pc = (IF DictLen = 0 THEN "read" ELSE "dict")
      /\ server'.left = DictLen /\ server'.first = server.first
      /\ server'.stopped = server.stopped /\ server'.child = server.child
      /\ server'.shm = server.shm
  BY DEF SendDictLen, IInv, TypeOK, ServerType
<1> DEFINE w == [Word("len") EXCEPT !.len = DictLen]
<1>5. w.kind = "len" /\ w.len = DictLen
  BY DEF Word
<1>6. w \in WordType
  <2>1. Word("len") \in WordType
    BY WordIsWord
  <2> QED
    BY <2>1, <1>3 DEF WordType
<1>7. st' = Append(<<>>, w)
  BY <1>2 DEF SendDictLen
<1> HIDE DEF w
<1>8. st' # <<>> /\ Len(st') = 1 /\ st'[1] = w
  BY <1>6, <1>7, AddedFirst
<1>9. Dictionary'
  BY <1>1, <1>2, <1>3, <1>4, <1>5, <1>8 DEF Dictionary, Fresh
<1>10. ChildOK'
  BY <1>1, <1>4 DEF Dictionary, Fresh, ChildOK, Pid
<1>11. Children'
  BY <1>1, <1>2, <1>4, <1>8, <1>10, ServerKeepsChildren DEF Unspawned
<1>12. Books' /\ ~Exited'
  BY <1>2, <1>4 DEF IInv, Books, Exited
<1> QED
  BY <1>9, <1>11, <1>12 DEF IInv, Talk

LEMMA SendDictKeeps ==
  ASSUME IInv, TypeOK', NEW n \in 1..DictLen, SendDict(n)
  PROVE  IInv'
<1>1. ~Exited /\ Children /\ (Dictionary \/ GaveUp) /\ server.pc = "dict"
  BY Phases DEF SendDict, Exited, IInv
<1>2. UNCHANGED <<ctl, exec, procs>> /\ n <= server.left /\ Fresh
      /\ exec.pc \in {"len", "dict", "failed"}
  BY <1>1 DEF SendDict, Dictionary, GaveUp
<1>3. n \in Nat /\ server.left \in Nat /\ n > 0
  BY DEF IInv, TypeOK, ServerType
<1>4. /\ server'.pc \in {"dict", "read"}
      /\ server'.pc = "read" <=> server'.left = 0
      /\ server'.left = server.left - n
      /\ server'.first = server.first
      /\ server'.stopped = server.stopped /\ server'.child = server.child
      /\ server'.shm = server.shm
  BY <1>3 DEF SendDict, IInv, TypeOK, ServerType
<1> DEFINE bytes == [i \in 1..n |-> Word("byte")]
<1>5. bytes \in Seq(WordType) /\ Len(bytes) = n
  BY <1>3, WordIsWord
<1>6. st' = st \o bytes
  BY DEF SendDict
<1> HIDE DEF bytes
<1>7. st \in Seq(WordType) /\ Len(st) \in Nat
  BY LenProperties DEF IInv, TypeOK, ServerType
<1>8. /\ Len(st') = Len(st) + n
      /\ st # <<>> => st'[1] = st[1]
  <2>1. /\ Len(st \o bytes) = Len(st) + n
        /\ \A i \in 1..(Len(st) + n) : i <= Len(st) => (st \o bytes)[i] = st[i]
    BY <1>5, <1>7, ConcatProperties
  <2>2. st # <<>> => Len(st) > 0 /\ 1 \in 1..(Len(st) + n)
    BY <1>3, <1>7, EmptySeq
  <2> QED
    BY <1>6, <1>7, <2>1, <2>2
<1>9. st' # <<>>
  BY <1>3, <1>7, <1>8, EmptySeq
<1>10. Talk'
  <2>1. CASE Dictionary /\ exec.pc = "len"
    <3>1. /\ st # <<>> /\ st[1].kind = "len" /\ st[1].len = DictLen
          /\ Len(st) + server.left = DictLen + 1
      BY <1>1, <2>1 DEF Dictionary
    <3>2. Len(st') + server'.left = DictLen + 1
      BY <1>3, <1>4, <1>7, <1>8, <3>1
    <3>3. Dictionary'
      BY <1>1, <1>2, <1>4, <1>8, <1>9, <2>1, <3>1, <3>2 DEF Dictionary, Fresh
    <3> QED
      BY <3>3 DEF Talk
  <2>2. CASE Dictionary /\ exec.pc = "dict"
    <3>1. exec.want = DictLen /\ Len(st) + server.left = DictLen
      BY <1>1, <2>2 DEF Dictionary
    <3>2. Len(st') + server'.left = DictLen
      BY <1>3, <1>4, <1>7, <1>8, <3>1
    <3>3. Dictionary'
      BY <1>1, <1>2, <1>4, <1>8, <1>9, <2>2, <3>1, <3>2 DEF Dictionary, Fresh
    <3> QED
      BY <3>3 DEF Talk
  <2>3. CASE GaveUp
    BY <1>2, <1>4, <2>3 DEF GaveUp, Fresh, Talk
  <2> QED
    BY <1>1, <2>1, <2>2, <2>3 DEF Dictionary
<1>11. ChildOK'
  BY <1>2, <1>4 DEF Fresh, ChildOK, Pid
<1>12. Children'
  BY <1>1, <1>2, <1>4, <1>9, <1>11, ServerKeepsChildren DEF Unspawned
<1>13. Books' /\ ~Exited'
  BY <1>2, <1>4 DEF IInv, Books, Exited
<1> QED
  BY <1>10, <1>12, <1>13 DEF IInv

LEMMA ReadCommandKeeps ==
  ASSUME IInv, TypeOK', ReadCommand
  PROVE  IInv'
<1>1. ~Exited /\ Talk /\ Children /\ server.pc = "read"
  BY DEF ReadCommand, Exited, IInv
<1>2. UNCHANGED <<st, exec, procs>>
  BY DEF ReadCommand
<1>3. Requested
  BY <1>1 DEF ReadCommand, Talk, Greeting, AfterHello, OptionsDue, Dictionary, Resting,
              Running, Over, GaveUp, Fresh
<1>4. exec.pc = "pid" /\ st = <<>>
  BY <1>3 DEF Requested
<1>5. CASE server.first
  <2>1. ~server.stopped /\ ctl = <<>> /\ IsRun(server.word)
    BY <1>1, <1>3, <1>5 DEF Requested
  <2>2. /\ server'.pc = "spawn" /\ server'.first = FALSE /\ server'.word = server.word
        /\ server'.stopped = server.stopped /\ server'.child = server.child
        /\ server'.shm = server.shm /\ ctl' = ctl
    BY <1>5 DEF ReadCommand, IInv, TypeOK, ServerType
  <2>3. Requested'
    BY <1>2, <1>3, <2>1, <2>2 DEF Requested, IsRun
  <2>4. ChildOK'
    BY <1>1, <1>2, <2>1, <2>2 DEF Children, ChildOK
  <2>5. Children'
    BY <1>1, <1>2, <1>4, <2>2, <2>4, ServerKeepsChildren DEF Unspawned
  <2>6. Books' /\ ~Exited'
    BY <1>2, <2>2 DEF IInv, Books, Exited
  <2> QED
    BY <2>3, <2>5, <2>6 DEF IInv, Talk
<1>6. CASE ~server.first
  <2>1. Len(ctl) = 1 /\ IsRun(ctl[1]) /\ ctl # <<>>
    BY <1>1, <1>3, <1>6 DEF Requested, ReadCommand
  <2>2. Head(ctl) = ctl[1] /\ Tail(ctl) = <<>>
    BY <2>1, Taken DEF IInv, TypeOK, ServerType
  <2>3. /\ server'.pc = "spawn" /\ server'.first = FALSE /\ server'.word = ctl[1]
        /\ server'.stopped = server.stopped /\ server'.child = server.child
        /\ server'.shm = server.shm /\ ctl' = <<>>
    BY <1>6, <2>2 DEF ReadCommand, IInv, TypeOK, ServerType
  <2>4. Requested'
    BY <1>2, <1>3, <2>1, <2>3 DEF Requested, IsRun
  <2>5. Killed => Killed'
    BY <1>1, <1>2, <1>4, <2>3 DEF Killed
  <2>6. ChildOK'
    BY <1>1, <1>2, <2>3, <2>5 DEF Children, ChildOK
  <2>7. Children'
    BY <1>1, <1>2, <1>4, <2>3, <2>6, ServerKeepsChildren DEF Unspawned
  <2>8. Books' /\ ~Exited'
    BY <1>2, <2>3 DEF IInv, Books, Exited
  <2> QED
    BY <2>4, <2>7, <2>8 DEF IInv, Talk
<1> QED
  BY <1>5, <1>6

\* In the loop, about to fork or to wake the child.
LEMMA AtSpawn ==
  ASSUME IInv, server.pc = "spawn"
  PROVE  /\ ~Exited /\ Talk /\ Children /\ Requested
         /\ exec.pc = "pid" /\ st = <<>> /\ ctl = <<>> /\ ~server.first
         /\ IsRun(server.word) /\ server.shm = exec.shm
         /\ Unspawned /\ (Killed <=> server.word.killed)
<1>1. ~Exited /\ Talk /\ Children /\ Requested
  BY Phases DEF Exited, IInv
<1>2. /\ exec.pc = "pid" /\ st = <<>> /\ ctl = <<>> /\ ~server.first
      /\ IsRun(server.word) /\ server.shm = exec.shm
  BY <1>1 DEF Requested
<1> QED
  BY <1>1, <1>2 DEF Unspawned, Killed

LEMMA ReapKeeps ==
  ASSUME IInv, TypeOK', Reap
  PROVE  IInv'
<1>1. server.pc = "spawn" /\ server.stopped /\ UNCHANGED <<ctl, st, exec>>
  BY DEF Reap, MustReap
<1>2. /\ ~Exited /\ Children /\ exec.pc = "pid" /\ st = <<>> /\ ctl = <<>>
      /\ ~server.first /\ IsRun(server.word) /\ server.shm = exec.shm /\ Unspawned
  BY <1>1, AtSpawn
<1> DEFINE c == server.child
<1>3. c \in Pid /\ procs[c].st \in {"stopped", "signalled"}
  BY <1>1, <1>2 DEF Children, ChildOK
<1>4. procs \in [Pid -> ProcType]
  BY DEF IInv, TypeOK, ExecType, ServerType, ProcType
<1> DEFINE new == [procs[c] EXCEPT !.st = "reaped"]
<1>5. new.st = "reaped"
  BY <1>3, <1>4, OneField
<1>6. procs' = [procs EXCEPT ![c] = new]
  BY DEF Reap
<1>7. /\ server'.pc = "spawn" /\ server'.stopped = FALSE /\ server'.first = server.first
      /\ server'.child = c /\ server'.word = server.word /\ server'.shm = server.shm
  BY <1>1 DEF Reap, IInv, TypeOK, ExecType, ServerType, ProcType
<1> HIDE DEF new
<1>8. procs'[c].st = "reaped" /\ \A q \in Pid : q # c => procs'[q] = procs[q]
  BY <1>3, <1>4, <1>5, <1>6
<1>9. ChildOK'
  BY <1>7, <1>8 DEF ChildOK
<1>10. Unspawned' => Unspawned
  BY <1>2
<1>11. Children'
  <2>1. exec'.run = exec.run /\ server'.child = server.child
    BY <1>1, <1>7
  <2>2. procs[c].st # "none" /\ procs'[c].st # "none"
    BY <1>3, <1>8
  <2> QED
    BY <1>2, <1>3, <1>8, <1>9, <1>10, <2>1, <2>2, OneProcessChanges DEF IInv
<1>12. Requested'
  BY <1>1, <1>2, <1>7 DEF Requested, IsRun
<1>13. Books' /\ ~Exited'
  BY <1>1, <1>7 DEF IInv, Books, Exited
<1> QED
  BY <1>11, <1>12, <1>13 DEF IInv, Talk

\* The child of the new run is the stopped one, woken, or a new process.
LEMMA SpawnedChild ==
  ASSUME IInv, Spawn, TypeOK'
  PROVE  /\ server'.child \in Pid
         /\ procs'[server'.child].st = "running"
         /\ procs'[server'.child].run = exec.run
         /\ ~procs'[server'.child].term
         /\ \A q \in Pid : q # server'.child =>
              procs'[q] = procs[q] /\ procs[q].st \in {"none", "reaped"}
         /\ PidsInOrder'
         /\ server' = [server EXCEPT !.pc = "wait", !.child = server'.child,
                                     !.stopped = FALSE]
         /\ st' = Append(<<>>, [Word("pid") EXCEPT !.pid = server'.child])
<1>1. server.pc = "spawn" /\ ~MustReap /\ UNCHANGED <<ctl, exec>>
  BY DEF Spawn
<1>2. /\ Children /\ st = <<>> /\ IsRun(server.word) /\ Unspawned
      /\ (Killed <=> server.word.killed)
  BY <1>1, AtSpawn
<1>3. procs \in [Pid -> ProcType] /\ server.word.run = exec.run
  BY <1>2 DEF IInv, TypeOK, IsRun
<1>4. exec.run \in 0..MaxRuns /\ MaxRuns \in Nat
  BY ForkserverAssumption DEF IInv, TypeOK, ExecType, ServerType, ProcType
<1>5. CASE server.stopped
  <2> DEFINE c == server.child
  <2>1. ~Killed
    BY <1>1, <1>2, <1>5 DEF MustReap
  <2>2. c \in Pid /\ procs[c].st = "stopped" /\ ~procs[c].term
    BY <1>1, <1>2, <1>5, <2>1 DEF Children, ChildOK
  <2>3. /\ server' = [server EXCEPT !.pc = "wait", !.child = c, !.stopped = FALSE]
        /\ procs' = Continued(c, exec.run)
        /\ st' = Append(<<>>, [Word("pid") EXCEPT !.pid = c])
    BY <1>2, <1>3, <1>5 DEF Spawn
  <2>4. server'.child = c
    BY <2>3 DEF IInv, TypeOK, ExecType, ServerType, ProcType
  <2> DEFINE new == [procs[c] EXCEPT !.st = "running", !.run = exec.run]
  <2>5. new.st = "running" /\ new.run = exec.run /\ ~new.term
    BY <2>2, <1>3 DEF ProcType
  <2>6. procs' = [procs EXCEPT ![c] = new]
    BY <2>2, <2>3, <1>3 DEF Continued
  <2> HIDE DEF new
  <2>7. procs'[c] = new /\ \A q \in Pid : q # c => procs'[q] = procs[q]
    BY <1>3, <2>2, <2>6
  <2>8. PidsInOrder'
    <3>1. PICK k \in 0..exec.run : /\ \A p \in Pid : procs[p] = NoProc <=> p > k
                                   /\ k < exec.run
      BY <1>2 DEF Children, PidsInOrder
    <3>2. procs[c] # NoProc /\ procs'[c] # NoProc
      BY <2>2, <2>5, <2>7 DEF NoProc
    <3>3. \A p \in Pid : procs'[p] = NoProc <=> p > k
      BY <3>1, <3>2, <2>2, <2>7
    <3> QED
      BY <3>1, <3>3, <1>1 DEF PidsInOrder
  <2>9. \A q \in Pid : q # c => procs[q].st \in {"none", "reaped"}
    BY <1>2 DEF Children
  <2> QED
    BY <2>2, <2>3, <2>4, <2>5, <2>7, <2>8, <2>9
<1>6. CASE ~server.stopped
  <2> DEFINE c == 1 + Cardinality({p \in Pid : procs[p] # NoProc})
  <2>1. /\ c \in Pid /\ procs[c] = NoProc
        /\ \A p \in Pid : procs[p] = NoProc <=> p >= c
        /\ c <= exec.run
    BY <1>2, NewPid DEF IInv, Children
  <2>2. /\ server' = [server EXCEPT !.pc = "wait", !.child = c, !.stopped = FALSE]
        /\ procs' = [procs EXCEPT ![c] = [NoProc EXCEPT !.st = "running",
                                                        !.run = exec.run]]
        /\ st' = Append(<<>>, [Word("pid") EXCEPT !.pid = c])
    BY <1>2, <1>3, <1>6 DEF Spawn
  <2> HIDE DEF c
  <2>3. server'.child = c
    BY <2>2 DEF IInv, TypeOK, ExecType, ServerType, ProcType
  <2> DEFINE new == [NoProc EXCEPT !.st = "running", !.run = exec.run]
  <2>4. new.st = "running" /\ new.run = exec.run /\ ~new.term
    BY DEF NoProc
  <2>5. procs' = [procs EXCEPT ![c] = new]
    BY <2>2
  <2> HIDE DEF new
  <2>6. procs'[c] = new /\ \A q \in Pid : q # c => procs'[q] = procs[q]
    BY <1>3, <2>1, <2>5
  <2>7. PidsInOrder'
    <3>1. c \in 0..exec.run
      BY <2>1, <1>4 DEF Pid
    <3>2. procs'[c] # NoProc
      BY <2>4, <2>6 DEF NoProc
    <3>3. \A p \in Pid : procs'[p] = NoProc <=> p > c
      BY <2>1, <2>6, <3>2, <1>4 DEF Pid
    <3>4. ~Unspawned'
      <4>1. [Word("pid") EXCEPT !.pid = c] \in WordType
        <5>1. Word("pid") \in WordType /\ c \in 0..MaxRuns
          BY WordIsWord, <2>1, <1>4 DEF Pid
        <5> QED
          BY <5>1 DEF WordType
      <4>2. st' # <<>>
        BY <2>2, <4>1, AddedFirst
      <4> QED
        BY <4>2 DEF Unspawned
    <3> QED
      BY <3>1, <3>3, <3>4, <1>1 DEF PidsInOrder
  <2>8. \A q \in Pid : procs[q].st \in {"none", "reaped"}
    BY <1>1, <1>2, <1>6 DEF Children, ChildOK
  <2> QED
    BY <2>1, <2>2, <2>3, <2>4, <2>6, <2>7, <2>8
<1> QED
  BY <1>5, <1>6

LEMMA SpawnKeeps ==
  ASSUME IInv, TypeOK', Spawn
  PROVE  IInv'
<1>1. server.pc = "spawn" /\ UNCHANGED <<ctl, exec>>
  BY DEF Spawn
<1>2. /\ Children /\ exec.pc = "pid" /\ ctl = <<>> /\ ~server.first
      /\ IsRun(server.word) /\ server.shm = exec.shm
  BY <1>1, AtSpawn
<1> DEFINE c == server'.child
           w == [Word("pid") EXCEPT !.pid = c]
<1>3. /\ c \in Pid /\ procs'[c].st = "running" /\ procs'[c].run = exec.run
      /\ ~procs'[c].term
      /\ \A q \in Pid : q # c =>
           procs'[q] = procs[q] /\ procs[q].st \in {"none", "reaped"}
      /\ PidsInOrder'
      /\ server' = [server EXCEPT !.pc = "wait", !.child = c, !.stopped = FALSE]
      /\ st' = Append(<<>>, w)
  BY SpawnedChild
<1>4. /\ server'.pc = "wait" /\ server'.stopped = FALSE /\ server'.first = server.first
      /\ server'.word = server.word /\ server'.shm = server.shm
  BY <1>3 DEF IInv, TypeOK, ExecType, ServerType, ProcType
<1>5. w.kind = "pid" /\ w.pid = c
  BY DEF Word
<1>6. w \in WordType
  <2>1. Word("pid") \in WordType /\ c \in 0..MaxRuns
    BY WordIsWord, <1>3, ForkserverAssumption DEF Pid
  <2> QED
    BY <2>1 DEF WordType
<1>7. st' # <<>> /\ Len(st') = 1 /\ IsPid(st[1])'
  <2> HIDE DEF w
  <2> QED
    BY <1>3, <1>5, <1>6, AddedFirst DEF IsPid
<1> HIDE DEF w
<1>8. Running'
  BY <1>1, <1>2, <1>4, <1>7 DEF Running, IsRun
<1>9. ChildOK'
  BY <1>1, <1>3, <1>4 DEF ChildOK
<1>10. \A q \in Pid : procs'[q].st = "none" => procs'[q] = NoProc
  BY <1>2, <1>3 DEF Children
<1>11. Children'
  BY <1>3, <1>9, <1>10 DEF Children
<1>12. Books' /\ ~Exited'
  BY <1>1, <1>4 DEF IInv, Books, Exited
<1> QED
  BY <1>8, <1>11, <1>12 DEF IInv, Talk

LEMMA ForkFailsKeeps ==
  ASSUME IInv, TypeOK', ForkFails
  PROVE  IInv'
<1>1. server.pc = "spawn" /\ ~server.stopped /\ UNCHANGED <<ctl, st, exec, procs>>
  BY DEF ForkFails
<1>2. Children /\ exec.pc = "pid" /\ st = <<>>
  BY <1>1, AtSpawn
<1>3. server'.pc = "exited"
  BY DEF ForkFails, Exit, IInv, TypeOK, ServerType
<1>4. \A p \in Pid : ~Alive(p)
  BY <1>1, <1>2, NobodyLives DEF Children, ChildOK, Alive
<1>5. Gone'
  BY <1>1, <1>2, <1>4 DEF Gone, Alive, Busy
<1> QED
  BY <1>1, <1>3, <1>5 DEF IInv, Books, Exited

LEMMA WaitKeeps ==
  ASSUME IInv, TypeOK', Wait
  PROVE  IInv'
<1>1. server.pc = "wait" /\ UNCHANGED <<ctl, exec>>
  BY DEF Wait
<1>2. ~Exited /\ Children /\ Running
  BY <1>1, Phases DEF Exited, IInv
<1> DEFINE c == server.child
           stops == Persistent /\ procs[c].st = "stopped"
           w == [Word("status") EXCEPT !.run = procs[c].run]
<1>3. /\ c \in Pid /\ procs[c].run = exec.run
      /\ procs[c].st \in {"running", "stopped", "exited", "signalled"}
      /\ procs[c].term => Killed
  BY <1>1, <1>2 DEF Children, ChildOK
<1>4. procs \in [Pid -> ProcType]
  BY DEF IInv, TypeOK, ExecType, ServerType, ProcType
<1>5. /\ server'.pc = "read" /\ server'.stopped = stops /\ server'.child = c
      /\ server'.first = server.first /\ server'.shm = server.shm
  BY DEF Wait, IInv, TypeOK, ExecType, ServerType, ProcType
<1>6. w.kind = "status" /\ w.run = exec.run
  BY <1>3 DEF Word
<1>7. w \in WordType
  <2>1. Word("status") \in WordType /\ procs[c].run \in 0..MaxRuns
    BY WordIsWord, <1>3, <1>4 DEF ProcType
  <2> QED
    BY <2>1 DEF WordType
<1>8. st' = Append(st, w)
  BY DEF Wait
<1>9. Over'
  <2> HIDE DEF w
  <2>1. /\ Len(st') = Len(st) + 1 /\ st'[Len(st) + 1] = w /\ Len(st) \in Nat
        /\ \A i \in 1..Len(st) : st'[i] = st[i]
    BY <1>7, <1>8, Added DEF IInv, TypeOK, ExecType, ServerType, ProcType
  <2>2. CASE exec.pc = "pid"
    <3>1. Len(st) = 1 /\ IsPid(st[1])
      BY <1>2, <2>2 DEF Running, Busy
    <3>2. Len(st') = 2 /\ st'[1] = st[1] /\ st'[2] = w
      BY <2>1, <3>1
    <3>3. IsPid(st[1])' /\ IsStatus(st[2])'
      BY <1>1, <1>5, <1>6, <3>1, <3>2 DEF IsPid, IsStatus
    <3> QED
      BY <1>1, <1>2, <1>5, <2>2, <3>2, <3>3 DEF Running, Over
  <2>3. CASE exec.pc \in Busy
    <3>1. st = <<>> /\ exec.child = server.child
      BY <1>2, <2>3 DEF Running, Busy
    <3>2. Len(st') = 1 /\ st'[1] = w
      BY <1>7, <1>8, <3>1, AddedFirst
    <3>3. IsStatus(st[1])'
      BY <1>1, <1>6, <3>2 DEF IsStatus
    <3> QED
      BY <1>1, <1>2, <1>5, <2>3, <3>1, <3>2, <3>3 DEF Running, Over
  <2> QED
    BY <1>2, <2>2, <2>3 DEF Running
<1>10. Unspawned' => Unspawned
  <2>1. st' # <<>>
    BY <1>7, <1>8, Added DEF IInv, TypeOK, ExecType, ServerType, ProcType
  <2> QED
    BY <2>1 DEF Unspawned
<1>11. CASE stops
  <2>1. procs' = procs
    BY <1>11 DEF Wait
  <2>2. Killed => Killed'
    BY <1>1 DEF Killed
  <2>3. ChildOK'
    BY <1>1, <1>3, <1>4, <1>5, <1>11, <2>1, <2>2 DEF ChildOK, ProcType
  <2>4. Children'
    BY <1>1, <1>2, <1>5, <1>10, <2>1, <2>3, ServerKeepsChildren
  <2>5. Books' /\ ~Exited'
    BY <1>1, <1>5 DEF IInv, Books, Exited
  <2> QED
    BY <1>9, <2>4, <2>5 DEF IInv, Talk
<1>12. CASE ~stops
  <2> DEFINE new == [procs[c] EXCEPT !.st = "reaped"]
  <2>1. new.st = "reaped"
    BY <1>3, <1>4, OneField
  <2>2. procs' = [procs EXCEPT ![c] = new]
    BY <1>12 DEF Wait
  <2> HIDE DEF new
  <2>3. procs'[c].st = "reaped" /\ \A q \in Pid : q # c => procs'[q] = procs[q]
    BY <1>3, <1>4, <2>1, <2>2
  <2>4. ChildOK'
    BY <1>5, <1>12, <2>3 DEF ChildOK
  <2>5. Children'
    <3>1. exec'.run = exec.run /\ server'.child = server.child
      BY <1>1, <1>5
    <3>2. procs[c].st # "none" /\ procs'[c].st # "none"
      BY <1>3, <2>3
    <3> QED
      BY <1>2, <1>3, <1>10, <2>3, <2>4, <3>1, <3>2, OneProcessChanges DEF IInv
  <2>6. Books' /\ ~Exited'
    BY <1>1, <1>5 DEF IInv, Books, Exited
  <2> QED
    BY <1>9, <2>5, <2>6 DEF IInv, Talk
<1> QED
  BY <1>11, <1>12

LEMMA TerminatedKeeps ==
  ASSUME IInv, TypeOK', Terminated
  PROVE  IInv'
<1>1. ~Exited /\ Talk /\ Children /\ UNCHANGED <<ctl, st, exec>>
  BY DEF Terminated, Exited, IInv
<1>2. server'.pc = "exited"
  BY DEF Terminated, Exit, IInv, TypeOK, ServerType
<1>3. procs \in [Pid -> ProcType]
  BY DEF IInv, TypeOK, ServerType
<1>4. \A p \in Pid : ~Alive(p)'
  <2>1. procs' = Signalled(server.child, "KILL")
    BY DEF Terminated
  <2>2. /\ \A q \in Pid : q # server.child \/ ~Alive(q) => procs'[q] = procs[q]
        /\ server.child \in Pid /\ Alive(server.child) =>
             procs'[server.child].st = "signalled"
    BY <1>3, <2>1, SignalledEffect
  <2>3. \A q \in Pid : q # server.child => ~Alive(q)
    BY <1>1 DEF Children, Alive
  <2> QED
    BY <2>2, <2>3 DEF Alive
<1>5. exec.pc = "pid" => \/ st = <<>>
                         \/ Len(st) = 1
                         \/ Len(st) = 2 /\ IsStatus(st[2])
  BY <1>1, Phases DEF OptionsDue, Requested, Running, Over, Busy
<1>6. exec.pc \in Busy => st = <<>> \/ (Len(st) = 1 /\ IsStatus(st[1]))
  BY <1>1, Phases DEF Running, Over, Busy
<1>7. Gone'
  BY <1>1, <1>4, <1>5, <1>6 DEF Gone, IsStatus
<1> QED
  BY <1>1, <1>2, <1>7 DEF IInv, Books, Exited

LEMMA ChildEndsKeeps ==
  ASSUME IInv, TypeOK', NEW p \in Pid, NEW how \in {"stopped", "exited", "signalled"},
         ChildEnds(p, how)
  PROVE  IInv'
<1>1. procs[p].st = "running" /\ UNCHANGED <<ctl, st, exec, server>>
  BY DEF ChildEnds
<1>2. ~Exited /\ Talk /\ Children
  BY <1>1 DEF IInv, Gone, Alive
<1>3. /\ p = server.child /\ server.pc = "wait" /\ procs[p].run = exec.run
      /\ procs[p].term => Killed
  BY <1>1, <1>2 DEF Children, ChildOK
<1>4. procs \in [Pid -> ProcType]
  BY DEF IInv, TypeOK, ExecType, ServerType, ProcType
<1> DEFINE new == [procs[p] EXCEPT !.st = how]
<1>5. new.st = how /\ new.run = procs[p].run /\ new.term = procs[p].term
  BY <1>4, OneField
<1>6. procs' = [procs EXCEPT ![p] = new]
  BY DEF ChildEnds
<1> HIDE DEF new
<1>7. procs'[p] = new /\ \A q \in Pid : q # p => procs'[q] = procs[q]
  BY <1>4, <1>6
<1>8. Killed' <=> Killed
  BY <1>1 DEF Killed
<1>9. ChildOK'
  <2>1. procs'[p].term => Killed'
    BY <1>3, <1>5, <1>7, <1>8
  <2> QED
    BY <1>1, <1>3, <1>5, <1>7, <2>1 DEF ChildOK
<1>10. Children'
  <2>1. procs[p].st # "none" /\ procs'[p].st # "none"
    BY <1>1, <1>5, <1>7
  <2>2. Unspawned' => Unspawned
    BY <1>1 DEF Unspawned
  <2> QED
    BY <1>1, <1>2, <1>3, <1>7, <1>9, <2>1, <2>2, OneProcessChanges DEF IInv
<1>11. Talk'
  BY <1>1, <1>2 DEF Talk, Greeting, OptionsDue, Dictionary, Resting, Requested, Running,
     Over, GaveUp, Fresh, IsOpts, IsRun, IsPid, IsStatus, IsHello, AfterHello, HasDict
<1>12. Books' /\ ~Exited'
  BY <1>1, <1>2 DEF IInv, Books, Exited
<1> QED
  BY <1>10, <1>11, <1>12 DEF IInv

-----------------------------------------------------------------------------
(* The executor's steps *)

\* A step of the executor that tells the server nothing about its child.
LEMMA ExecKeepsChildren ==
  ASSUME IInv, TypeOK', Children, UNCHANGED <<server, procs>>,
         exec'.run = exec.run,
         Unspawned' => Unspawned,
         Killed => Killed'
  PROVE  Children'
<1>1. ChildOK'
  BY DEF Children, ChildOK
<1>2. exec'.run >= exec.run
  BY ForkserverAssumption DEF IInv, TypeOK, ExecType, ServerType, ProcType
<1> QED
  BY <1>1, <1>2, ProcessesStay DEF IInv

\* When the server is gone there is nobody left to talk to.
LEMMA ReadsEndKeeps ==
  ASSUME IInv, TypeOK', ReadsEnd
  PROVE  IInv'
<1>1. Exited /\ UNCHANGED <<ctl, st, server, procs>> /\ exec'.pc = "failed"
  BY DEF ReadsEnd, Fail, IInv, TypeOK, ExecType
<1>2. Books' /\ Gone' /\ Exited'
  BY <1>1 DEF IInv, Books, Gone, Exited, Alive, Busy
<1> QED
  BY <1>2 DEF IInv

LEMMA ReadHelloKeeps ==
  ASSUME IInv, TypeOK', ReadHello
  PROVE  IInv'
<1> DEFINE offers == Offers(Head(st))
           opts == [shm |-> offers.shm /\ exec.is.shm,
                    dict |-> offers.dict /\ exec.is.dict]
           w == [Word("opts") EXCEPT !.shm = opts.shm, !.dict = opts.dict,
                                     !.killed = TRUE]
           next == [exec EXCEPT !.shm = opts.shm,
                                !.pc = IF opts.dict THEN "len" ELSE "idle"]
<1>1. /\ exec.pc = "hello" /\ st # <<>> /\ st' = Tail(st) /\ UNCHANGED <<server, procs>>
      /\ exec.run = 0 /\ exec.got = exec.run /\ ~exec.timedOut
  BY DEF ReadHello, IInv, Books
<1>2. /\ next.pc = (IF opts.dict THEN "len" ELSE "idle") /\ next.shm = opts.shm
      /\ next.run = 0 /\ next.got = 0 /\ next.timedOut = FALSE
  BY <1>1 DEF IInv, TypeOK, ExecType
<1>3. opts.shm \in BOOLEAN /\ opts.dict \in BOOLEAN
  OBVIOUS
<1>4. w.kind = "opts" /\ w.shm = opts.shm /\ w.dict = opts.dict
  BY DEF Word
<1>5. w \in WordType
  <2>1. Word("opts") \in WordType
    BY WordIsWord
  <2> HIDE DEF opts
  <2> QED
    BY <2>1, <1>3 DEF WordType
<1>6. IF Replies(opts) THEN WriteCtl(w, next) ELSE exec' = next /\ UNCHANGED ctl
  BY DEF ReadHello
<1>7. CASE Exited
  <2>1. exec'.pc \in {"failed", "idle", "len"} /\ exec'.run = 0 /\ exec'.got = 0
        /\ exec'.timedOut = FALSE
    <3>1. exec' = next \/ Fail
      BY <1>6, <1>7 DEF WriteCtl
    <3>2. CASE exec' = next
      BY <1>2, <3>2
    <3>3. CASE Fail
      BY <1>1, <3>3 DEF Fail, IInv, TypeOK, ExecType
    <3> QED
      BY <3>1, <3>2, <3>3
  <2>2. Books' /\ Gone' /\ Exited'
    BY <1>1, <1>7, <2>1 DEF IInv, Books, Gone, Exited, Alive, Busy
  <2> QED
    BY <2>2 DEF IInv
<1>8. CASE ~Exited
  <2>1. Talk /\ Children /\ Greeting
    BY <1>1, <1>8, Phases DEF IInv
  <2>2. /\ server.pc = AfterHello /\ Len(st) = 1 /\ IsHello(st[1])
        /\ ctl = <<>> /\ Fresh /\ ~server.shm
    BY <1>1, <2>1 DEF Greeting
  <2>3. Head(st) = st[1] /\ st' = <<>>
    BY <1>1, <2>2, Taken DEF IInv, TypeOK, ExecType
  <2>4. opts.shm = (TargetShm /\ exec.is.shm) /\ opts.dict = (HasDict /\ exec.is.dict)
    BY <2>2, <2>3 DEF Offers, IsHello
  <2> HIDE DEF opts, w, next
  <2>5. exec' = next
    BY <1>6, <1>8 DEF WriteCtl
  <2>6. server.pc \in {"opts", "read"}
    BY <2>2 DEF AfterHello
  <2>7. Talk'
    <3>1. CASE Replies(opts)
      <4>1. ctl' = Append(<<>>, w)
        BY <1>6, <1>8, <2>2, <3>1 DEF WriteCtl
      <4>2. Len(ctl') = 1 /\ ctl'[1] = w
        BY <1>5, <4>1, AddedFirst
      <4>3. server.pc = "opts"
        BY <2>2, <2>4, <3>1 DEF Replies, AfterHello
      <4>4. CASE opts.dict
        <5>1. HasDict /\ IsOpts(ctl[1], TRUE)'
          BY <1>2, <1>3, <1>4, <2>4, <2>5, <4>2, <4>4 DEF IsOpts
        <5>2. HasDict'
          BY <5>1 DEF HasDict
        <5>3. OptionsDue'
          BY <1>1, <1>2, <2>2, <2>3, <2>5, <4>2, <4>3, <4>4, <5>1, <5>2 DEF OptionsDue, Fresh
        <5> QED
          BY <5>3 DEF Talk
      <4>5. CASE ~opts.dict
        <5>1. opts.shm /\ IsOpts(ctl[1], FALSE)'
          BY <1>2, <1>3, <1>4, <2>5, <3>1, <4>2, <4>5 DEF IsOpts, Replies
        <5>2. OptionsDue'
          BY <1>1, <1>2, <2>2, <2>3, <2>5, <4>2, <4>3, <4>5, <5>1 DEF OptionsDue, Fresh
        <5> QED
          BY <5>2 DEF Talk
      <4> QED
        BY <4>4, <4>5
    <3>2. CASE ~Replies(opts)
      <4>1. ctl' = <<>> /\ opts.shm = FALSE /\ opts.dict = FALSE
        BY <1>3, <1>6, <2>2, <3>2 DEF Replies
      <4>2. exec'.pc = "idle" /\ exec'.run = 0 /\ exec'.shm = FALSE
        BY <1>2, <2>5, <4>1
      <4>3. CASE server.pc = "opts"
        <5>1. OptionsDue'
          BY <1>1, <2>2, <2>3, <4>1, <4>2, <4>3 DEF OptionsDue, Fresh
        <5> QED
          BY <5>1 DEF Talk
      <4>4. CASE server.pc = "read"
        <5>1. server.shm = FALSE
          BY <2>2 DEF IInv, TypeOK, ExecType
        <5>2. Resting'
          BY <1>1, <2>2, <2>3, <4>1, <4>2, <4>4, <5>1 DEF Resting, Fresh
        <5> QED
          BY <5>2 DEF Talk
      <4> QED
        BY <2>6, <4>3, <4>4
    <3> QED
      BY <3>1, <3>2
  <2>8. Children'
    <3>1. exec'.run = exec.run /\ exec'.pc # "pid" /\ (Killed => Killed')
      BY <1>1, <1>2, <2>5 DEF Killed
    <3> QED
      BY <1>1, <2>1, <3>1, ExecKeepsChildren DEF Unspawned
  <2>9. Books' /\ ~Exited'
    BY <1>1, <1>2, <1>8, <2>5 DEF IInv, Books, Exited
  <2> QED
    BY <2>7, <2>8, <2>9 DEF IInv
<1> QED
  BY <1>7, <1>8

LEMMA ReadDictLenKeeps ==
  ASSUME IInv, TypeOK', ReadDictLen
  PROVE  IInv'
<1>1. /\ exec.pc = "len" /\ st # <<>> /\ st' = Tail(st) /\ UNCHANGED <<ctl, server, procs>>
      /\ exec.run = 0 /\ exec.got = exec.run /\ ~exec.timedOut
  BY DEF ReadDictLen, IInv, Books
<1>2. Head(st) = st[1] /\ Len(Tail(st)) = Len(st) - 1 /\ Len(st) \in Nat
  BY <1>1, Taken DEF IInv, TypeOK, ExecType
<1>3. /\ exec'.pc \in {"dict", "failed"}
      /\ exec'.pc = "dict" => exec'.want = st[1].len
      /\ exec'.run = 0 /\ exec'.got = 0 /\ exec'.timedOut = FALSE /\ exec'.shm = exec.shm
  BY <1>1, <1>2 DEF ReadDictLen, Fail, IInv, TypeOK, ExecType
<1>4. Books'
  BY <1>3 DEF Books
<1>5. CASE Exited
  BY <1>1, <1>3, <1>4, <1>5 DEF IInv, Gone, Exited, Alive, Busy
<1>6. CASE ~Exited
  <2>1. Children /\ (OptionsDue \/ Dictionary)
    BY <1>1, <1>6, Phases DEF IInv
  <2>2. /\ Dictionary /\ server.pc \in {"dict", "read"}
        /\ server.pc = "read" <=> server.left = 0
        /\ st[1].len = DictLen /\ Len(st) + server.left = DictLen + 1
    BY <1>1, <2>1 DEF OptionsDue, Dictionary
  <2>3. server.left \in Nat /\ DictLen \in Int
    BY ForkserverAssumption DEF IInv, TypeOK, ServerType
  <2>4. Len(st') + server'.left = DictLen
    BY <1>1, <1>2, <2>2, <2>3
  <2>5. Talk'
    <3>1. CASE exec'.pc = "dict"
      <4>1. Dictionary'
        BY <1>1, <1>3, <2>2, <2>4, <3>1 DEF Dictionary, Fresh, HasDict
      <4> QED
        BY <4>1 DEF Talk
    <3>2. CASE exec'.pc = "failed"
      BY <1>1, <2>2, <3>2 DEF Dictionary, GaveUp, Fresh, Talk
    <3> QED
      BY <1>3, <3>1, <3>2
  <2>6. Children'
    <3>1. exec'.run = exec.run /\ exec'.pc # "pid" /\ (Killed => Killed')
      BY <1>1, <1>3 DEF Killed
    <3> QED
      BY <1>1, <2>1, <3>1, ExecKeepsChildren DEF Unspawned
  <2> QED
    BY <1>1, <1>4, <1>6, <2>5, <2>6 DEF IInv, Exited
<1> QED
  BY <1>5, <1>6

LEMMA ReadDictKeeps ==
  ASSUME IInv, TypeOK', ReadDict
  PROVE  IInv'
<1> DEFINE n == IF Len(st) < exec.want THEN Len(st) ELSE exec.want
<1>1. /\ exec.pc = "dict" /\ st # <<>> /\ st' = SubSeq(st, n + 1, Len(st))
      /\ UNCHANGED <<ctl, server, procs>>
      /\ exec.run = 0 /\ exec.got = exec.run /\ ~exec.timedOut
  BY DEF ReadDict, IInv, Books
<1>2. /\ exec'.pc = (IF n = exec.want THEN "idle" ELSE "failed")
      /\ exec'.run = 0 /\ exec'.got = 0 /\ exec'.timedOut = FALSE /\ exec'.shm = exec.shm
  BY <1>1 DEF ReadDict, Fail, IInv, TypeOK, ExecType
<1>3. Books'
  BY <1>2 DEF Books
<1>4. CASE Exited
  BY <1>1, <1>2, <1>3, <1>4 DEF IInv, Gone, Exited, Alive, Busy
<1>5. CASE ~Exited
  <2>1. Children /\ Dictionary
    BY <1>1, <1>5, Phases DEF IInv
  <2>2. /\ server.pc \in {"dict", "read"} /\ exec.want = DictLen
        /\ Len(st) + server.left = DictLen
        /\ ctl = <<>> /\ Fresh /\ server.shm = exec.shm
    BY <1>1, <2>1 DEF Dictionary
  <2>3. server.left \in Nat /\ Len(st) \in Nat /\ DictLen \in Int
    BY ForkserverAssumption, LenProperties DEF IInv, TypeOK, ServerType
  <2>4. Talk'
    <3>1. CASE n = exec.want
      <4>1. Len(st) = n /\ server.left = 0 /\ n \in Nat
        BY <2>2, <2>3, <3>1
      <4>2. st' = <<>>
        BY <1>1, <2>3, <4>1, SubSeqEmpty
      <4>3. server.pc = "read"
        BY <2>1, <2>2, <4>1 DEF Dictionary
      <4>4. Resting'
        BY <1>1, <1>2, <2>2, <3>1, <4>2, <4>3 DEF Resting, Fresh
      <4> QED
        BY <4>4 DEF Talk
    <3>2. CASE n # exec.want
      BY <1>1, <1>2, <2>2, <3>2 DEF GaveUp, Fresh, Talk
    <3> QED
      BY <3>1, <3>2
  <2>5. Children'
    <3>1. exec'.run = exec.run /\ exec'.pc # "pid" /\ (Killed => Killed')
      BY <1>1, <1>2 DEF Killed
    <3> QED
      BY <1>1, <2>1, <3>1, ExecKeepsChildren DEF Unspawned
  <2> QED
    BY <1>1, <1>3, <1>5, <2>4, <2>5 DEF IInv, Exited
<1> QED
  BY <1>4, <1>5

LEMMA StartRunKeeps ==
  ASSUME IInv, TypeOK', StartRun
  PROVE  IInv'
<1> DEFINE w == [Word("run") EXCEPT !.killed = exec.timedOut, !.run = exec.run + 1]
           next == [exec EXCEPT !.pc = "pid", !.run = @ + 1, !.timedOut = FALSE]
<1>1. /\ exec.pc = "idle" /\ UNCHANGED <<st, server, procs>>
      /\ exec.got = exec.run /\ exec.run < MaxRuns
      /\ WriteCtl(w, next)
  BY DEF StartRun, IInv, Books
<1>2. exec.run \in Nat /\ exec.timedOut \in BOOLEAN /\ MaxRuns \in Nat
  BY ForkserverAssumption DEF IInv, TypeOK, ExecType
<1>3. w.kind = "run" /\ w.killed = exec.timedOut /\ w.run = exec.run + 1
  BY DEF Word
<1>4. w \in WordType
  <2>1. Word("run") \in WordType /\ exec.run + 1 \in 0..MaxRuns
    BY <1>1, <1>2, WordIsWord
  <2> QED
    BY <1>2, <2>1 DEF WordType
<1>5. /\ next.pc = "pid" /\ next.run = exec.run + 1 /\ next.timedOut = FALSE
      /\ next.shm = exec.shm
  BY DEF IInv, TypeOK, ExecType
<1> HIDE DEF w, next
<1>6. CASE Exited
  <2>1. exec'.pc = "failed"
    BY <1>1, <1>6 DEF WriteCtl, Fail, IInv, TypeOK, ExecType
  <2>2. Books' /\ Gone' /\ Exited'
    BY <1>1, <1>6, <2>1 DEF IInv, Books, Gone, Exited, Alive, Busy
  <2> QED
    BY <2>2 DEF IInv
<1>7. CASE ~Exited
  <2>1. Children /\ (OptionsDue \/ Resting)
    BY <1>1, <1>7, Phases DEF IInv
  <2>2. exec' = next /\ ctl' = Append(ctl, w)
    BY <1>1, <1>7 DEF WriteCtl
  <2>3. /\ Len(ctl) \in Nat /\ Len(ctl') = Len(ctl) + 1 /\ ctl'[Len(ctl) + 1] = w
        /\ \A i \in 1..Len(ctl) : ctl'[i] = ctl[i]
    BY <1>4, <2>2, Added DEF IInv, TypeOK, ExecType
  <2>4. st = <<>>
    BY <2>1 DEF OptionsDue, Resting
  <2>5. ctl = <<>> => Len(ctl') = 1 /\ ctl'[1] = w
    BY <1>4, <2>2, AddedFirst
  <2>6. Talk'
    <3>1. CASE OptionsDue /\ exec.shm
      <4>1. Len(ctl) = 1 /\ IsOpts(ctl[1], FALSE) /\ exec.run = 0
        BY <1>1, <3>1 DEF OptionsDue
      <4>2. Len(ctl') = 2 /\ ctl'[1] = ctl[1] /\ ctl'[2] = w
        BY <2>3, <4>1
      <4>3. IsOpts(ctl[1], FALSE)' /\ IsRun(ctl[2])'
        BY <1>3, <1>5, <2>2, <4>1, <4>2 DEF IsOpts, IsRun
      <4>4. exec'.shm /\ exec'.pc = "pid" /\ exec'.run = 1
        <5>1. exec.shm = TRUE
          BY <3>1 DEF IInv, TypeOK, ExecType
        <5> QED
          BY <1>5, <2>2, <4>1, <5>1
      <4>5. /\ server'.pc = "opts" /\ st' = <<>> /\ ~server'.shm
            /\ ~server'.first /\ ~server'.stopped /\ server'.child = 0
        BY <1>1, <2>4, <3>1 DEF OptionsDue, Fresh
      <4>6. OptionsDue'
        BY <4>2, <4>3, <4>4, <4>5 DEF OptionsDue, Fresh
      <4> QED
        BY <4>6 DEF Talk
    <3>2. CASE OptionsDue /\ ~exec.shm
      <4>1. ctl = <<>> /\ exec.run = 0
        BY <1>1, <3>2 DEF OptionsDue
      <4>2. Len(ctl') = 1 /\ IsRun(ctl[1])'
        BY <1>3, <1>5, <2>2, <2>5, <4>1 DEF IsRun
      <4>3. ~exec'.shm /\ exec'.pc = "pid" /\ exec'.run = 1
        BY <1>5, <2>2, <3>2, <4>1
      <4>4. /\ server'.pc = "opts" /\ st' = <<>> /\ ~server'.shm
            /\ ~server'.first /\ ~server'.stopped /\ server'.child = 0
        BY <1>1, <2>4, <3>2 DEF OptionsDue, Fresh
      <4>5. OptionsDue'
        BY <4>2, <4>3, <4>4 DEF OptionsDue, Fresh
      <4> QED
        BY <4>5 DEF Talk
    <3>3. CASE Resting
      <4>1. Len(ctl') = 1 /\ IsRun(ctl[1])'
        BY <1>3, <1>5, <2>2, <2>5, <3>3 DEF Resting, IsRun
      <4>2. Requested'
        BY <1>1, <1>5, <2>2, <2>4, <3>3, <4>1 DEF Resting, Requested
      <4> QED
        BY <4>2 DEF Talk
    <3> QED
      BY <2>1, <3>1, <3>2, <3>3
  <2>7. ChildOK'
    <3>1. server.pc # "wait" /\ server' = server /\ procs' = procs
      BY <1>1, <2>1 DEF OptionsDue, Resting
    <3>2. server.stopped /\ Killed => Killed'
      <4>1. ASSUME server.stopped, Killed PROVE Killed'
        <5>1. exec.timedOut /\ Resting
          BY <1>1, <2>1, <4>1 DEF Killed, OptionsDue, Fresh
        <5>2. server'.pc = "read" /\ Len(ctl') = 1 /\ ctl'[1].killed
          BY <1>1, <1>3, <2>5, <5>1 DEF Resting
        <5>3. ctl' # <<>>
          BY <1>4, <2>2, Added DEF IInv, TypeOK, ExecType
        <5> QED
          BY <1>5, <2>2, <5>2, <5>3 DEF Killed
      <4> QED
        BY <4>1
    <3> QED
      BY <2>1, <3>1, <3>2 DEF Children, ChildOK
  <2>8. Children'
    <3>1. exec'.run = exec.run + 1 /\ exec'.run >= exec.run /\ exec'.run > exec.run
      BY <1>2, <1>5, <2>2
    <3> QED
      BY <1>1, <2>1, <2>7, <3>1, ProcessesStay DEF IInv
  <2>9. Books' /\ ~Exited'
    BY <1>1, <1>5, <1>7, <2>2 DEF IInv, Books, Exited
  <2> QED
    BY <2>6, <2>8, <2>9 DEF IInv
<1> QED
  BY <1>6, <1>7

LEMMA ReadPidKeeps ==
  ASSUME IInv, TypeOK', ReadPid
  PROVE  IInv'
<1>1. /\ exec.pc = "pid" /\ st # <<>> /\ st' = Tail(st) /\ UNCHANGED <<ctl, server, procs>>
      /\ ~exec.timedOut
  BY DEF ReadPid, IInv, Books
<1>2. /\ Head(st) = st[1] /\ Len(st) \in Nat
      /\ Len(st) = 1 => Tail(st) = <<>>
      /\ Len(st) = 2 => Len(Tail(st)) = 1 /\ Tail(st)[1] = st[2]
  <2>1. /\ Head(st) = st[1] /\ Len(st) \in Nat /\ Len(Tail(st)) = Len(st) - 1
        /\ Len(st) = 1 => Tail(st) = <<>>
        /\ \A i \in 1..(Len(st) - 1) : Tail(st)[i] = st[i + 1]
    BY <1>1, Taken DEF IInv, TypeOK, ExecType
  <2>2. Len(st) = 2 => 1 \in 1..(Len(st) - 1) /\ 1 + 1 = 2
    OBVIOUS
  <2> QED
    BY <2>1, <2>2
<1>3. /\ exec'.pc = (IF st[1].kind = "pid" THEN "status" ELSE "failed")
      /\ st[1].kind = "pid" => exec'.child = st[1].pid
      /\ exec'.run = exec.run /\ exec'.timedOut = exec.timedOut /\ exec'.shm = exec.shm
  <2>1. exec \in [is : Executors,
                  pc : {"hello", "len", "dict", "idle", "pid", "status", "kill",
                        "last", "failed"},
                  run : 0..MaxRuns, got : 0..MaxRuns, child : 0..MaxRuns,
                  want : Nat, timedOut : BOOLEAN, shm : BOOLEAN]
    BY DEF IInv, TypeOK, ExecType
  <2>2. exec' = IF st[1].kind = "pid"
                THEN [exec EXCEPT !.pc = "status", !.child = st[1].pid]
                ELSE [exec EXCEPT !.pc = "failed"]
    BY <1>2 DEF ReadPid, Fail
  <2> QED
    BY <2>1, <2>2
<1>4. Books'
  BY <1>1, <1>3 DEF Books
<1>5. CASE Exited
  <2>1. exec'.pc \in Busy => st' = <<>> \/ (Len(st') = 1 /\ IsStatus(st[1])')
    <3>1. exec'.pc \in Busy => st[1].kind = "pid"
      BY <1>3 DEF Busy
    <3>2. st[1].kind = "pid" => Len(st) = 1 \/ (Len(st) = 2 /\ IsStatus(st[2]))
      BY <1>1, <1>5 DEF IInv, Gone
    <3>3. IsStatus(st[2]) /\ Len(st) = 2 => IsStatus(st[1])'
      BY <1>1, <1>2, <1>3 DEF IsStatus
    <3>4. Len(st) = 1 => st' = <<>>
      BY <1>1, <1>2
    <3>5. Len(st) = 2 => Len(st') = 1
      BY <1>1, <1>2
    <3> QED
      BY <3>1, <3>2, <3>3, <3>4, <3>5 DEF IsStatus
  <2>2. Gone'
    BY <1>1, <1>3, <1>5, <2>1 DEF IInv, Gone, Alive
  <2> QED
    BY <1>1, <1>4, <1>5, <2>2 DEF IInv, Exited
<1>6. CASE ~Exited
  <2>1. Children /\ (Running \/ Over)
    BY <1>1, <1>6, Phases DEF IInv, OptionsDue, Requested
  <2>2. IsPid(st[1])
    BY <1>1, <2>1 DEF Running, Over, Busy
  <2>3. exec'.pc = "status" /\ exec'.child = server.child
    BY <1>3, <2>2 DEF IsPid
  <2>4. Talk'
    <3>1. CASE Running
      <4>1. st' = <<>>
        BY <1>1, <1>2, <3>1 DEF Running, Busy
      <4>2. Running'
        BY <1>1, <1>3, <2>3, <3>1, <4>1 DEF Running, Busy, IsRun
      <4> QED
        BY <4>2 DEF Talk
    <3>2. CASE Over
      <4>1. Len(st) = 2 /\ IsStatus(st[2])
        BY <1>1, <3>2 DEF Over, Busy
      <4>2. Len(st') = 1 /\ IsStatus(st[1])'
        BY <1>1, <1>2, <1>3, <4>1 DEF IsStatus
      <4>3. Over'
        BY <1>1, <1>3, <2>3, <3>2, <4>2 DEF Over, Busy
      <4> QED
        BY <4>3 DEF Talk
    <3> QED
      BY <2>1, <3>1, <3>2
  <2>5. ~Killed
    BY <1>1, <2>1 DEF Killed, Running, Over
  <2>6. Children'
    BY <1>1, <1>3, <2>1, <2>3, <2>5, ExecKeepsChildren DEF Unspawned
  <2> QED
    BY <1>1, <1>4, <1>6, <2>4, <2>6 DEF IInv, Exited
<1> QED
  BY <1>5, <1>6

\* The status is the one of this run.
LEMMA ReadStatusKeeps ==
  ASSUME IInv, TypeOK', ReadStatus \/ ReadLastStatus
  PROVE  IInv'
<1>1. /\ exec.pc \in Busy /\ st # <<>> /\ st' = Tail(st) /\ UNCHANGED <<ctl, server, procs>>
  BY DEF ReadStatus, ReadLastStatus, Busy
<1>2. exec' = [exec EXCEPT !.pc = "idle", !.child = 0, !.got = Head(st).run]
  BY DEF ReadStatus, ReadLastStatus, RunReturns
<1>3. Head(st) = st[1] /\ (Len(st) = 1 => Tail(st) = <<>>)
  BY <1>1, Taken DEF IInv, TypeOK, ExecType
<1>4. /\ exec'.pc = "idle" /\ exec'.got = st[1].run
      /\ exec'.run = exec.run /\ exec'.timedOut = exec.timedOut /\ exec'.shm = exec.shm
  BY <1>2, <1>3 DEF IInv, TypeOK, ExecType
<1>5. CASE Exited
  <2>1. IsStatus(st[1])
    BY <1>1, <1>5 DEF IInv, Gone
  <2>2. Books' /\ Gone' /\ Exited'
    BY <1>1, <1>4, <1>5, <2>1 DEF IsStatus, IInv, Books, Gone, Exited, Alive, Busy
  <2> QED
    BY <2>2 DEF IInv
<1>6. CASE ~Exited
  <2>1. Children /\ Over /\ IsStatus(st[1]) /\ Len(st) = 1
    <3>1. Children /\ (Running \/ Over)
      BY <1>1, <1>6, Phases DEF IInv
    <3>2. Over
      BY <1>1, <3>1 DEF Running, Busy
    <3>3. Len(st) = 1 /\ IsStatus(st[1])
      BY <1>1, <3>2 DEF Over, Busy
    <3> QED
      BY <3>1, <3>2, <3>3
  <2>2. Resting'
    BY <1>1, <1>3, <1>4, <2>1 DEF Over, Resting
  <2>3. Children'
    <3>1. Killed => Killed'
      BY <1>1, <1>4 DEF Killed, Busy
    <3> QED
      BY <1>1, <1>4, <2>1, <3>1, ExecKeepsChildren DEF Unspawned
  <2>4. Books' /\ ~Exited'
    BY <1>1, <1>4, <1>6, <2>1 DEF IsStatus, Books, Exited
  <2> QED
    BY <2>2, <2>3, <2>4 DEF IInv, Talk
<1> QED
  BY <1>5, <1>6

LEMMA TimesOutKeeps ==
  ASSUME IInv, TypeOK', TimesOut
  PROVE  IInv'
<1>1. /\ exec.pc = "status" /\ st = <<>> /\ ~Exited /\ UNCHANGED <<ctl, st, server, procs>>
      /\ ~exec.timedOut
  BY DEF TimesOut, IInv, Books
<1>2. /\ exec'.pc = "kill" /\ exec'.timedOut = TRUE
      /\ exec'.run = exec.run /\ exec'.child = exec.child /\ exec'.shm = exec.shm
  BY DEF TimesOut, IInv, TypeOK, ExecType
<1>3. Children /\ (Running \/ Over)
  BY <1>1, Phases DEF IInv, Busy
<1>4. Running
  <2>1. Len(<<>>) = 0
    BY EmptySeq
  <2> QED
    BY <1>1, <1>3, <2>1 DEF Over
<1>5. Running'
  BY <1>1, <1>2, <1>4 DEF Running, Busy, IsRun
<1>6. Children'
  BY <1>1, <1>2, <1>3, ExecKeepsChildren DEF Unspawned, Killed
<1>7. Books' /\ ~Exited'
  BY <1>1, <1>2 DEF Books, Exited
<1> QED
  BY <1>5, <1>6, <1>7 DEF IInv, Talk

LEMMA KillChildKeeps ==
  ASSUME IInv, TypeOK', KillChild
  PROVE  IInv'
<1>1. /\ exec.pc = "kill" /\ UNCHANGED <<ctl, st, server>>
      /\ procs' = Signalled(exec.child, exec.is.sig) /\ exec.timedOut
  BY DEF KillChild, IInv, Books
<1>2. /\ exec'.pc = "last" /\ exec'.timedOut = exec.timedOut
      /\ exec'.run = exec.run /\ exec'.child = exec.child /\ exec'.shm = exec.shm
  BY DEF KillChild, IInv, TypeOK, ExecType, ServerType, ProcType
<1>3. procs \in [Pid -> ProcType] /\ exec.is.sig \in {"KILL", "TERM"}
  BY ForkserverAssumption DEF IInv, TypeOK, ExecType, ServerType, ProcType, Executor
<1>4. \A q \in Pid : q # exec.child \/ ~Alive(q) => procs'[q] = procs[q]
  BY <1>1, <1>3, SignalledEffect
<1>5. CASE Exited
  <2>1. Gone'
    BY <1>1, <1>2, <1>4, <1>5 DEF IInv, Gone, Alive, Busy, IsStatus
  <2> QED
    BY <1>1, <1>2, <1>5, <2>1 DEF IInv, Books, Exited
<1>6. CASE ~Exited
  <2>1. Children /\ (Running \/ Over)
    BY <1>1, <1>6, Phases DEF IInv, Busy
  <2>2. exec.child = server.child
    BY <1>1, <2>1 DEF Running, Over
  <2>3. Talk'
    <3>1. Running => Running'
      BY <1>1, <1>2 DEF Running, Busy, IsRun
    <3>2. Over => Over'
      BY <1>1, <1>2 DEF Over, Busy, IsStatus
    <3> QED
      BY <2>1, <3>1, <3>2 DEF Talk
  <2>4. Killed'
    BY <1>1, <1>2 DEF Killed
  <2>5. Books' /\ ~Exited'
    BY <1>1, <1>2, <1>6 DEF IInv, Books, Exited
  <2> DEFINE c == server.child
  <2>6. CASE c \in Pid /\ Alive(c)
    <3>1. procs'[c].run = procs[c].run /\ procs'[c].st \in {"stopped", "signalled"}
      BY <1>1, <1>3, <2>2, <2>6, SignalledEffect
    <3>2. ChildOK'
      BY <1>1, <1>2, <2>1, <2>4, <2>6, <3>1 DEF Children, ChildOK, Alive
    <3>3. Children'
      <4>1. procs[c].st # "none" /\ procs'[c].st # "none"
        BY <2>6, <3>1 DEF Alive
      <4>2. \A q \in Pid : q # c => procs'[q] = procs[q]
        BY <1>4, <2>2
      <4>3. exec'.run = exec.run /\ server'.child = server.child /\ (Unspawned' => Unspawned)
        BY <1>1, <1>2 DEF Unspawned
      <4> QED
        BY <2>1, <2>6, <3>2, <4>1, <4>2, <4>3, OneProcessChanges DEF IInv
    <3> QED
      BY <2>3, <2>5, <3>3 DEF IInv
  <2>7. CASE ~(c \in Pid /\ Alive(c))
    <3>1. procs' = procs
      <4>1. \A q \in Pid : procs'[q] = procs[q]
        BY <1>4, <2>2, <2>7
      <4>2. procs' \in [Pid -> ProcType]
        BY <1>1, <1>3, SignalledEffect
      <4> QED
        BY <1>3, <4>1, <4>2
    <3>2. Children'
      BY <1>1, <1>2, <2>1, <2>4, <3>1, ExecKeepsChildren DEF Unspawned
    <3> QED
      BY <2>3, <2>5, <3>2 DEF IInv
  <2> QED
    BY <2>6, <2>7
<1> QED
  BY <1>5, <1>6

-----------------------------------------------------------------------------
(* The invariant *)

LEMMA InitInv == Init => IInv
<1> SUFFICES ASSUME Init PROVE IInv
  OBVIOUS
<1> USE ForkserverAssumption
<1>1. PICK x \in Executors :
        exec = [is |-> x, pc |-> "hello", run |-> 0, got |-> 0, child |-> 0,
                want |-> 0, timedOut |-> FALSE, shm |-> FALSE]
  BY DEF Init
<1>2. /\ ctl = <<>> /\ st = <<>> /\ procs = [p \in Pid |-> NoProc]
      /\ server = [pc |-> "start", word |-> Word("none"), first |-> FALSE,
                   stopped |-> FALSE, child |-> 0, shm |-> FALSE, left |-> 0]
  BY DEF Init
<1>3. TypeOK
  <2>1. Word("none") \in WordType
    BY WordIsWord
  <2>2. <<>> \in Seq(WordType)
    BY EmptySeq
  <2> QED
    BY <1>1, <1>2, <2>1, <2>2 DEF TypeOK, ExecType, ServerType, ProcType, NoProc
<1>4. Greeting
  BY <1>1, <1>2 DEF Greeting, Fresh
<1>5. Books /\ ~Exited
  BY <1>1, <1>2 DEF Books, Exited
<1>6. Children
  <2>1. PidsInOrder
    <3>1. 0 \in 0..exec.run /\ ~Unspawned
      BY <1>1 DEF Unspawned
    <3>2. \A p \in Pid : procs[p] = NoProc <=> p > 0
      BY <1>2 DEF Pid
    <3> QED
      BY <3>1, <3>2 DEF PidsInOrder
  <2>2. ChildOK
    BY <1>2 DEF ChildOK, Pid
  <2>3. \A p \in Pid : procs[p].st = "none" /\ procs[p] = NoProc
    BY <1>2 DEF NoProc
  <2> QED
    BY <2>1, <2>2, <2>3 DEF Children
<1> QED
  BY <1>3, <1>4, <1>5, <1>6 DEF IInv, Talk

LEMMA NextInv ==
  ASSUME IInv, [Next]_vars
  PROVE  IInv'
<1>1. CASE ServerStep
  <2>1. TypeOK'
    BY <1>1, ServerTypes
  <2>2. ASSUME NEW ok \in BOOLEAN, MapShm(ok) \/ ReadOptions(ok)
        PROVE  IInv'
    BY <2>1, <2>2, MapShmKeeps, ReadOptionsKeeps
  <2>3. CASE PhoneHome
    BY <2>1, <2>3, PhoneHomeKeeps
  <2>4. CASE SendDictLen
    BY <2>1, <2>4, SendDictLenKeeps
  <2>5. ASSUME NEW n \in 1..DictLen, SendDict(n)
        PROVE  IInv'
    BY <2>1, <2>5, SendDictKeeps
  <2>6. CASE ReadCommand
    BY <2>1, <2>6, ReadCommandKeeps
  <2>7. CASE Reap
    BY <2>1, <2>7, ReapKeeps
  <2>8. CASE Spawn
    BY <2>1, <2>8, SpawnKeeps
  <2>9. CASE ForkFails
    BY <2>1, <2>9, ForkFailsKeeps
  <2>10. CASE Wait
    BY <2>1, <2>10, WaitKeeps
  <2> QED
    BY <1>1, <2>2, <2>3, <2>4, <2>5, <2>6, <2>7, <2>8, <2>9, <2>10 DEF ServerStep
<1>2. CASE Terminated
  BY <1>2, ServerTypes, TerminatedKeeps
<1>3. CASE ExecStep
  <2>1. TypeOK'
    BY <1>3, ExecTypes
  <2>2. CASE ReadHello
    BY <2>1, <2>2, ReadHelloKeeps
  <2>3. CASE ReadDictLen
    BY <2>1, <2>3, ReadDictLenKeeps
  <2>4. CASE ReadDict
    BY <2>1, <2>4, ReadDictKeeps
  <2>5. CASE StartRun
    BY <2>1, <2>5, StartRunKeeps
  <2>6. CASE ReadPid
    BY <2>1, <2>6, ReadPidKeeps
  <2>7. CASE ReadStatus \/ ReadLastStatus
    BY <2>1, <2>7, ReadStatusKeeps
  <2>8. CASE TimesOut
    BY <2>1, <2>8, TimesOutKeeps
  <2>9. CASE KillChild
    BY <2>1, <2>9, KillChildKeeps
  <2>10. CASE ReadsEnd
    BY <2>1, <2>10, ReadsEndKeeps
  <2> QED
    BY <1>3, <2>2, <2>3, <2>4, <2>5, <2>6, <2>7, <2>8, <2>9, <2>10 DEF ExecStep
<1>4. ASSUME NEW p \in Pid, NEW how \in {"stopped", "exited", "signalled"},
             ChildEnds(p, how)
      PROVE  IInv'
  BY <1>4, ChildTypes, ChildEndsKeeps
<1>5. CASE UNCHANGED vars
  <2>1. UNCHANGED <<ctl, st, exec, server, procs>>
    BY <1>5 DEF vars
  <2>2. TypeOK' /\ Books' /\ (Exited' <=> Exited) /\ (Gone <=> Gone')
    BY <2>1 DEF IInv, TypeOK, ExecType, ServerType, ProcType, Books, Exited, Gone, Alive, IsStatus
  <2>3. Children => Children'
    BY <2>1 DEF Children, PidsInOrder, Unspawned, ChildOK, Killed
  <2>4. Talk => Talk'
    BY <2>1 DEF Talk, Greeting, OptionsDue, Dictionary, Resting, Requested, Running,
       Over, GaveUp, Fresh, IsOpts, IsRun, IsPid, IsStatus, IsHello, AfterHello, HasDict
  <2> QED
    BY <2>2, <2>3, <2>4 DEF IInv
<1> QED
  BY <1>1, <1>2, <1>3, <1>4, <1>5 DEF Next

\* The conversation is always at one of its places, and every variable keeps its
\* type: the words in the pipes, the child and the executor's books agree.
THEOREM ForkserverInvariant == Spec => []IInv
<1>1. Init => IInv
  BY InitInv
<1>2. IInv /\ [Next]_vars => IInv'
  BY NextInv
<1> QED
  BY <1>1, <1>2, PTL DEF Spec

\* A run returns with the status of the child that ran its input, and nothing of
\* the target runs between two runs: the coverage map is not written to while the
\* executor reads it (forkserver.rs:1170, 1227).
THEOREM ForkserverBetweenRuns == Spec => []BetweenRuns
<1>1. IInv => BetweenRuns
  <2> SUFFICES ASSUME IInv, exec.pc = "idle"
               PROVE  exec.got = exec.run /\ \A p \in Pid : procs[p].st # "running"
    BY DEF BetweenRuns
  <2>1. exec.got = exec.run
    BY DEF IInv, Books
  <2>2. CASE Exited
    BY <2>1, <2>2 DEF IInv, Gone, Alive
  <2>3. CASE ~Exited
    <3>1. Children /\ (OptionsDue \/ Resting)
      BY <2>3, Phases DEF IInv
    <3>2. server.pc # "wait"
      BY <3>1 DEF OptionsDue, Resting
    <3>3. \A p \in Pid : procs[p].st # "running"
      BY <3>1, <3>2 DEF Children, ChildOK
    <3> QED
      BY <2>1, <3>3
  <2> QED
    BY <2>2, <2>3
<1> QED
  BY <1>1, ForkserverInvariant, PTL

\* There is never more than one child, and none that runs once the server is gone.
THEOREM ForkserverOneChild == Spec => []OneChild
<1>1. IInv => OneChild
  <2> SUFFICES ASSUME IInv PROVE OneChild
    OBVIOUS
  <2> DEFINE living == {p \in Pid : procs[p].st \in {"running", "stopped"}}
  <2>1. Exited => \A p \in Pid : ~Alive(p)
    BY DEF IInv, Gone
  <2>2. living = {} \/ living = {server.child}
    <3>1. CASE Exited
      BY <2>1, <3>1 DEF Alive
    <3>2. CASE ~Exited
      BY <3>2 DEF IInv, Children
    <3> QED
      BY <3>1, <3>2
  <2>3. Cardinality(living) <= 1
    <3>1. Cardinality({}) = 0 /\ Cardinality({server.child}) = 1
      BY FS_EmptySet, FS_Singleton
    <3> HIDE DEF living
    <3> QED
      BY <2>2, <3>1
  <2>4. Exited => \A p \in Pid : procs[p].st # "running"
    BY <2>1 DEF Alive
  <2>5. TypeOK
    BY DEF IInv
  <2> QED
    BY <2>3, <2>4, <2>5 DEF OneChild
<1> QED
  BY <1>1, ForkserverInvariant, PTL

\* Both sides agree on where the input is, and what the server acts on as a command
\* is one, whatever either side offered (forkserver.rs:843, 867; forkserver.c:282).
THEOREM ForkserverHandshakeAgrees == Spec => []HandshakeAgrees
<1>1. IInv => HandshakeAgrees
  <2> SUFFICES ASSUME IInv, server.pc \in {"spawn", "wait"}
               PROVE  server.word.kind = "run" /\ server.shm = exec.shm
    BY DEF HandshakeAgrees
  <2>1. Talk
    BY DEF IInv, Exited
  <2>2. Requested \/ Running
    BY <2>1, Phases
  <2> QED
    BY <2>2 DEF Requested, Running, IsRun
<1> QED
  BY <1>1, ForkserverInvariant, PTL

=============================================================================
