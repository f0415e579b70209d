# MeFuzz: TLA+ verification project

MeFuzz is a fork of LibAFL with a master on top: a Go program
(`src/orchestration`) to which hosts connect that run fuzzers and *evalers*. A
fuzzer sends the testcases it finds interesting; the master has an evaler run
each of them, gathers the coverage, keeps the useful ones as seeds and analyses
from time to time which fuzzers are worth their core. On a host one Rust process
(`fuzzers/forkserver_simple`) holds the connection and the elements the master
gave it; LibAFL's LLMP broker, its forkserver executors and the runtimes linked
into the targets do the work below.

The project models the master whole, the node's process, and those parts of the
lower layers in which processes or threads meet.

## 1. Inventory

| component | state | operations | interacts with |
|---|---|---|---|
| registry, `core/master/master.go` | `nodes` with their element slices, `fuzzers`, `evalers`, gauges | `SetupNewNode`, `StartEvaler`, `StartFuzzer`, `elementDeleted` | every connection goroutine and the event loop, under `Master.mu` |
| listening side, `infra/conn/tcp/server.go` | accept loop, one goroutine per connection, `estableshed`, sockets | `Accept`, first message, `setup`, reader loop, `Close` | nodes, registry, workers |
| workers, `core/master/fuzzer.go`, `evaler.go` | testcase in hand, buffer `tcBuf`, `secondeChance`, context | `Run`, `flush`, `Evaluate` | reader, testcase channel (takes *and* resends), event channel, database |
| event loop, `master.go:144-163` | none | `elementDeleted`; hints are dropped | registry, database |
| database, `core/infodb` | `fuzzerMap`, `CovData`, `generalCoverage`, Bloom filter, seed tree, corpus directory | `AddFuzzer`, `AddTestcases`, `DeleteFuzzer`, `CreateAnalyze` | evaler workers, event loop, set-up, analysis timer |
| analysis, `core/infodb/coverage.go`, `core/master/distance.go` | norms of the last analysis | clustering, advice | timer goroutine, database |
| framing, `infra/conn/tcp/connection.go`, `main.rs` | half-read message | `SendMessage`, `RecvMessage`, `send_tcp_msg`, `recv_tcp_msg` | TCP |
| node agent, `forkserver_simple/src/main.rs` | tasks, threads, bounded channels, one environment variable | `Multiplexer`, sending task, `start_evaler`, `start_fuzzer`, `fire` | master over one connection, targets |
| LLMP broker, `libafl/src/bolts/llmp.rs` | receivers with ids, its page, ids of the listener, proxy thread | `once`, `loop_with_timeouts`, listener, `b2m` proxy | client processes, master |
| forkserver, `libafl_targets/src/forkserver.c`, `executors/forkserver.rs` | two pipes, child process, options | handshake, run, timeout, kill | target processes |
| QASan allocator, `libafl_qemu/libqasan/malloc.c` | quarantine list and its lock, shadow memory | `malloc`, `posix_memalign`, `realloc`, `free` | threads of the target |
| comparison log, `libafl_targets/src/cmplog.{h,c,rs}` | a header and operands per column | two hooks, reset, the observer's reads | target, observer |

What is hard here: several goroutines per connection that hand messages over
through unbuffered and bounded channels; a slice shared beyond its mutex;
connections that end between any two steps; retries and resending; two database
locks taken by overlapping sets of callers; byte streams that are cut anywhere;
a protocol over pipes whose steps depend on what the other side offers; a child
that stops just as it is killed; memory that is reset only in part; ids that are
counts. `PROJECT.json` lists the hazards at their lines, each with the
properties about it.

## 2. Modules

Operators whose names end in a suffix such as `_KeepsOrder` or `_NoResend`, each
placed before the definition it varies, are faulty variants: with one in place
of the original TLC finds a property violated, which shows that the property
depends on the code. They are no part of the specifications. `MC*` modules only
define instances, and `*Proofs` modules hold the theorems of section 4.

### `Master` — registry, set-up and the end of elements

State: the maps of `Master`; the keys of `fuzzInfoDB.fuzzerMap`; for each
connection the progress of `handleConnection`, the slice it got and the workers
it started; the event channel; the two gauges. Go slices are modelled as they
are: `nodes[n].gens` is the list of all backing arrays `node.elements` has had,
`AppendElement` writes in place or moves to a new array, `DeleteElement` is
`slices.DeleteFunc` of Go 1.21 (shift left, tail not cleared), and a
connection's `view` is an array number with bounds.

| action | code |
|---|---|
| `SetupNewNode` | `master.go:235-346`, one critical section of `Master.mu` with `AddFuzzer` inside |
| `StartElement` | one turn of the loop in `setup`, `server.go:156-198`, with `StartEvaler`/`StartFuzzer` |
| `SendConfig`, `PeerCloses` | `server.go:200-208`, `server.go:95-105` |
| `FuzzerStops`, `FuzzerHints` | `fuzzer.go:49-58`, `fuzzer.go:65-71` |
| `EvalerStops`, `EvalerExits`, `EvalerHints` | `evaler.go:113-126`, `87-89`, `68-77` |
| `HandleDeletion`, `DropHint` | the event loop, `master.go:149-162` |

The read of a slot and the start of its worker are one step, and so are the
start and its increment of the gauge; `elementDeleted` holds `Master.mu`
throughout. A random evaler identifier is drawn at most once (a 32-bit
collision is left out) but may equal a fuzzer's identifier. The number of
deletions a cancelled evaler may still post is bounded by `MaxEmits`. When
testcases are waiting is a free choice (`congested`).

### `Pipeline` — the path of a testcase

State: messages on the wire, the message a reader tries to hand over, the
workers with their program counters and buffers, both channels, and how often a
testcase has reached the database. It starts when set-up is over. Every channel
operation of `Fuzzer.Run`, `Evaler.Run`, `flush`, `Evaluate` and the reader is a
step of its own; rendezvous on unbuffered channels are joint steps of reader and
worker. An answer may be readable (`data`), fail in `Recv` (`garbage`, an error
that is retried) or fail in the reader (`undecodable`: logged and skipped, so
that `Evaluate` goes on waiting). A cancelled evaler may still go round its
loop; `MaxStops` bounds how many more flushes fail that way. A node need not
answer at all (`main.rs:269` sets no timeout, `main.rs:283` kills the evaler's
thread). Identifiers: each
testcase is new; duplicates of one input are the database's subject.

### `InfoDB` — the database

`AddFuzzer`, `AddTestcases` and `DeleteFuzzer` hold `fuzzInfoDB.mu` throughout:
`op` is the call in progress. Their steps are separated where `CreateAnalyze`,
which takes only `CovData.mu`, can run in between. Coverage is the set of hit
branches (the code only asks whether an entry is non-zero), so a squared norm is
a number of branches. The Bloom filter is the set of identifiers it answers
"known" for: an addition adds the identifier and possibly false positives. A
file may fail to be written, a directory to be made. Names of files and
timestamps are left out, and the tree is a set of seeds.

### `Server` — accept loop, set-up and reader of every connection

The accept loop takes a connection (`Accept`), reads the node's first message
itself (`RecvInit`, during which nobody else is accepted) and starts the
connection's goroutine. `SetupRejects`, `SetupPanics`, `SetupStarts` and
`SetupSends` are the ways through `setup` (`server.go:141-208`) with
`logger.Fatalf` where the code has it and the panic of `make()` on a number of
cores that cannot be (`master.go:249`, when the host is not known yet);
`WorkerPanics` is an evaler's worker that meets an answer too short for the
lengths it takes for granted (`tcp/evaler.go:56`, `infodb.go:81`). `ReaderReads`, `ReaderFails` and `ReaderCloses` are the turns of the
reader loop (`server.go:88-137`). A node leaves in order, or by a reset: then one
read returns an error and the following ones the end of the stream. What a
set-up registers is `Master`'s subject and what workers do with messages
`Pipeline`'s; here the workers of a connection are one party that is started,
may send once `spin` lets it, may take what the reader hands over and is told
when its channels are closed.

### `Framing` and `MsgQueue` — messages over a byte stream

`MsgQueue` states what one direction of a connection promises: messages come out
whole and in order. `Framing` is the code of both ends: the length as a
big-endian number in one write, the body in another, a receiver that reads in
pieces of any size (`ReadHeader`, `ReadBody`), and a sender that may end between
any two steps. `exact` says which receiver it is: `read_exact` of the node, or
the single `Read` of the master, which may return less than a whole length (`cut`
is the history of that). `Encode` divides by the weights of the digits;
`Decode` is the one number with the given digits. The refinement mapping takes
`handed`, the messages `SendMessage` was called with, for `sent`, leaves
`received` as it is and maps `open` to "the receiver has not seen the end".

### `Analysis` — clustering and advice

`Analyse` is one tick: `calculate` (norms, speeds, distances), `CreateAnalyze`
with its falling percentage, `startAnalysis` with both detectors. Floating-point
square roots are whole thousandths. Two libraries are external: tdigest's
quantile is used only in comparisons, which `Below` decides by rank; DBSCAN with
two points per neighbourhood gives the connected groups of near fuzzers: a
fuzzer's group is what every set holds that holds the fuzzer and all neighbours
of its members. Ties that the code breaks by the order of a Go map are free
choices. The names of the specification (`CovSpec`, `fuzzerCov`) are distinct
from those of `InfoDB`, whose proofs share a module with these.

### `NodeAgent` — the process on a node

Tasks and threads with a program counter each: the reading task
(`Multiplexer::handle_connection`), the sending task, per evaler a task and an
executor thread with the channel between them, per fuzzer a thread that starts
its target and then fires testcases (`events/master.rs`). Channels have their
capacity. `env` is `__AFL_SHM_ID`: a thread writes it (`WriteEnv`) and spawns its
target later (`BuildExecutor`), which inherits the value of that moment.

### `LlmpBroker` — the broker of a machine and its link to the master

Pages are sequences of unread messages. `HandleMsg`, `HandleExit` and
`NoMoreMsgs` are what `handle_new_msgs` does for the receiver whose turn it is;
`GiveUp` is the end of `once`, which removes the receivers it found gone one by
one from the last to the first, and `Turn` the test for `exit_cleanly_after`
after it. Time is left out: any receiver but the listener's that gave nothing in
its turn may be late, a living client's too. `loop.over` is a history of the
pages that were at their end or silent in the round. `Position` is how the code finds a receiver: the first with
the wanted id. `Attach` is the listener thread, `ProxySends` and `ProxyReceives`
the two directions of the proxy thread that this repository adds (`connect_b2m`).

### `Forkserver` — executors, server and target processes

Two pipes of words; `exec` is either executor (with and without a timeout),
`server` the loop of `__afl_start_forkserver`, `procs` the processes it forked.
The handshake (options, shared memory, dictionary) is modelled word by word,
because each side decides from what it read whether another word follows. The
server's `waitpid` and the child's stop, exit and death are separate steps, so
that a child can stop between a timeout and its kill.

### `Quarantine` — the allocator of the QEMU AddressSanitizer

Threads interleave between the backend's `malloc`, the header, the attempt to
take the lock, the section under it, a direct free and the poisoning of the
memory, which comes last (`malloc.c:198-235`). `Init` chooses which threads the
program has. The program is one that uses its memory correctly.

### `CmpLog` — one column of the comparison log

The counter `hits` has its width (`HitsMod`), the row is its value modulo the
height; instructions and routines share the memory, a routine's two arguments
taking the place of two instructions. A slot remembers which run and which
comparison wrote its beginning and its end: a routine with short arguments
(`whole` is false) leaves the end to whoever wrote it before.

## 3. Runs

| run | instance | why this is enough |
|---|---|---|
| `master_one_host` | 3 connections from 1 host that reports 0 cores (the master takes 1), event channel of 1, identifiers {1, 9} | the array moves and the cap bites within three set-ups; 1 collides with the first fuzzer's identifier; a channel of 1 blocks |
| `pipeline_node` | a fuzzer and an evaler on one connection that may break, an evaler apart; 2 testcases, channels of 1, buffers of 2, one retry, two stops, all kinds of answers | a channel of 1 is full when one testcase waits; a buffer of 2 has a partial and a full flush, and a resend that blocks in the middle; the second evaler may hang, and then nobody takes |
| `infodb_flaky` | 2 fuzzers, 3 branches, 2 calls of up to 2 testcases, a false positive, unstable coverage, files that fail | a duplicate in a batch, across batches and across fuzzers |
| `server_peers` | 3 connections: IPv6, silent or faulty (cores that cannot be, a foreign element, a short answer), and an ordinary one; one message and one request each | every pair of roles meets; a third connection waits behind the one the loop holds |
| `framing_queue` | two-valued bytes, lengths of two digits, messages of 0 to 3 bytes, 3 messages | every cut of header and body; a body that looks like a length |
| `framing_master` | the same | *violated*: two reads of a two-digit length |
| `analysis_four` | 4 fuzzers, 3 branches, every coverage and every earlier norm | clusters of two, noise, and three candidates at once |
| `forkserver_executors` | 6 executors, a persistent target that offers shared memory and a dictionary larger than one write, 4 runs | a run after a timeout, after a stop, after a death, and after a failed fork |
| `target_runtimes`, quarantine | 1 or 2 threads, 3 blocks, a size that fits and one that does not | a direct free, a push while the lock is held, a list of three |
| `target_runtimes`, comparison log | height 4 (2 for routines), counter modulo 8, 2 runs of 10 comparisons | the row wraps twice, the counter once, and a second run finds the first one's operands |
| `agent_node` | an evaler and a fuzzer, 3 batches, 3 events, all channels of 1 | every channel is full at some time; a task ends with a batch in hand |
| `agent_env` | the same, start-up only | *violated*, see below |
| `llmp_link` | 2 clients, one message each, limit of one message per turn, exit after 3 | a client that attaches after the proxy was removed, two removals in one round |

`master_one_host`, `infodb_flaky`, `analysis_four` and `target_runtimes` check
only safety and use symmetry of interchangeable values. `target_runtimes` is one
run about two machines that share nothing: a behaviour of `MCTarget` exercises
one of them from its initial state. All runs allow states without a successor:
the environment's bounds are used up, every worker has ended, or the process has
exited.

Beside the runs there are configurations to look at one question each:

| configuration | module | TLC finds |
|---|---|---|
| `Pipeline_last.cfg` | `MCPipeline` | the evaler of the shared connection alone: both liveness properties hold, with the sole evaler stuck in its resending where they say so |
| `Target_limit.cfg` | `MCTarget` | `LimitKept` violated: two blocks of less than the limit exceed it, and nothing is evicted |
| `Target_tails.cfg` | `MCTarget` | `CurrentExecution` violated: a routine with short arguments over an earlier run's slot |
| `LlmpBroker_ids.cfg` | `MCLlmpBroker` | `OwnTurn` violated: a removal, then two clients with one id |
| `LlmpBroker_proxy.cfg` | `MCLlmpBroker` | `BothWays` violated: one message of the master |
| `LlmpBroker_exit.cfg` | `MCLlmpBroker` | `ExitsAfterAll` violated: the proxy and one client are two |

### What they show

A module's type invariant `TypeOK` is checked by itself for `Master`, proved for
every module with a module of proofs, and outside `Master`, `Server` and
`Quarantine` part of one of the safety properties, where capacities and widths
matter to it (`OnlyLateTakesAreLost`, `MapsAgree`, `PanicNeedsThree`, `OneChild`,
`BatchConserved`, `NewestKept`, `BroadcastOnce`).

**Master.** `DbMutexReleased`: `AddFuzzer`'s lock leak is not reached.
`RegistryAgrees`: slices, map and database name the same fuzzers, and a slice
names each element once, so that a deletion removes it. `ElementCap`: what the test at `master.go:256` really
enforces is 2·cores + 2. `StartedWasRegistered`: a set-up that reads a changed
array still starts only elements registered for its host; this depends on
`DeleteFunc` not clearing the tail, which Go 1.22 changed.

**Pipeline.** `OnlyLateTakesAreLost`: the only way to lose an accepted testcase
is that a cancelled evaler takes it from the channel and then ends.
`ExactlyOnceBeforeStops`: duplicates come only from resending.
Liveness: `TestcasesFinish`, a testcase is evaluated or given up, and
`DeadEvalerLeaves`, an evaler that lost its connection gets through its resending.
Both name what the code leaves undone: an answer that never comes (or a cancelled
evaler that took the testcase late), and the case that nobody takes from the
channel any more, every evaler having ended, waiting for such an answer, or
resending into the full channel at `evaler.go:122` of which it is a consumer
itself. In `pipeline_node` this is an evaler whose connection closes while the
other one waits for an answer for ever; a sole evaler gets there too
(`Pipeline_last.cfg`).

**InfoDB.** `SeedsUnique`: an input becomes a seed once, however often it
arrives. `NewCovAddsUp`: a branch is credited to one seed. `MapsAgree`,
`AnalysisConsistent`: an analysis sees one set of fuzzers. `GeneralCovComplete`,
with the excuse of false positives and unstable inputs.

**Server.** `ConfigFirst`: a node's first message is its configuration although
its workers run earlier. `EndHasACause`: the master ends by an address it does not
parse, a node gone between its init message and its configuration, a number of
cores that cannot be, or an answer that is too short, and by no other message,
refusal or disconnection. (The panic of the analysis, `distance.go:193`, is the
subject of `PanicNeedsThree`.)
`ToldAtTheEnd`. Liveness: `EveryNodeSettled`, as long as no silent node keeps the
accept loop; `LostNodeReported`, also after a reset, unless the reader is left
with a message that nobody takes (`server.go:134`): for a foreign element, or for
a worker that does not come back to its channel.

**Framing.** `QueueUntilCut` (refinement): the receiver follows the queue of
messages, the node's always and the master's until one `Read` returns less than a
whole length; `Delivered` (liveness) likewise. The queue itself,
`ImplementsQueue`, is *violated* (`framing_master`) by the master's receiver.

**Analysis.** `PanicNeedsThree`: the detectors come back empty only for three
candidates or more. `AdviceSparesUnique`: nobody is advised against who covers
more that the other candidates do not than one of them.

**Forkserver.** `BetweenRuns`: a run returns with the status of its own child,
and no process writes to the coverage map until the next one. `OneChild`.
`HandshakeAgrees`: no word is taken for another. `RunEnds` (liveness): the
handshake ends whatever is offered and taken, and so does every run whose timeout
kills.

**Quarantine.** `OneInside`: the lock that is only tried keeps all threads but one
out of the list. `ListWellFormed` (a push is one step, so that it does not depend
on the lock) and `QuarantineIsPoisoned`. `LiveIsClean`, for programs with one
thread, is left to its theorem. What the quarantine keeps is not limited:
`Target_limit.cfg` shows `LimitKept` violated, because the bytes are not counted.

**NodeAgent.** `BatchConserved`: a batch is in one place, and its answer is to
this batch; liveness: `FuzzerGoesOn`, unless the master stops reading while the
connection stays open, and `EveryBatchAnswered`, unless this happens, the target
hangs (the executor has no timeout) or the executor failed. `OwnMap` is
*violated* (`agent_env`): every thread of a node passes the id of its coverage
map to its target through the same environment variable, "let the forkserver
know the shmid" (`main.rs:215`), and the second to write it before both targets
are spawned gives its map to both.

**CmpLog.** `FreshValues`: what the observer reads begins with what a comparison
of this run and of the header's kind wrote, and unless this was a routine with
short arguments the rest is of the same comparison. `NewestKept`: these are the
last comparisons, one each. That nothing read is of an earlier run
(`CurrentExecution`) does not hold behind short arguments (`Target_tails.cfg`).

**LlmpBroker.** `BroadcastOnce`; `MasterGetsAll`: what reaches the master has no
gap; `FiltersOwnOnly`; `OnlyTheSilentLeave` (an action property): whoever else is
removed in a round, a client that is removed left or was silent itself;
`EveryPageRead` (liveness). A client that lives but sends nothing for a minute is
removed (`llmp.rs:2256`). What does not hold is stated as well: `OwnTurn` (ids
come up again), `BothWays` (the master's first message ends the proxy) and
`ExitsAfterAll` (the proxy counts as a client), each with a configuration in
which TLC finds it violated.

### Fairness

* `Pipeline`: the Go scheduler runs every goroutine that can run: weak fairness
  for readers, the event loop and tickers. Goroutines parked on a channel are
  served in the order they came: strong fairness for the steps of workers.
  `select` chooses among its ready cases at random: strong fairness for receiving
  and for `ctx.Done`. Nothing is assumed of nodes: an answer may never come.
* `Server`: weak fairness of the accept loop and of each connection's goroutine.
  A worker need not come back to its channel: a fuzzer's may wait for room among
  the testcases (`fuzzer.go:65-78`), an evaler's with an empty buffer does not
  receive (`evaler.go:99`). A node outside `Silent` sends its first
  message or leaves (`main.rs` sends it right after connecting).
* `Framing`: a reader with bytes to read reads, a started message is finished
  unless the connection ends.
* `NodeAgent`: tasks and threads are scheduled. Neither is the master assumed to
  read nor a target's run to end. Senders of a Tokio channel wait in line:
  strong fairness for the two that share one.
* `Forkserver`: both sides keep running and time passes; a child may hang.
* `LlmpBroker`: the broker's and the proxy's loops run; nothing is assumed of
  clients, which may send, be silent or end at any time.

## 4. Proofs

All theorems hold for every value of the constants, from the module's named
assumption (`MasterAssumption`, `PipelineAssumption`, ...), which TLC evaluates in
the runs. The assumptions give the constants their types and bounds their sign.
Some say more. `PipelineAssumption` keeps `"nobody"`, the addressee of an empty
hand, out of the elements. `InfoDBAssumption` has finitely many branches: the map
has a fixed size. `QuarantineAssumption` has finitely many threads and blocks,
`LlmpAssumption` finitely many clients and reserved pages that are none of
theirs, `AnalysisAssumption` finitely many fuzzers and branches.
`FramingAssumption` has a base above one, at least one byte of length, and only
messages whose length these bytes can hold: `SendMessage` converts it to 32 bits.
`CmpLogAssumption` has an even height that divides the counter's modulus: the code
has 32 rows and a 16-bit counter, and the model gives routines half the rows where
the code gives them a quarter (32 and 8).

| module | theorem | statement |
|---|---|---|
| `MasterProofs` | `MasterInvariant` | `Spec => []IInv` |
| | `MasterTypeOK` | `Spec => []TypeOK` |
| | `MasterNeverPanics` | `Spec => []NoPanic` |
| | `DatabaseMutexIsReleased` | `Spec => []DbMutexReleased` |
| | `OnlyRegisteredStart` | `Spec => []StartedWasRegistered` |
| | `ElementCapHolds` | `Spec => []ElementCap` |
| | `RegistriesAgree` | `Spec => []RegistryAgrees` |
| `PipelineProofs` | `PipelineInvariant` | `Spec => []IInv` |
| | `PipelineOnlyLateTakesAreLost` | `Spec => []OnlyLateTakesAreLost` |
| | `PipelineExactlyOnceBeforeStops` | `Spec => []ExactlyOnceBeforeStops` |
| `InfoDBProofs` | `InfoDBInvariant` | `Spec => []IInv` |
| | `InfoDBSeedsUnique` | `Spec => []SeedsUnique` |
| | `InfoDBMapsAgree` | `Spec => []MapsAgree` |
| | `InfoDBAnalysisConsistent` | `Spec => []AnalysisConsistent` |
| | `InfoDBGeneralCovComplete` | `Spec => []GeneralCovComplete` |
| | `InfoDBNewCovAddsUp` | `Spec => []NewCovAddsUp` |
| | `AnalysisTypeOK` | `CovSpec => []CovTypeOK` |
| | `AnalysisPanicNeedsThree` | `CovSpec => []PanicNeedsThree` |
| | `AnalysisSparesUnique` | `CovSpec => []AdviceSparesUnique` |
| `ServerProofs` | `ServerInvariant` | `Spec => []IInv` |
| | `ServerTypeOK` | `Spec => []TypeOK` |
| | `ConfigurationComesFirst` | `Spec => []ConfigFirst` |
| | `OnlyTheseEndTheMaster` | `Spec => []EndHasACause` |
| | `ToldOnlyAtTheEnd` | `Spec => []ToldAtTheEnd` |
| | `FramingInvariant` | `FrameSpec => []FrameUntilCut` |
| | `FramingQueueUntilCut` | `FrameSpec => QueueUntilCut` |
| | `NodeImplementsQueue` | `FrameSpec /\ [](exact) => ImplementsQueue` |
| `NodeAgentProofs` | `NodeAgentInvariant` | `Spec => []IInv` |
| | `NodeAgentBatchConserved` | `Spec => []BatchConserved` |
| `ForkserverProofs` | `ForkserverInvariant` | `Spec => []IInv` |
| | `ForkserverBetweenRuns` | `Spec => []BetweenRuns` |
| | `ForkserverOneChild` | `Spec => []OneChild` |
| | `ForkserverHandshakeAgrees` | `Spec => []HandshakeAgrees` |
| `TargetProofs` | `QuarantineInvariant` | `Spec => []IInv` |
| | `QuarantineTypeOK` | `Spec => []TypeOK` |
| | `OneThreadInside` | `Spec => []OneInside` |
| | `QuarantineStaysPoisoned` | `Spec => []QuarantineIsPoisoned` |
| | `OneThreadIsClean` | `Spec => []LiveIsClean` |
| | `QuarantineListWellFormed` | `Spec => []ListWellFormed` |
| | `CmpLogInvariant` | `LogSpec => []LogIInv` |
| | `CmpLogFreshValues` | `LogSpec => []FreshValues` |
| | `CmpLogNewestKept` | `LogSpec => []NewestKept` |
| `LlmpBrokerProofs` | `LlmpInvariant` | `Spec => []LlmpInv` |
| | `LlmpBroadcastOnce` | `Spec => []BroadcastOnce` |
| | `LlmpMasterGetsAll` | `Spec => []MasterGetsAll` |
| | `LlmpFiltersOwnOnly` | `Spec => []FiltersOwnOnly` |
| | `LlmpOnlyTheSilentLeave` | `Spec => OnlyTheSilentLeave` |

A module of proofs covers one module of the specification, but for three:
`InfoDBProofs` is also about `Analysis`, `ServerProofs` about `Framing`, and
`TargetProofs` about `Quarantine` and `CmpLog`, the two runtimes in the target.

Most of the properties are not inductive; what each needs besides itself:

**Master.** That a set-up starts a registered element depends on the content of
slots of an array that others rewrite, so `IInv` says what every slot that can
still be read holds: elements of a node lie in its current array and were
registered (`NodesOK`), every slot of a slice in use, even of an abandoned array,
holds a registered element (`ViewsOK`), workers and queued deletions name
connected nodes (`WorkersOK`, `EventsOK`), and the database knows only
identifiers below the node's counter (`FuzzerIDsOK`), which is why `newFuzzer`
never repeats one. The argument goes through one relation, `Evolves`: a change of
a node keeps its cores, never lowers its counter, keeps every array's length and
turns registered slots into registered slots. `NodeChange` concludes that nobody
else's slice is damaged. `ElementCap` is inductive once `IInv` is known, and so
is `Agrees`, which states `RegistryAgrees` node by node (`NodeAgrees`): a set-up
and a deletion touch the slice of one node and the same node's part of the maps.

**Pipeline.** That some copy of a testcase exists is not inductive: a stopped
evaler's buffer still holds what it has given back. `Kept` asks for a copy which
no later step takes away (`Owned`: the part of a buffer that has not been given
back), and `Types` for what the program counters say of the buffers (`Sound`,
`Workers`) and that nothing comes from a closed connection. Until the first stop
`Once` adds that one holder at most has a testcase, counting the bytes under way
and the message in the reader's hand (`OneHolder`), that none holds it twice
(`NotTwice`), and that what a holder has was sent (`WasSent`), so that a fuzzer's
next testcase is new. `Places` lists where the accepted copies are; the theorems
read both properties off it.

**InfoDB.** `Domains` says which of the two maps know the fuzzer of the call in
progress, `Covered` which branches a half-added testcase may be ahead by
(`Adding`), `Filter` that every seed's identifier is in the filter and how each
of the others came there, `NormsOK` that coverage never shrinks below the last
analysis. `NewCovAddsUp` counts `Claims`, one element for each branch a seed
claims; it needs from `IInv` only that a saved testcase is no seed yet.

**Server.** A connection that waits is in one place only, the backlog or the
accept loop (`WaitsOnce`), without a goroutine and with an open socket
(`WaitingOK`); otherwise the loop could hand a connection over twice and its
second set-up would break `ConfigFirst`. The socket stays open until the node has
been written to (`SocketsOK`), and the master has written to a node exactly when
its set-up is over (`InboxOK`): this is what makes a failed write imply that the
node has left. `WireOK` says that nothing follows the first message before the
configuration, so that the reader never meets an init message.

**Framing.** What is in the stream are the messages, cut anywhere, so that an
invariant has to say which bytes belong to which message. Instead of a function
that cuts a stream, `FrameInv` says that there are a sequence `all` of all bytes
ever written and a function `off` to where in it each message begins (`Laid`:
`off` grows by the length of each message, the digits and the bytes stand where
they should, and the last message may lack its body), such that the stream is
the end of `all` and the reader's buffer what lies between the beginning of its
message, or of the body, and the stream (`Reached`). A read moves bytes from the
one to the other; when a length is complete it is that of the message that
begins there, by `RoundTrip`: what `Encode` wrote `Decode` reads. That lemma is
proved about digits. `Weight` is recursive, and that the recursion has a solution
(`WeightsExist`) and that numbers below `Weight[HdrLen]` with the same digits are
equal (`DigitsTellApart`) are shown by looking at a least counterexample; the
arithmetic is that of dividing twice. All this holds until the master has cut a
length (`FrameUntilCut` is `FrameInv` unless `cut`), after which the bytes are
anything; the node's reader never sets `cut`, which gives the whole queue for it.

**Analysis.** Nothing depends on earlier ticks but the types, so the work is in
lemmas about one analysis. If any two fuzzers are near at the percentage that was
taken, those at distance 0 are (`EqualsAreNear`, from `BelowDown`: what is no
larger than a value below a quantile is below it too), so that two fuzzers that
cover the same are in one cluster (`GroupOfNear`, `GroupOfMember`). Then neither
is noise, and of one cluster one member at most is a candidate (`BadIs`,
`ClustersApart`): no two candidates cover the same (`BadDiffer`). The detectors
come back empty only if no candidate covers anything of its own (`PanicsIs`), and
of two candidates that differ one does.

**LlmpBroker.** `IdsOK` and `CountsOK` say that the listener's ids are distinct
and that each announcement waits or was counted; `PagesOK` and `OutOK` what a
message on a page or behind the broker says of its writer, who may have left by
now; `ReceiversOK` and `LoopOK` who can be among the receivers and who among
those to be given up (`GivenUp`), whatever positions removals have left;
`OrderOK` that a client's numbers ascend on its page and on the broker's and that
what waits is above what was sent, from which `BroadcastOnce` follows.
`MasterGetsAll` compares what the master has with a filtered sequence; `MasterOK`
keeps a function from its messages to places on the broker's page that ascends
and, while the link is whole, misses no testcase the proxy has passed.
`OnlyTheSilentLeave` is a step property: only `GiveUp` removes, and by `GivenUp`
only at a position whose own page was at its end or silent in this round, or
whose id is another's (`LastGone`: from the last to the first, so that earlier
positions stay what they were).

**NodeAgent.** The count of a batch is kept by every step but one: an answer that
is read ends the turn only if it is to the last batch, and the master asks again
only if nothing of the old one is left. Hence `Numbers` (whatever is under way
carries the last number), `Working` (the thread has a batch only while its task
waits) and `Unanswered` (a task that panicked leaves a batch that is never
answered, so that the master does not ask it again). The lemmas before it count
in a sequence after `Append` and `Tail`.

**Forkserver.** `Talk` lists the places of the conversation (`Greeting`,
`OptionsDue`, `Dictionary`, `Resting`, `Requested`, `Running`, `Over`, `GaveUp`):
for each, the two program counters and the words in both pipes. `Children` says
what the server knows of its child (`ChildOK`) and that processes are numbered in
order (`PidsInOrder`), `Books` what the executor remembers of timeouts, `Gone`
what is left when the server has died. Every step leads from a place to a place.

**Quarantine.** `Owns` says in which state the block is that a thread works on
and `Alone` that no two threads free or allocate the same one; `PoisonDue` adds
the thread that is about to poison. The proof also shows `NothingEvicted`: the
loop that makes room is never entered, since the bytes are never counted.
`ListWellFormed` is proved with the list's blocks all different (`Chain`), without
which a push could overwrite a link further down; `LiveIsClean` with where the
block is that a lone thread still has to poison (`SoloClean`).

**CmpLog.** `RowOK` says which comparison each row holds, from the counter, the
height and the number of comparisons so far (`Logged`): the rows below the next one
hold the last comparisons in order, and those above it, once the counter has
passed the height, the ones before. The arithmetic of remainders is in lemmas of
their own.

Only model-checked:

* all liveness, which is outside the prover, and with it `EveryNodeSettled`,
  `LostNodeReported`, `DeadEvalerLeaves`, `TestcasesFinish`, `Delivered`,
  `RunEnds`, `FuzzerGoesOn`, `EveryBatchAnswered`, `EveryPageRead`;
* the square roots and quantiles of `Analysis` beyond what the properties need of
  them (that they are numbers, and that the least value is below every quantile).

The prover cannot instantiate the induction theorems of its library. Where a
proof needs induction it takes the least counterexample instead, which exists
because `<` is well-founded on the naturals (`LeastOf`, `LeastNat`).

## 5. What the code does otherwise than one may expect

Met while modelling; each is in the models, and the properties say exactly how
far the code goes. Where a document or a comment of the repository says more, a
run (`agent_env` and `framing_master`, which are findings of `PROJECT.json`) or a
configuration shows the violation:

| shown by | the code | what it contradicts |
|---|---|---|
| `agent_env` | `main.rs:216`: one environment variable for the maps of all threads | `main.rs:215`, "let the forkserver know the shmid" |
| `framing_master` | `connection.go:61`: the length is taken from one `Read` whatever it returned | `todo:18`, "[DONE] 15.", check how much is read |
| `Target_limit.cfg` | `malloc.c:109`: `quarantine_bytes` is compared and lowered but never raised, so nothing is ever evicted | `malloc.c:34`, "50 mb quarantine" |
| `Target_tails.cfg` | `cmplog.rs:139`, `cmplog.c:126`: 32 bytes are returned of which a run writes a part | `cmp.rs:118`, "during the current execution" |
| `LlmpBroker_ids.cfg` | `llmp.rs:2990`: the id of a client is the number of receivers and comes up again after a removal; the newcomer's turns then read the other one's page | `llmp.rs:2240`, "walks all pages" |
| `LlmpBroker_proxy.cfg` | `llmp.rs:2735`: a message from the master is sent on with a reserved tag, which ends the proxy thread | `llmp.rs:2633`, "in both directions" |
| `LlmpBroker_exit.cfg` | `llmp.rs:2355`: the count for `exit_cleanly_after` includes the proxy | `llmp.rs:2075`, "will not exit after client 1" |

The rest contradicts no document:

* `server.go:156`, `master.go:307`: two connections of one host share an element
  array. A set-up that reads it late may start an element of the other
  connection; `StartedWasRegistered` is what remains true.
* `evaler.go:113`: a cancelled evaler may report its end twice, which lowers the
  gauge of evalers twice.
* `master.go:284` and `365`: `evalers` also receives fuzzers, so the decision to
  rebalance counts them.
* `evaler.go:122`: an evaler that lost its connection puts its buffer back into the
  testcase channel of which it is a consumer itself: the last one, with the
  channel full, waits there for ever with what it has not put back.
* `server.go:134`: with fuzzer and evaler on one connection and no other evaler,
  a full testcase channel stops the reader and with it the answer that would
  empty the channel; a reader that waits for its worker does not see that the
  connection closed.
* `master.go:249`, `tcp/evaler.go:56`, `infodb.go:81`: a negative number of cores
  or an answer that is too short panics and ends the master.
* `infodb.go:83`: a false positive of the Bloom filter hides new coverage.
* `distance.go:193`: three candidates without a branch of their own make the
  first detector return nothing and the second one index it.
* `server.go:49`: an error of `Accept` ends the listening.
* `forkserver.c:307`: a child that stops just before a signal other than SIGKILL
  keeps it pending, and the server waits for its death for ever.
* `forkserver.rs:890`: the dictionary is taken with one read of the pipe.
* `malloc.c:233`: after a direct free the memory is poisoned although another
  thread may have it by now.
* `main.rs:269` and `283`: an evaler's executor has no timeout, and when it fails
  nobody tells the master: a batch then stays unanswered, and the master's evaler
  waits for it as long as the connection is open.
* `cmplog.rs:98`: `hits` that wrapped to zero hides the column.
* `llmp.rs:2256`: a client that lives but sends nothing for a minute is removed;
  what it writes later is not read.
* `llmp.rs:2203`: the proxy's two limits are passed in the wrong order.

## 6. What is not modelled

* Of the master: the branch of `SetupNewNode` for `isTest = false` (never taken:
  `NewMaster` sets it to true), `lastRebalanceTime` and `RebalaceThreshold`
  (written, never read), `Stop` methods (never called), the order of the seed tree
  and its readers `GetMostInterestingIDs` and `GetByID` (nothing calls them), log
  lines and counters, the legacy TCP client (`NewTcpClient` has no caller).
* Encodings: msgpack and gzip are library calls; the models keep which message
  can be decoded and by whom.
* LLMP: links to other brokers, clients that restart on their old page, the
  management of pages in shared memory.
* QASan: redzone contents, the zone used before initialisation, the hooks (a
  check and a call each), dlmalloc (third party).
* LibAFL otherwise, the example fuzzers with their vendored targets (libpng,
  stb_image), tools and scripts: upstream or third-party code without state of
  this system. By lines they are by far the largest part of the repository.

## 7. Plan

Done: every component of the master with state, the node's process, the broker
with its link, forkserver, quarantine and comparison log. Every safety property
that a run checks and that holds is a theorem, the refinement of the message
queue among them; what the runs alone show is liveness.

What could follow:

1. `Pipeline` and `NodeAgent` joined over two instances of `MsgQueue` in place of
   their wires, now that `Framing` says how far it is one.
2. Clients of `LlmpBroker` that restart on their old page.
