------------------------------- MODULE Master -------------------------------
(***************************************************************************)
(* The orchestration master of MeFuzz: the registry of nodes and of the    *)
(* fuzzers and evalers that run on them (core/master/master.go), the       *)
(* set-up of a connection that starts their workers                        *)
(* (infra/conn/tcp/server.go), and the way a worker of a lost connection   *)
(* is taken out of the registry again through the event channel.           *)
(*                                                                         *)
(* What the registry hands to a connection is a Go slice of the node's     *)
(* element array, read later and without Master.mu.  The arrays are        *)
(* therefore part of the state: nodes[n].gens holds every backing array    *)
(* node.elements has had (append past the capacity makes a new one), and   *)
(* the view of a connection names the array its slice points into.         *)
(***************************************************************************)
EXTENDS Integers, Sequences, FiniteSets

CONSTANTS
  NodeID,        \* remote hosts, nodeIDFromAddr of the peer's address
  Conn,          \* TCP connections, each accepted once
  NodeOf,        \* the host a connection comes from
  CoreCounts,    \* initMsg.Cores as sent by the nodes
  Uuid,          \* what uuid.New().ID() may draw
  EventChanBuf,  \* capacity of Master.eventChan
  MaxEmits       \* bound: how often a cancelled evaler may report its end

ASSUME MasterAssumption ==
  /\ NodeOf \in [Conn -> NodeID]
  /\ CoreCounts \subseteq Nat
  /\ Uuid \subseteq Nat
  /\ EventChanBuf \in Nat \ {0}
  /\ MaxEmits \in Nat \ {0}

Roles == {"fuzz", "eval", "auto"}
ElementType == {"Fuzzer", "Evaler"}
Element == [OnNodeID : Nat, Type : ElementType]

\* The zero value of a slot of a backing array that was never written.
ZeroElement == [OnNodeID |-> 0, Type |-> "Unknown"]

\* What a slot of a backing array may hold.
Slot == Element \cup {ZeroElement}

\* entities.ElementID: a worker's identity in every map of the master.
ElementID == NodeID \X Nat

\* Before SetupNewNode answers a connection has no slice.
NoView == [gen |-> 0, lo |-> 0, hi |-> 0, role |-> "none"]

\* Events that reach the event loop; the two hints carry no element.
Deletion == [Event : {"ElementDeleted"}, Element : ElementID,
             NodeType : ElementType]
Hint == [Event : {"NeedMoreEvalers", "NeedMoreFuzzers"}]

VARIABLES
  nodes,         \* Master.nodes; a node that never connected has cores = 0
  fuzzers,       \* keys of Master.fuzzers
  evalers,       \* keys of Master.evalers
  fuzzerMap,     \* keys of fuzzInfoDB.fuzzerMap
  dbMuLeaked,    \* AddFuzzer returned without unlocking fuzzInfoDB.mu
  usedUuid,      \* identifiers uuid.New().ID() has returned
  phase,         \* progress of handleConnection, per connection
  view,          \* the role it asked for and the slice NodeSetUp.Elements
  workers,       \* workers the connection started, in order
  eventChan,     \* Master.eventChan
  fuzzerGauge,   \* totalFuzzerCount
  evalerGauge,   \* totalEvalerCount
  status         \* of the master process

registry == <<nodes, fuzzers, evalers, fuzzerMap, dbMuLeaked, usedUuid>>
gauges == <<fuzzerGauge, evalerGauge>>
vars == <<registry, phase, view, workers, eventChan, gauges, status>>

-----------------------------------------------------------------------------
(* Go slices *)

NoNode == [cores |-> 0, fuzzerByAllTime |-> 0, gens |-> <<>>, len |-> 0]

\* The backing array node.elements points to now.
Backing(nd) == nd.gens[Len(nd.gens)]

\* A node when it first connects: make([]Element, 0, cores).
NewNode(cores) ==
  [cores |-> cores, fuzzerByAllTime |-> 0,
   gens |-> <<[i \in 1..cores |-> ZeroElement]>>, len |-> 0]

\* node.elements = append(node.elements, el): in place while the capacity
\* lasts, otherwise into a new array of twice the length.
AppendElement(nd, el) ==
  LET n == nd.len
      grown == [i \in 1..2*n |->
                  IF i <= n THEN Backing(nd)[i]
                  ELSE IF i = n + 1 THEN el ELSE ZeroElement]
  IN IF n < Len(Backing(nd))
     THEN [nd EXCEPT !.gens[Len(nd.gens)][n + 1] = el, !.len = n + 1]
     ELSE [nd EXCEPT !.gens = Append(@, grown), !.len = n + 1]

DeleteElement_KeepsOrder(nd, el) ==
  IF \E i \in 1..nd.len : Backing(nd)[i] = el
  THEN [nd EXCEPT !.len = nd.len - 1] ELSE nd

DeleteElement_ClearsTail(nd, el) ==
  LET arr == Backing(nd)
      at == CHOOSE i \in 1..nd.len : arr[i] = el
      shifted == [i \in DOMAIN arr |->
                    IF i = nd.len THEN ZeroElement
                    ELSE IF at <= i /\ i < nd.len THEN arr[i + 1] ELSE arr[i]]
  IN IF \E i \in 1..nd.len : arr[i] = el
     THEN [nd EXCEPT !.gens[Len(nd.gens)] = shifted, !.len = nd.len - 1]
     ELSE nd

\* slices.DeleteFunc(node.elements, el): the elements behind el move one slot
\* to the left in the same array; the slot that falls off the end keeps its
\* old content (Go 1.21).  el occurs at most once, see RegistryAgrees.
DeleteElement(nd, el) ==
  LET arr == Backing(nd)
      at == CHOOSE i \in 1..nd.len : arr[i] = el
      shifted == [i \in DOMAIN arr |->
                    IF at <= i /\ i < nd.len THEN arr[i + 1] ELSE arr[i]]
  IN IF \E i \in 1..nd.len : arr[i] = el
     THEN [nd EXCEPT !.gens[Len(nd.gens)] = shifted, !.len = nd.len - 1]
     ELSE nd

\* The elements a node has now, without their order.
ElementsOf(n) == {Backing(nodes[n])[i] : i \in 1..nodes[n].len}

-----------------------------------------------------------------------------
Init ==
  /\ nodes = [n \in NodeID |-> NoNode]
  /\ fuzzers = {}
  /\ evalers = {}
  /\ fuzzerMap = {}
  /\ dbMuLeaked = FALSE
  /\ usedUuid = {}
  /\ phase = [c \in Conn |-> "new"]
  /\ view = [c \in Conn |-> NoView]
  /\ workers = [c \in Conn |-> <<>>]
  /\ eventChan = <<>>
  /\ fuzzerGauge = 0
  /\ evalerGauge = 0
  /\ status = "running"

(* SetupNewNode *)

\* The node the set-up works on, created on its first connection.
Joined(n, cores) ==
  IF nodes[n].cores = 0 THEN NewNode(IF cores = 0 THEN 1 ELSE cores)
  ELSE nodes[n]

MaxElements_OneMore(nd) == 2 * nd.cores + 1 < nd.len

\* The cap on the elements of a node; nothing is registered beyond it.
MaxElements(nd) == 2 * nd.cores < nd.len

NextFuzzerID_FromLength(nd) == nd.len + 1

\* The identifier newFuzzer gives to the next fuzzer of a node.
NextFuzzerID(nd) == nd.fuzzerByAllTime + 1

newEvaler(nd, u) == AppendElement(nd, [OnNodeID |-> u, Type |-> "Evaler"])

newFuzzer(nd) ==
  AppendElement([nd EXCEPT !.fuzzerByAllTime = @ + 1],
                [OnNodeID |-> NextFuzzerID(nd), Type |-> "Fuzzer"])

\* What a role brings up.  An automatic node gets an evaler when the master
\* knows none or the testcase channel is congested, and (isTest, which
\* NewMaster always sets) a fuzzer when it already has an element.
WantsEvaler(role, congested) ==
  \/ role = "eval"
  \/ role = "auto" /\ (evalers = {} \/ congested)

WantsFuzzer(role, nd) ==
  \/ role = "fuzz"
  \/ role = "auto" /\ nd.len # 0

\* infodb.AddFuzzer: a duplicate returns with the database mutex held.
AddFuzzer(f) ==
  /\ ~dbMuLeaked
  /\ fuzzerMap' = fuzzerMap \cup {f}
  /\ dbMuLeaked' = (f \in fuzzerMap)

\* The registration of nd's new fuzzer, or nothing.
RegisterFuzzer(n, nd, wants) ==
  IF wants
  THEN /\ fuzzers' = fuzzers \cup {<<n, NextFuzzerID(nd)>>}
       /\ AddFuzzer(<<n, NextFuzzerID(nd)>>)
  ELSE UNCHANGED <<fuzzers, fuzzerMap, dbMuLeaked>>

\* The registration of a new evaler under the drawn identifier, or nothing.
RegisterEvaler(n, u, wants) ==
  IF wants
  THEN /\ u \notin usedUuid
       /\ usedUuid' = usedUuid \cup {u}
       /\ evalers' = evalers \cup {<<n, u>>}
  ELSE UNCHANGED <<usedUuid, evalers>>

SetupNewNode(c, cores, role, congested, u) ==
  LET n == NodeOf[c]
      nd == Joined(n, cores)
      wantsE == WantsEvaler(role, congested)
      wantsF == WantsFuzzer(role, nd)
      ndE == IF wantsE THEN newEvaler(nd, u) ELSE nd
      ndF == IF wantsF THEN newFuzzer(ndE) ELSE ndE
  IN /\ status = "running"
     /\ phase[c] = "new"
     /\ IF MaxElements(nd)
        THEN /\ phase' = [phase EXCEPT ![c] = "rejected"]
             /\ UNCHANGED <<registry, view>>
        ELSE /\ RegisterEvaler(n, u, wantsE)
             /\ RegisterFuzzer(n, ndE, wantsF)
             /\ nodes' = [nodes EXCEPT ![n] = ndF]
             /\ view' = [view EXCEPT
                  ![c] = [gen |-> Len(ndF.gens), lo |-> nd.len,
                          hi |-> ndF.len, role |-> role]]
             /\ phase' = [phase EXCEPT ![c] = "starting"]
     /\ UNCHANGED <<workers, eventChan, gauges, status>>

-----------------------------------------------------------------------------
(* setup and handleConnection *)

\* The slot of its slice the connection's loop reads next.
NextSlot(c) == view[c].lo + Len(workers[c]) + 1

\* What it finds there: the array may have changed since SetupNewNode.
ReadSlot(c) == nodes[NodeOf[c]].gens[view[c].gen][NextSlot(c)]

\* One turn of setup's loop: StartEvaler or StartFuzzer.  Both put the worker
\* under its identifier into Master.evalers.
StartElement(c) ==
  LET el == ReadSlot(c)
  IN /\ status = "running"
     /\ phase[c] = "starting"
     /\ NextSlot(c) <= view[c].hi
     /\ workers' = [workers EXCEPT
          ![c] = Append(@, [el |-> el, st |-> "running", emits |-> 0])]
     /\ evalers' = IF el.Type \in ElementType
                   THEN evalers \cup {<<NodeOf[c], el.OnNodeID>>} ELSE evalers
     /\ fuzzerGauge' = fuzzerGauge + (IF el.Type = "Fuzzer" THEN 1 ELSE 0)
     /\ evalerGauge' = evalerGauge + (IF el.Type = "Evaler" THEN 1 ELSE 0)
     /\ UNCHANGED <<nodes, fuzzers, fuzzerMap, dbMuLeaked, usedUuid, phase,
                    view, eventChan, status>>

\* The configuration goes out and the reader loop begins; a failed send is
\* fatal for the whole master (logger.Fatalf).
SendConfig(c, ok) ==
  /\ status = "running"
  /\ phase[c] = "starting"
  /\ NextSlot(c) > view[c].hi
  /\ phase' = IF ok THEN [phase EXCEPT ![c] = "open"] ELSE phase
  /\ status' = IF ok THEN status ELSE "exited"
  /\ UNCHANGED <<registry, view, workers, eventChan, gauges>>

\* The reader sees EOF, closes every channel of recvByElement and the socket.
PeerCloses(c) ==
  /\ status = "running"
  /\ phase[c] = "open"
  /\ phase' = [phase EXCEPT ![c] = "closed"]
  /\ UNCHANGED <<registry, view, workers, eventChan, gauges, status>>

-----------------------------------------------------------------------------
(* Workers *)

\* recvByElement holds one channel per identifier: of two workers with the
\* same identifier only the later one has its channel closed.
HasChannel(c, k) ==
  \A j \in k+1..Len(workers[c]) :
    workers[c][j].el.OnNodeID # workers[c][k].el.OnNodeID

Post_Unbounded(e) == eventChan' = Append(eventChan, e)

\* A send on the event channel, which blocks while the channel is full.
Post(e) ==
  /\ Len(eventChan) < EventChanBuf
  /\ eventChan' = Append(eventChan, e)

DeletionOf(c, el) ==
  [Event |-> "ElementDeleted", Element |-> <<NodeOf[c], el.OnNodeID>>,
   NodeType |-> el.Type]

\* Fuzzer.Run: GetTestcase reports ErrStopElement on the closed channel.
FuzzerStops(c, k) ==
  /\ status = "running"
  /\ phase[c] = "closed"
  /\ workers[c][k].el.Type = "Fuzzer"
  /\ workers[c][k].st = "running"
  /\ HasChannel(c, k)
  /\ Post(DeletionOf(c, workers[c][k].el))
  /\ workers' = [workers EXCEPT ![c][k].st = "done"]
  /\ UNCHANGED <<registry, phase, view, gauges, status>>

\* Evaler.flush: Evaluate reports ErrStopElement; the worker cancels its
\* context, posts its deletion and keeps its buffer, so that its loop may
\* flush, and post, again before select picks ctx.Done.
EvalerStops(c, k) ==
  /\ status = "running"
  /\ phase[c] = "closed"
  /\ workers[c][k].el.Type = "Evaler"
  /\ workers[c][k].st \in {"running", "cancelled"}
  /\ workers[c][k].emits < MaxEmits
  /\ Post(DeletionOf(c, workers[c][k].el))
  /\ workers' = [workers EXCEPT ![c][k].st = "cancelled",
                                ![c][k].emits = @ + 1]
  /\ UNCHANGED <<registry, phase, view, gauges, status>>

\* Evaler.Run: select picks ctx.Done.
EvalerExits(c, k) ==
  /\ status = "running"
  /\ workers[c][k].el.Type = "Evaler"
  /\ workers[c][k].st = "cancelled"
  /\ workers' = [workers EXCEPT ![c][k].st = "done"]
  /\ UNCHANGED <<registry, phase, view, eventChan, gauges, status>>

\* Fuzzer.Run: a testcase arrived and finds the testcase channel full.
FuzzerHints(c, k) ==
  /\ status = "running"
  /\ phase[c] \in {"open", "closed"}
  /\ workers[c][k].el.Type = "Fuzzer"
  /\ workers[c][k].st = "running"
  /\ HasChannel(c, k)
  /\ Post([Event |-> "NeedMoreEvalers"])
  /\ UNCHANGED <<registry, phase, view, workers, gauges, status>>

\* Evaler.Run: the second tick in a row without a testcase.
EvalerHints(c, k) ==
  /\ status = "running"
  /\ workers[c][k].el.Type = "Evaler"
  /\ workers[c][k].st \in {"running", "cancelled"}
  /\ Post([Event |-> "NeedMoreFuzzers"])
  /\ UNCHANGED <<registry, phase, view, workers, gauges, status>>

-----------------------------------------------------------------------------
(* The event loop *)

\* infodb.DeleteFuzzer: blocks behind a leaked mutex, otherwise forgets f.
DeleteFuzzer(f) ==
  /\ ~dbMuLeaked
  /\ fuzzerMap' = fuzzerMap \ {f}

\* A missing node is only logged: the nil dereference behind it is a panic.
elementDeleted(e) ==
  LET n == e.Element[1]
      el == [OnNodeID |-> e.Element[2], Type |-> e.NodeType]
  IN IF nodes[n].cores = 0
     THEN /\ status' = "panic"
          /\ UNCHANGED <<registry, gauges>>
     ELSE /\ nodes' = [nodes EXCEPT ![n] = DeleteElement(@, el)]
          /\ \/ /\ e.NodeType = "Evaler"
                /\ evalers' = evalers \ {e.Element}
                /\ evalerGauge' = evalerGauge - 1
                /\ UNCHANGED <<fuzzers, fuzzerMap, fuzzerGauge>>
             \/ /\ e.NodeType = "Fuzzer"
                /\ fuzzers' = fuzzers \ {e.Element}
                /\ DeleteFuzzer(e.Element)
                /\ fuzzerGauge' = fuzzerGauge - 1
                /\ UNCHANGED <<evalers, evalerGauge>>
          /\ UNCHANGED <<dbMuLeaked, usedUuid, status>>

HandleDeletion ==
  /\ status = "running"
  /\ eventChan # <<>>
  /\ Head(eventChan).Event = "ElementDeleted"
  /\ elementDeleted(Head(eventChan))
  /\ eventChan' = Tail(eventChan)
  /\ UNCHANGED <<phase, view, workers>>

\* No case of the event loop's switch handles a hint.
DropHint ==
  /\ status = "running"
  /\ eventChan # <<>>
  /\ Head(eventChan).Event # "ElementDeleted"
  /\ eventChan' = Tail(eventChan)
  /\ UNCHANGED <<registry, phase, view, workers, gauges, status>>

-----------------------------------------------------------------------------
ConnStep(c) ==
  \/ \E cores \in CoreCounts, role \in Roles, congested \in BOOLEAN,
        u \in Uuid : SetupNewNode(c, cores, role, congested, u)
  \/ StartElement(c)
  \/ \E ok \in BOOLEAN : SendConfig(c, ok)
  \/ PeerCloses(c)

WorkerStep(c, k) ==
  \/ FuzzerStops(c, k)
  \/ EvalerStops(c, k)
  \/ EvalerExits(c, k)
  \/ FuzzerHints(c, k)
  \/ EvalerHints(c, k)

Next ==
  \/ \E c \in Conn : ConnStep(c)
  \/ \E c \in Conn : \E k \in 1..Len(workers[c]) : WorkerStep(c, k)
  \/ HandleDeletion
  \/ DropHint

Spec == Init /\ [][Next]_vars

-----------------------------------------------------------------------------
(* Properties *)

Node == [cores : Nat, fuzzerByAllTime : Nat,
         gens : Seq(Seq(Slot)), len : Nat]

Worker == [el : Slot,
           st : {"running", "cancelled", "done"}, emits : Nat]

View == [gen : Nat, lo : Nat, hi : Nat, role : Roles \cup {"none"}]

\* Every variable keeps its type, the event channel its capacity.
TypeOK ==
  /\ nodes \in [NodeID -> Node]
  /\ fuzzers \subseteq ElementID
  /\ evalers \subseteq ElementID
  /\ fuzzerMap \subseteq ElementID
  /\ dbMuLeaked \in BOOLEAN
  /\ usedUuid \subseteq Uuid
  /\ phase \in [Conn -> {"new", "starting", "open", "closed", "rejected"}]
  /\ view \in [Conn -> View]
  /\ workers \in [Conn -> Seq(Worker)]
  /\ eventChan \in Seq(Deletion \cup Hint)
  /\ Len(eventChan) <= EventChanBuf
  /\ fuzzerGauge \in Int
  /\ evalerGauge \in Int
  /\ status \in {"running", "exited", "panic"}

\* elementDeleted logs a missing node and then dereferences it: no deletion
\* may ever name a node that has not connected.
NoPanic == status # "panic"

\* AddFuzzer keeps fuzzInfoDB.mu locked when it refuses a duplicate, which
\* would stop the whole database: newFuzzer must never offer one.
DbMutexReleased == ~dbMuLeaked

FuzzersOn(n) ==
  {<<n, el.OnNodeID>> : el \in {e \in ElementsOf(n) : e.Type = "Fuzzer"}}
EvalersOn(n) ==
  {<<n, el.OnNodeID>> : el \in {e \in ElementsOf(n) : e.Type = "Evaler"}}

\* The three records of what runs agree after any sequence of set-ups,
\* deletions and repeated deletions: the node slices, the master's map and
\* the database hold the same fuzzers, each slice names an element once (a
\* deletion takes out one occurrence), and no evaler of a slice is missing
\* from the map that decides whether another evaler is needed.
RegistryAgrees ==
  /\ fuzzers = fuzzerMap
  /\ \A n \in NodeID :
       /\ FuzzersOn(n) = {f \in fuzzers : f[1] = n}
       /\ EvalersOn(n) \subseteq evalers
       /\ \A i, j \in 1..nodes[n].len :
            Backing(nodes[n])[i] = Backing(nodes[n])[j] => i = j

\* The bound SetupNewNode really enforces: its test comes before up to two
\* registrations and lets 2*cores elements pass.
ElementCap == \A n \in NodeID : nodes[n].len <= 2 * nodes[n].cores + 2

\* An element of a node that has registered `count' fuzzers, when `drawn' are
\* the identifiers drawn for evalers.
Registered(el, count, drawn) ==
  \/ el.Type = "Fuzzer" /\ el.OnNodeID \in 1..count
  \/ el.Type = "Evaler" /\ el.OnNodeID \in drawn

\* An element the master once gave to node n.
WasRegistered(n, el) == Registered(el, nodes[n].fuzzerByAllTime, usedUuid)

\* setup reads its slice while other connections append to and shift the same
\* array.  What it starts may then be another connection's element, but never
\* one the master did not register for this node.
StartedWasRegistered ==
  \A c \in Conn : \A k \in 1..Len(workers[c]) :
    WasRegistered(NodeOf[c], workers[c][k].el)

-----------------------------------------------------------------------------
(* The inductive invariant behind the safety properties *)

\* A node that never connected is empty; the elements of a connected one lie
\* in its current array, and each is one the master registered.
NodeOK(nd, drawn) ==
  /\ nd.cores = 0 => nd = NoNode
  /\ nd.cores # 0 =>
       /\ Len(nd.gens) > 0
       /\ Len(Backing(nd)) > 0
       /\ nd.len <= Len(Backing(nd))
       /\ \A i \in 1..nd.len :
            Registered(Backing(nd)[i], nd.fuzzerByAllTime, drawn)

\* A slice v of one of nd's arrays covers slots that hold, and will always
\* hold, registered elements.
ViewOK(nd, v, drawn) ==
  /\ v.gen \in 1..Len(nd.gens)
  /\ v.hi <= Len(nd.gens[v.gen])
  /\ \A i \in v.lo+1..v.hi :
       Registered(nd.gens[v.gen][i], nd.fuzzerByAllTime, drawn)

NodesOK == \A n \in NodeID : NodeOK(nodes[n], usedUuid)

ViewsOK ==
  \A c \in Conn : phase[c] = "starting" =>
    /\ nodes[NodeOf[c]].cores # 0
    /\ ViewOK(nodes[NodeOf[c]], view[c], usedUuid)

WorkersOK ==
  \A c \in Conn : \A k \in 1..Len(workers[c]) :
    /\ nodes[NodeOf[c]].cores # 0
    /\ WasRegistered(NodeOf[c], workers[c][k].el)

EventsOK ==
  \A i \in 1..Len(eventChan) : eventChan[i].Event = "ElementDeleted" =>
    nodes[eventChan[i].Element[1]].cores # 0

\* Every fuzzer of the database has an identifier its node already gave out.
FuzzerIDsOK ==
  \A f \in fuzzerMap : f[2] \in 1..nodes[f[1]].fuzzerByAllTime

\* The inductive invariant: what the registry, the arrays, the slices in use,
\* the workers and the queued events hold was registered before.
IInv ==
  /\ TypeOK
  /\ NodesOK
  /\ ViewsOK
  /\ WorkersOK
  /\ EventsOK
  /\ FuzzerIDsOK
  /\ NoPanic
  /\ DbMutexReleased

=============================================================================
