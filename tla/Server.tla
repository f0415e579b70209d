------------------------------- MODULE Server -------------------------------
(***************************************************************************)
(* The listening side of the master (infra/conn/tcp/server.go): one accept *)
(* loop that reads the first message of every connection itself, and one   *)
(* goroutine per connection that sets the node up, sends it its            *)
(* configuration and then reads until the end of the stream.               *)
(*                                                                         *)
(* Master models what a set-up registers and Pipeline what the workers do  *)
(* with the messages; here a connection's workers are one party that can   *)
(* be started, sent to, and told that the connection is closed.            *)
(***************************************************************************)
EXTENDS Integers, Sequences

CONSTANTS
  Peer,           \* connections opened by nodes
  V6,             \* those from an IPv6 address
  Silent,         \* those whose node may stay silent after connecting
  Faulty,         \* those whose node may send what no node should: the name of
                  \* an element it was not given, a number of cores that cannot
                  \* be, an answer with less in it than was asked for
  AcceptMayFail,  \* whether Accept may return an error
  MaxMsgs,        \* bound: messages a configured node sends
  MaxRequests     \* bound: requests the workers of a connection send

ASSUME ServerAssumption ==
  /\ V6 \subseteq Peer
  /\ Silent \subseteq Peer
  /\ Faulty \subseteq Peer
  /\ AcceptMayFail \in BOOLEAN
  /\ MaxMsgs \in Nat
  /\ MaxRequests \in Nat

VARIABLES
  node,      \* "away", "connected", "joining" (init sent), "left"
  sent,      \* messages a node sent after its configuration
  wire,      \* what travels to the master
  sock,      \* the master's socket: "none", "up", "reset", "eof", "closed"
  inbox,     \* what the master wrote to the node
  backlog,   \* connections the kernel holds for Accept
  acceptor,  \* the accept loop: where it is and for whom
  handler,   \* handleConnection of each connection
  workers,   \* its workers: "none", "running" or "told" (channels closed)
  hand,      \* the message its reader tries to hand over
  status     \* of the master process

remote == <<node, sent>>
vars == <<remote, wire, sock, inbox, backlog, acceptor, handler, workers, hand,
          status>>

Nobody == "nobody"

Idle == [pc |-> "accept", peer |-> Nobody]

Init ==
  /\ node = [p \in Peer |-> "away"]
  /\ sent = [p \in Peer |-> 0]
  /\ wire = [p \in Peer |-> <<>>]
  /\ sock = [p \in Peer |-> "none"]
  /\ inbox = [p \in Peer |-> <<>>]
  /\ backlog = <<>>
  /\ acceptor = Idle
  /\ handler = [p \in Peer |-> "none"]
  /\ workers = [p \in Peer |-> "none"]
  /\ hand = [p \in Peer |-> "none"]
  /\ status = "running"

-----------------------------------------------------------------------------
(* The node *)

NodeConnects(p) ==
  /\ node[p] = "away"
  /\ status = "running"
  /\ node' = [node EXCEPT ![p] = "connected"]
  /\ sock' = [sock EXCEPT ![p] = "up"]
  /\ backlog' = Append(backlog, p)
  /\ UNCHANGED <<sent, wire, inbox, acceptor, handler, workers, hand, status>>

\* The cores and the role; cores for which make() panics ("badcores"); or
\* something that is not an initMsg.
NodeSendsInit(p, msg) ==
  /\ node[p] = "connected"
  /\ msg = "badcores" => p \in Faulty
  /\ node' = [node EXCEPT ![p] = "joining"]
  /\ wire' = [wire EXCEPT ![p] = Append(@, msg)]
  /\ UNCHANGED <<sent, sock, inbox, backlog, acceptor, handler, workers, hand,
                 status>>

\* Multiplexed messages follow once the configuration has arrived: one for an
\* element of this node or for another, or an evaler's answer that is too short.
NodeSends(p, msg) ==
  /\ node[p] = "joining"
  /\ inbox[p] # <<>>
  /\ sent[p] < MaxMsgs
  /\ msg \in {"foreign", "short"} => p \in Faulty
  /\ sent' = [sent EXCEPT ![p] = @ + 1]
  /\ wire' = [wire EXCEPT ![p] = Append(@, msg)]
  /\ UNCHANGED <<node, sock, inbox, backlog, acceptor, handler, workers, hand,
                 status>>

\* The node ends in order (the stream ends) or not (the connection is reset:
\* the socket reports an error once and the end of the stream from then on).
NodeLeaves(p, how) ==
  /\ node[p] \in {"connected", "joining"}
  /\ node' = [node EXCEPT ![p] = "left"]
  /\ sock' = [sock EXCEPT ![p] = IF @ = "up" THEN how ELSE @]
  /\ UNCHANGED <<sent, wire, inbox, backlog, acceptor, handler, workers, hand,
                 status>>

-----------------------------------------------------------------------------
(* The accept loop *)

\* nodeIDFromAddr cannot parse an IPv6 address and ends the process.
Accept ==
  LET p == Head(backlog)
  IN /\ status = "running"
     /\ acceptor = Idle
     /\ backlog # <<>>
     /\ backlog' = Tail(backlog)
     /\ IF p \in V6
        THEN /\ status' = "exited"
             /\ UNCHANGED acceptor
        ELSE /\ acceptor' = [pc |-> "init", peer |-> p]
             /\ UNCHANGED status
     /\ UNCHANGED <<remote, wire, sock, inbox, handler, workers, hand>>

\* An error of Accept, such as too many open files, ends the loop.
AcceptFails ==
  /\ AcceptMayFail
  /\ status = "running"
  /\ acceptor = Idle
  /\ acceptor' = [pc |-> "stopped", peer |-> Nobody]
  /\ UNCHANGED <<remote, wire, sock, inbox, backlog, handler, workers, hand,
                 status>>

RecvInit_Retries ==
  LET p == acceptor.peer
      arrived == wire[p] # <<>>
  IN /\ status = "running"
     /\ acceptor.pc = "init"
     /\ arrived \/ sock[p] # "up"
     /\ wire' = IF arrived THEN [wire EXCEPT ![p] = Tail(@)] ELSE wire
     /\ IF arrived /\ Head(wire[p]) \in {"init", "badcores"}
        THEN /\ handler' = [handler EXCEPT ![p] =
                  IF Head(wire[p]) = "init" THEN "setup" ELSE "badcores"]
             /\ acceptor' = Idle
             /\ UNCHANGED sock
        ELSE /\ sock' = [sock EXCEPT ![p] = "closed"]
             /\ UNCHANGED <<handler, acceptor>>
     /\ UNCHANGED <<remote, inbox, backlog, workers, hand, status>>

\* RecvMessage of the first message: it blocks the loop until the message or
\* the end of the stream is there.  What cannot be read is closed.
RecvInit ==
  LET p == acceptor.peer
      arrived == wire[p] # <<>>
  IN /\ status = "running"
     /\ acceptor.pc = "init"
     /\ arrived \/ sock[p] # "up"
     /\ acceptor' = Idle
     /\ wire' = IF arrived THEN [wire EXCEPT ![p] = Tail(@)] ELSE wire
     /\ IF arrived /\ Head(wire[p]) \in {"init", "badcores"}
        THEN /\ handler' = [handler EXCEPT ![p] =
                  IF Head(wire[p]) = "init" THEN "setup" ELSE "badcores"]
             /\ UNCHANGED sock
        ELSE /\ sock' = [sock EXCEPT ![p] = "closed"]
             /\ UNCHANGED handler
     /\ UNCHANGED <<remote, inbox, backlog, workers, hand, status>>

-----------------------------------------------------------------------------
(* handleConnection *)

SetupRejects_Fatal(p) ==
  /\ status = "running"
  /\ handler[p] \in {"setup", "badcores"}
  /\ status' = "exited"
  /\ sock' = [sock EXCEPT ![p] = "closed"]
  /\ UNCHANGED <<remote, wire, inbox, backlog, acceptor, handler, workers, hand>>

\* ErrMaxElements: nothing was started.
SetupRejects(p) ==
  /\ status = "running"
  /\ handler[p] \in {"setup", "badcores"}
  /\ handler' = [handler EXCEPT ![p] = "rejected"]
  /\ sock' = [sock EXCEPT ![p] = "closed"]
  /\ UNCHANGED <<remote, wire, inbox, backlog, acceptor, workers, hand, status>>

\* SetupNewNode makes room for the elements of a host it does not know:
\* make() panics on a number of cores that cannot be.
SetupPanics(p) ==
  /\ status = "running"
  /\ handler[p] = "badcores"
  /\ status' = "exited"
  /\ UNCHANGED <<remote, wire, sock, inbox, backlog, acceptor, handler, workers, hand>>

\* The workers run before the node knows of them.
SetupStarts(p) ==
  /\ status = "running"
  /\ handler[p] \in {"setup", "badcores"}
  /\ handler' = [handler EXCEPT ![p] = "config"]
  /\ workers' = [workers EXCEPT ![p] = "running"]
  /\ UNCHANGED <<remote, wire, sock, inbox, backlog, acceptor, hand, status>>

\* The configuration is sent and estableshed is set.  When the node is gone
\* the write may fail, and does after a reset: logger.Fatalf.
SetupSends(p, ok) ==
  /\ status = "running"
  /\ handler[p] = "config"
  /\ sock[p] = "up" => ok
  /\ sock[p] = "reset" => ~ok
  /\ IF ok
     THEN /\ handler' = [handler EXCEPT ![p] = "reading"]
          /\ inbox' = [inbox EXCEPT ![p] = Append(@, "config")]
          /\ UNCHANGED <<status, sock>>
     ELSE /\ status' = "exited"
          /\ sock' = [sock EXCEPT ![p] = "closed"]
          /\ UNCHANGED <<handler, inbox>>
  /\ UNCHANGED <<remote, wire, backlog, acceptor, workers, hand>>

ReaderReads_GivesUp(p) ==
  /\ status = "running"
  /\ handler[p] = "reading"
  /\ hand[p] = "none"
  /\ wire[p] # <<>>
  /\ wire' = [wire EXCEPT ![p] = Tail(@)]
  /\ IF Head(wire[p]) = "undecodable"
     THEN /\ handler' = [handler EXCEPT ![p] = "done"]
          /\ workers' = [workers EXCEPT ![p] = "told"]
          /\ UNCHANGED hand
     ELSE /\ hand' = [hand EXCEPT ![p] = Head(wire[p])]
          /\ UNCHANGED <<handler, workers>>
  /\ UNCHANGED <<remote, sock, inbox, backlog, acceptor, status>>

\* What cannot be unmarshalled or decompressed is skipped.
ReaderReads(p) ==
  /\ status = "running"
  /\ handler[p] = "reading"
  /\ hand[p] = "none"
  /\ wire[p] # <<>>
  /\ wire' = [wire EXCEPT ![p] = Tail(@)]
  /\ hand' = IF Head(wire[p]) = "undecodable" THEN hand
             ELSE [hand EXCEPT ![p] = Head(wire[p])]
  /\ UNCHANGED <<remote, sock, inbox, backlog, acceptor, handler, workers,
                 status>>

ReaderFails_Returns(p) ==
  /\ status = "running"
  /\ handler[p] = "reading"
  /\ hand[p] = "none"
  /\ wire[p] = <<>>
  /\ sock[p] = "reset"
  /\ sock' = [sock EXCEPT ![p] = "closed"]
  /\ handler' = [handler EXCEPT ![p] = "done"]
  /\ UNCHANGED <<remote, wire, inbox, backlog, acceptor, workers, hand, status>>

\* An error other than EOF: log and read again.
ReaderFails(p) ==
  /\ status = "running"
  /\ handler[p] = "reading"
  /\ hand[p] = "none"
  /\ wire[p] = <<>>
  /\ sock[p] = "reset"
  /\ sock' = [sock EXCEPT ![p] = "eof"]
  /\ UNCHANGED <<remote, wire, inbox, backlog, acceptor, handler, workers, hand,
                 status>>

\* EOF: every channel is closed, then the socket.
ReaderCloses(p) ==
  /\ status = "running"
  /\ handler[p] = "reading"
  /\ hand[p] = "none"
  /\ wire[p] = <<>>
  /\ sock[p] = "eof"
  /\ sock' = [sock EXCEPT ![p] = "closed"]
  /\ handler' = [handler EXCEPT ![p] = "done"]
  /\ workers' = [workers EXCEPT ![p] = "told"]
  /\ UNCHANGED <<remote, wire, inbox, backlog, acceptor, hand, status>>

\* The rendezvous with a worker.  The channel of an unknown element is nil:
\* the reader waits for ever, since the master's context is never cancelled.
WorkerTakes(p) ==
  /\ status = "running"
  /\ hand[p] = "known"
  /\ hand' = [hand EXCEPT ![p] = "none"]
  /\ UNCHANGED <<remote, wire, sock, inbox, backlog, acceptor, handler, workers,
                 status>>

\* The worker of an evaler reads the answer to its request and panics: less
\* Coverage than CovSize, or less EvalData than testcases.
WorkerPanics(p) ==
  /\ status = "running"
  /\ hand[p] = "short"
  /\ \E i \in 1..Len(inbox[p]) : inbox[p][i] = "request"
  /\ status' = "exited"
  /\ UNCHANGED <<remote, wire, sock, inbox, backlog, acceptor, handler, workers, hand>>

-----------------------------------------------------------------------------
(* MultiplexedConnection.send *)

Established_Started(p) == workers[p] = "running"

\* spin: a worker waits until the configuration is out.
Established(p) == handler[p] \in {"reading", "done"}

\* The worker of an evaler sends a request.
WorkerSends(p) ==
  /\ status = "running"
  /\ workers[p] = "running"
  /\ Established(p)
  /\ sock[p] # "closed"
  /\ Len(SelectSeq(inbox[p], LAMBDA m : m = "request")) < MaxRequests
  /\ inbox' = [inbox EXCEPT ![p] = Append(@, "request")]
  /\ UNCHANGED <<remote, wire, sock, backlog, acceptor, handler, workers, hand,
                 status>>

-----------------------------------------------------------------------------
\* The operator interrupts the master: Srv.Close, and main returns.
Close ==
  /\ status = "running"
  /\ status' = "stopped"
  /\ acceptor' = [pc |-> "stopped", peer |-> Nobody]
  /\ UNCHANGED <<remote, wire, sock, inbox, backlog, handler, workers, hand>>

HandlerStep(p) ==
  \/ SetupRejects(p)
  \/ SetupPanics(p)
  \/ SetupStarts(p)
  \/ \E ok \in BOOLEAN : SetupSends(p, ok)
  \/ ReaderReads(p)
  \/ ReaderFails(p)
  \/ ReaderCloses(p)

Next ==
  \/ \E p \in Peer :
       \/ NodeConnects(p)
       \/ \E msg \in {"init", "bad", "badcores"} : NodeSendsInit(p, msg)
       \/ \E msg \in {"known", "undecodable", "foreign", "short"} : NodeSends(p, msg)
       \/ \E how \in {"eof", "reset"} : NodeLeaves(p, how)
       \/ HandlerStep(p)
       \/ WorkerTakes(p)
       \/ WorkerPanics(p)
       \/ WorkerSends(p)
  \/ Accept
  \/ AcceptFails
  \/ RecvInit
  \/ Close

Spec == Init /\ [][Next]_vars

\* Goroutines are scheduled; a node that is not silent sends its init message
\* (main.rs) or leaves.  A worker need not come back to its channel: a fuzzer's
\* may wait for room among the testcases (fuzzer.go:70-78), an evaler's that has
\* nothing to evaluate does not receive (evaler.go:99).
Fairness ==
  /\ WF_vars(Accept)
  /\ WF_vars(RecvInit)
  /\ \A p \in Peer :
       /\ WF_vars(HandlerStep(p))
       /\ p \notin Silent =>
            WF_vars(\/ \E msg \in {"init", "bad", "badcores"} : NodeSendsInit(p, msg)
                    \/ \E how \in {"eof", "reset"} :
                         node[p] = "connected" /\ NodeLeaves(p, how))

FairSpec == Spec /\ Fairness

-----------------------------------------------------------------------------
(* Properties *)

WireMsg == {"init", "bad", "badcores", "known", "undecodable", "foreign", "short"}

\* Every variable keeps its type; no undecoded message is handed over.
TypeOK ==
  /\ node \in [Peer -> {"away", "connected", "joining", "left"}]
  /\ sent \in [Peer -> 0..MaxMsgs]
  /\ wire \in [Peer -> Seq(WireMsg)]
  /\ sock \in [Peer -> {"none", "up", "reset", "eof", "closed"}]
  /\ inbox \in [Peer -> Seq({"config", "request"})]
  /\ backlog \in Seq(Peer)
  /\ acceptor \in [pc : {"accept", "init", "stopped"}, peer : Peer \cup {Nobody}]
  /\ handler \in [Peer -> {"none", "setup", "badcores", "config", "reading", "done",
                       "rejected"}]
  /\ workers \in [Peer -> {"none", "running", "told"}]
  /\ hand \in [Peer -> {"known", "foreign", "short", "none"}]
  /\ status \in {"running", "exited", "stopped"}

\* A node's first message from the master is its configuration, although its
\* workers run, and may have requests to send, before it goes out (server.go:171
\* starts them, connection.go:169 makes them wait).
ConfigFirst == \A p \in Peer : inbox[p] # <<>> => Head(inbox[p]) = "config"

\* The master ends by itself only over an address that nodeIDFromAddr cannot
\* parse, a node that went away between its init message and its configuration
\* (server.go:84), a number of cores that make() panics on (master.go:249), or an
\* answer to a request that is too short (tcp/evaler.go:56, infodb.go:81): no
\* refused set-up, no message that cannot be decoded or names a foreign element
\* and no other disconnection does it.  (What the analysis of the coverages makes
\* of it, and when that panics, is PanicNeedsThree of Analysis.)
EndHasACause ==
  status = "exited" =>
    \/ \E p \in V6 : node[p] # "away"
    \/ \E p \in Peer : node[p] = "left" /\ handler[p] = "config" /\ inbox[p] = <<>>
    \/ \E p \in Peer : handler[p] = "badcores"
    \/ \E p \in Peer :
         hand[p] = "short" /\ \E i \in 1..Len(inbox[p]) : inbox[p][i] = "request"

\* Workers are told of the end of the connection, and only then: while the
\* node is there and its messages are unread nobody closes their channels.
ToldAtTheEnd ==
  \A p \in Peer : workers[p] = "told" => node[p] = "left" /\ wire[p] = <<>>

Running == status = "running"

\* The accept loop waits for the first message of a node that sends none.
SilentHolds ==
  acceptor.pc = "init" /\ acceptor.peer \in Silent
  /\ node[acceptor.peer] = "connected"

Settled(p) == handler[p] \notin {"none", "setup", "badcores", "config"} \/ sock[p] = "closed"

\* Every node that connects is set up, refused or closed, whatever the others
\* do, as long as no silent one keeps the accept loop (server.go:57) and Accept
\* never failed, which ends the loop.
EveryNodeSettled ==
  []<>(~SilentHolds) =>
    \A p \in Peer :
      node[p] = "connected"
        ~> Settled(p) \/ ~Running \/ acceptor.pc = "stopped"

\* When a node that was set up goes away, in order or by a reset (server.go:106
\* reads on after the error), its workers learn of it, unless the reader is left
\* with a message that nobody takes (server.go:134).
LostNodeReported ==
  \A p \in Peer :
    \/ handler[p] = "reading" /\ node[p] = "left" ~> workers[p] = "told" \/ ~Running
    \/ <>[](hand[p] # "none")

=============================================================================
