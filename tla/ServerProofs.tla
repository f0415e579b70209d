---------------------------- MODULE ServerProofs ----------------------------
(***************************************************************************)
(* Theorems about the listening side of the master, for any number of      *)
(* connections, and about the framing of their messages.                   *)
(*                                                                         *)
(* The inductive invariant of Server follows a connection through the      *)
(* places it can be in: in the backlog or with the accept loop, once and   *)
(* without a goroutine; then with its goroutine, whose socket stays open   *)
(* until the node has its configuration.                                   *)
(*                                                                         *)
(* That of Framing remembers all bytes ever written and where in them each *)
(* message begins: the stream is what is left of them and the reader's     *)
(* buffer the part of one message before it.  Both are quantified over, so *)
(* that no function has to cut the stream into messages; that a length     *)
(* survives its encoding is proved about the digits.                       *)
(***************************************************************************)
EXTENDS Server, Framing, SequenceTheorems, WellFoundedInduction, TLAPS

Open == {"up", "reset", "eof"}

InBacklog(p) == \E i \in 1..Len(backlog) : backlog[i] = p

Accepted(p) == acceptor.pc = "init" /\ acceptor.peer = p

\* A connection that waits to be taken up is open and has no goroutine yet.
WaitingOK ==
  \A p \in Peer :
    InBacklog(p) \/ Accepted(p) => /\ node[p] # "away"
                                   /\ handler[p] = "none"
                                   /\ sock[p] \in Open

\* It waits in one place.
WaitsOnce ==
  /\ acceptor.pc = "init" => acceptor.peer \in Peer /\ ~InBacklog(acceptor.peer)
  /\ \A i, j \in 1..Len(backlog) : i # j => backlog[i] # backlog[j]

\* A node that has not come has no goroutine, and a broken socket means that
\* the node has gone.
SocketsOK ==
  \A p \in Peer :
    /\ node[p] = "away" => handler[p] = "none"
    /\ sock[p] \in {"reset", "eof"} => node[p] = "left"
    /\ status = "running" /\ handler[p] \in {"setup", "badcores", "config"} =>
         sock[p] \in Open

\* The master has written to a node exactly when its set-up is over.
InboxOK ==
  \A p \in Peer : inbox[p] # <<>> <=> handler[p] \in {"reading", "done"}

Payload == {"known", "undecodable", "foreign", "short"}

\* A node sends one init message, and nothing else before its configuration.
WireOK ==
  \A p \in Peer :
    /\ node[p] \in {"away", "connected"} => wire[p] = <<>> /\ handler[p] = "none"
    /\ handler[p] = "none" => Len(wire[p]) <= 1
    /\ handler[p] # "none" => \A i \in 1..Len(wire[p]) : wire[p][i] \in Payload

IInv ==
  /\ TypeOK
  /\ WireOK
  /\ WaitingOK
  /\ WaitsOnce
  /\ SocketsOK
  /\ InboxOK
  /\ ConfigFirst
  /\ EndHasACause
  /\ ToldAtTheEnd

-----------------------------------------------------------------------------
\* Before anybody connects the invariant holds.
LEMMA InitInv == Init => IInv
  <1> SUFFICES ASSUME Init PROVE IInv
    OBVIOUS
  <1> USE ServerAssumption DEF Init, Idle
  <1>1. TypeOK
    BY DEF TypeOK
  <1>2. WaitingOK /\ WaitsOnce /\ WireOK
    BY DEF WireOK, WaitingOK, WaitsOnce, InBacklog, Accepted
  <1>3. SocketsOK /\ InboxOK /\ ConfigFirst /\ EndHasACause /\ ToldAtTheEnd
    BY DEF SocketsOK, InboxOK, ConfigFirst, EndHasACause, ToldAtTheEnd
  <1> QED BY <1>1, <1>2, <1>3 DEF IInv

\* Who waits for the accept loop goes on doing so as long as nobody touches
\* the queue, the loop and the waiting connections.
LEMMA WaitingKept ==
  ASSUME WaitingOK, WaitsOnce, UNCHANGED <<backlog, acceptor>>,
         \A q \in Peer : InBacklog(q) \/ Accepted(q) =>
           node'[q] # "away" /\ handler'[q] = "none" /\ sock'[q] \in Open
  PROVE  WaitingOK' /\ WaitsOnce'
  BY DEF WaitingOK, WaitsOnce, InBacklog, Accepted

\* What a node does: it connects, and only then is in the backlog.
LEMMA NodeConnectsInv ==
  ASSUME IInv, NEW p \in Peer, NodeConnects(p)
  PROVE  IInv'
  <1> USE ServerAssumption DEF IInv, remote, NodeConnects
  <1>1. TypeOK'
    BY DEF TypeOK
  <1>2. /\ Len(backlog') = Len(backlog) + 1 /\ Len(backlog) \in Nat
        /\ \A i \in 1..Len(backlog) : backlog'[i] = backlog[i] /\ backlog[i] \in Peer
        /\ backlog'[Len(backlog) + 1] = p
    BY DEF TypeOK
  <1>3. ~InBacklog(p) /\ ~Accepted(p) /\ handler[p] = "none"
    BY DEF WaitingOK, SocketsOK
  <1>4. \A q \in Peer : InBacklog(q)' => InBacklog(q) \/ q = p
    BY <1>2 DEF InBacklog
  <1>5. WaitingOK'
    BY <1>3, <1>4 DEF TypeOK, WaitingOK, Accepted, Open
  <1>6. WaitsOnce'
    <2>1. acceptor.pc = "init" => acceptor.peer \in Peer /\ acceptor.peer # p
      BY <1>3 DEF WaitsOnce, Accepted
    <2>2. (acceptor.pc = "init" => acceptor.peer \in Peer /\ ~InBacklog(acceptor.peer))'
      BY <2>1, <1>4 DEF WaitsOnce
    <2>3. \A i, j \in 1..Len(backlog') : i # j => backlog'[i] # backlog'[j]
      BY <1>2, <1>3 DEF WaitsOnce, InBacklog
    <2> QED BY <2>2, <2>3 DEF WaitsOnce
  <1>7. SocketsOK'
    BY <1>3 DEF TypeOK, SocketsOK, Open
  <1>8. InboxOK' /\ ConfigFirst' /\ EndHasACause' /\ ToldAtTheEnd' /\ WireOK'
    BY DEF TypeOK, WireOK, InboxOK, ConfigFirst, EndHasACause, ToldAtTheEnd
  <1> QED BY <1>1, <1>5, <1>6, <1>7, <1>8

\* A node's messages and its end change nothing the accept loop goes by.
LEMMA NodeInv ==
  ASSUME IInv, NEW p \in Peer,
         \/ \E msg \in {"init", "bad", "badcores"} : NodeSendsInit(p, msg)
         \/ \E msg \in {"known", "undecodable", "foreign", "short"} : NodeSends(p, msg)
         \/ \E how \in {"eof", "reset"} : NodeLeaves(p, how)
  PROVE  IInv'
  <1> USE ServerAssumption DEF IInv, remote
  <1>1. CASE \E msg \in {"init", "bad", "badcores"} : NodeSendsInit(p, msg)
    <2>1. PICK msg \in {"init", "bad", "badcores"} : NodeSendsInit(p, msg)
      BY <1>1
    <2> USE <2>1 DEF NodeSendsInit
    <2>2. wire[p] = <<>> /\ handler[p] = "none"
      BY DEF WireOK
    <2>3. TypeOK'
      BY DEF TypeOK, WireMsg
    <2>4. WireOK'
      <3>1. Append(wire[p], msg) = <<msg>> /\ Len(Append(wire[p], msg)) = 1
        BY <2>2
      <3> QED BY <2>2, <3>1 DEF TypeOK, WireOK
    <2>5. WaitingOK' /\ WaitsOnce'
      <3>1. \A q \in Peer : node[q] # "away" => node'[q] # "away"
        BY DEF TypeOK
      <3> QED BY <3>1, WaitingKept DEF WaitingOK
    <2>6. SocketsOK' /\ InboxOK' /\ ConfigFirst' /\ EndHasACause' /\ ToldAtTheEnd'
      <3>1. SocketsOK'
        BY DEF TypeOK, SocketsOK
      <3>2. InboxOK' /\ ConfigFirst'
        BY DEF InboxOK, ConfigFirst
      <3>3. EndHasACause'
        BY DEF TypeOK, EndHasACause
      <3>4. ToldAtTheEnd'
        BY DEF TypeOK, ToldAtTheEnd
      <3> QED BY <3>1, <3>2, <3>3, <3>4
    <2> QED BY <2>3, <2>4, <2>5, <2>6
  <1>2. CASE \E msg \in {"known", "undecodable", "foreign", "short"} : NodeSends(p, msg)
    <2>1. PICK msg \in {"known", "undecodable", "foreign", "short"} : NodeSends(p, msg)
      BY <1>2
    <2> USE <2>1 DEF NodeSends
    <2>2. TypeOK'
      BY DEF TypeOK, WireMsg
    <2>3. WireOK'
      <3>1. handler[p] # "none" /\ wire[p] \in Seq(WireMsg)
        BY DEF InboxOK, TypeOK
      <3>2. \A i \in 1..Len(Append(wire[p], msg)) : Append(wire[p], msg)[i] \in Payload
        BY <3>1 DEF WireOK, Payload, WireMsg
      <3> QED BY <3>1, <3>2 DEF TypeOK, WireOK
    <2>4. WaitingOK' /\ WaitsOnce'
      <3>1. UNCHANGED <<node, sock, backlog, acceptor, handler>>
        OBVIOUS
      <3> QED BY <3>1, WaitingKept DEF WaitingOK
    <2>5. SocketsOK' /\ InboxOK' /\ ConfigFirst' /\ EndHasACause' /\ ToldAtTheEnd'
      <3>1. SocketsOK'
        BY DEF TypeOK, SocketsOK
      <3>2. InboxOK' /\ ConfigFirst'
        BY DEF InboxOK, ConfigFirst
      <3>3. EndHasACause'
        BY DEF TypeOK, EndHasACause
      <3>4. ToldAtTheEnd'
        BY DEF TypeOK, ToldAtTheEnd
      <3> QED BY <3>1, <3>2, <3>3, <3>4
    <2> QED BY <2>2, <2>3, <2>4, <2>5
  <1>3. CASE \E how \in {"eof", "reset"} : NodeLeaves(p, how)
    <2>0. PICK how \in {"eof", "reset"} : NodeLeaves(p, how)
      BY <1>3
    <2> USE <2>0 DEF NodeLeaves
    <2>1. TypeOK'
      BY DEF TypeOK
    <2>2. WaitingOK' /\ WaitsOnce'
      <3>1. \A q \in Peer : /\ node[q] # "away" => node'[q] # "away"
                            /\ sock[q] \in Open => sock'[q] \in Open
        BY DEF TypeOK, Open
      <3> QED BY <3>1, WaitingKept DEF WaitingOK
    <2>3. SocketsOK'
      BY DEF TypeOK, SocketsOK, Open
    <2>4. WireOK' /\ InboxOK' /\ ConfigFirst' /\ EndHasACause' /\ ToldAtTheEnd'
      BY DEF TypeOK, WireOK, InboxOK, ConfigFirst, EndHasACause, ToldAtTheEnd
    <2> QED BY <2>1, <2>2, <2>3, <2>4
  <1> QED BY <1>1, <1>2, <1>3

\* Accept takes the head of the backlog, which is nowhere else.
LEMMA AcceptInv ==
  ASSUME IInv, Accept
  PROVE  IInv'
  <1> USE ServerAssumption DEF IInv, remote, Accept, Idle
  <1> DEFINE p == Head(backlog)
  <1>1. /\ Len(backlog) \in Nat /\ Len(backlog) >= 1 /\ p = backlog[1] /\ p \in Peer
        /\ Len(backlog') = Len(backlog) - 1
        /\ \A i \in 1..Len(backlog') : backlog'[i] = backlog[i + 1]
    BY DEF TypeOK
  <1>2. InBacklog(p)
    BY <1>1 DEF InBacklog
  <1>3. \A q \in Peer : InBacklog(q)' => InBacklog(q) /\ q # p
    BY <1>1 DEF InBacklog, WaitsOnce
  <1>4. \A i, j \in 1..Len(backlog') : i # j => backlog'[i] # backlog'[j]
    BY <1>1 DEF WaitsOnce
  <1>5. TypeOK'
    BY <1>1 DEF TypeOK
  <1>6. WaitingOK'
    BY <1>1, <1>2, <1>3 DEF WaitingOK, Accepted
  <1>7. WaitsOnce'
    BY <1>1, <1>3, <1>4 DEF WaitsOnce
  <1>8. WireOK' /\ SocketsOK' /\ InboxOK' /\ ConfigFirst' /\ ToldAtTheEnd'
    BY DEF TypeOK, WireOK, SocketsOK, InboxOK, ConfigFirst, ToldAtTheEnd
  <1>9. EndHasACause'
    BY <1>1, <1>2 DEF EndHasACause, WaitingOK
  <1> QED BY <1>5, <1>6, <1>7, <1>8, <1>9

\* The accept loop hands the connection over or closes it, and forgets it.
LEMMA RecvInitInv ==
  ASSUME IInv, RecvInit
  PROVE  IInv'
  <1> USE ServerAssumption DEF IInv, remote, RecvInit, Idle
  <1> DEFINE p == acceptor.peer
  <1>1. p \in Peer /\ Accepted(p) /\ ~InBacklog(p) /\ node[p] # "away"
        /\ handler[p] = "none" /\ sock[p] \in Open
    BY DEF WaitsOnce, WaitingOK, Accepted
  <1>2. TypeOK' /\ WireOK'
    <2>1. CASE wire[p] # <<>>
      <3>1. Tail(wire[p]) \in Seq(WireMsg) /\ Tail(wire[p]) = <<>>
        BY <1>1, <2>1 DEF TypeOK, WireOK
      <3>2. wire' = [wire EXCEPT ![p] = Tail(wire[p])] /\ wire' \in [Peer -> Seq(WireMsg)]
        BY <1>1, <2>1, <3>1 DEF TypeOK
      <3>a. handler' \in [Peer -> {"none", "setup", "badcores", "config", "reading", "done",
                                "rejected"}]
            /\ sock' \in [Peer -> {"none", "up", "reset", "eof", "closed"}]
        <4>1. CASE Head(wire[p]) \in {"init", "badcores"}
          <5>1. \/ handler' = [handler EXCEPT ![p] = "setup"]
                \/ handler' = [handler EXCEPT ![p] = "badcores"]
            BY <2>1, <4>1
          <5>2. sock' = sock
            BY <2>1, <4>1
          <5> QED BY <1>1, <5>1, <5>2 DEF TypeOK
        <4>2. CASE Head(wire[p]) \notin {"init", "badcores"}
          <5>1. handler' = handler /\ sock' = [sock EXCEPT ![p] = "closed"]
            BY <2>1, <4>2
          <5> QED BY <1>1, <5>1 DEF TypeOK
        <4> QED BY <4>1, <4>2
      <3>b. acceptor' \in [pc : {"accept", "init", "stopped"}, peer : Peer \cup {Nobody}]
        OBVIOUS
      <3>c. UNCHANGED <<node, sent, inbox, backlog, workers, hand, status>>
        OBVIOUS
      <3>3. TypeOK'
        BY <3>2, <3>a, <3>b, <3>c DEF TypeOK
      <3>4. node[p] \notin {"away", "connected"}
        BY <1>1, <2>1 DEF WireOK
      <3>5. Len(wire'[p]) = 0 /\ wire'[p] = <<>>
        <4>1. wire'[p] = Tail(wire[p])
          BY <1>1, <3>2 DEF TypeOK
        <4>2. Len(<<>>) = 0
          OBVIOUS
        <4> QED BY <3>1, <4>1, <4>2
      <3>6. \A q \in Peer : q # p => handler'[q] = handler[q] /\ wire'[q] = wire[q]
        BY <1>1, <3>2 DEF TypeOK
      <3>7. WireOK'
        BY <1>1, <3>4, <3>5, <3>6 DEF WireOK
      <3> QED BY <3>3, <3>7
    <2>2. CASE wire[p] = <<>>
      <3>1. UNCHANGED <<wire, handler, node>>
        BY <2>2
      <3>a. sock' = [sock EXCEPT ![p] = "closed"] /\ acceptor' = Idle
            /\ UNCHANGED <<sent, inbox, backlog, workers, hand, status>>
        BY <2>2
      <3>b. acceptor' \in [pc : {"accept", "init", "stopped"}, peer : Peer \cup {Nobody}]
        BY <3>a
      <3>2. TypeOK'
        BY <1>1, <3>1, <3>a, <3>b DEF TypeOK
      <3> QED BY <3>1, <3>2 DEF WireOK
    <2> QED BY <2>1, <2>2
  <1>3. \A q \in Peer : q # p => handler'[q] = handler[q] /\ sock'[q] = sock[q]
    BY <1>1 DEF TypeOK
  <1>4. \A q \in Peer : InBacklog(q)' => InBacklog(q) /\ q # p
    BY <1>1 DEF InBacklog
  <1>5. WaitingOK' /\ WaitsOnce'
    BY <1>1, <1>3, <1>4 DEF WaitingOK, WaitsOnce, Accepted
  <1>6. SocketsOK'
    BY <1>1 DEF TypeOK, SocketsOK, Open
  <1>7. InboxOK' /\ ConfigFirst'
    BY <1>1 DEF TypeOK, InboxOK, ConfigFirst
  <1>8. EndHasACause' /\ ToldAtTheEnd'
    BY <1>1 DEF TypeOK, EndHasACause, ToldAtTheEnd
  <1> QED BY <1>2, <1>5, <1>6, <1>7, <1>8

\* The end of the accept loop, by an error or by the operator.
LEMMA LoopEndsInv ==
  ASSUME IInv, AcceptFails \/ Close
  PROVE  IInv'
  <1> USE ServerAssumption DEF IInv, remote, AcceptFails, Close
  <1>1. TypeOK'
    BY DEF TypeOK
  <1>2. WaitingOK' /\ WaitsOnce'
    BY DEF WaitingOK, WaitsOnce, InBacklog, Accepted
  <1>3. WireOK' /\ SocketsOK' /\ InboxOK' /\ ConfigFirst' /\ EndHasACause' /\ ToldAtTheEnd'
    BY DEF WireOK, SocketsOK, InboxOK, ConfigFirst, EndHasACause, ToldAtTheEnd
  <1> QED BY <1>1, <1>2, <1>3

\* A set-up that is refused.
LEMMA SetupRejectsInv ==
  ASSUME IInv, NEW p \in Peer, SetupRejects(p)
  PROVE  IInv'
  <1> USE ServerAssumption DEF IInv, remote, SetupRejects
  <1>1. ~InBacklog(p) /\ ~Accepted(p) /\ inbox[p] = <<>> /\ node[p] \notin {"away", "connected"}
    BY DEF WaitingOK, InboxOK, WireOK
  <1>2. TypeOK' /\ WireOK'
    BY DEF TypeOK, WireOK
  <1>3. WaitingOK' /\ WaitsOnce'
    <2>1. \A q \in Peer : q # p => handler'[q] = handler[q] /\ sock'[q] = sock[q]
      BY DEF TypeOK
    <2> QED BY <1>1, <2>1, WaitingKept DEF WaitingOK
  <1>4. SocketsOK'
    BY <1>1 DEF TypeOK, SocketsOK, Open
  <1>5. InboxOK' /\ ConfigFirst' /\ EndHasACause' /\ ToldAtTheEnd'
    BY <1>1 DEF TypeOK, InboxOK, ConfigFirst, EndHasACause, ToldAtTheEnd
  <1> QED BY <1>2, <1>3, <1>4, <1>5

\* The master ends over the cores of an init message.
LEMMA SetupPanicsInv ==
  ASSUME IInv, NEW p \in Peer, SetupPanics(p)
  PROVE  IInv'
  <1> USE ServerAssumption DEF IInv, remote, SetupPanics
  <1>1. TypeOK' /\ WireOK'
    BY DEF TypeOK, WireOK
  <1>2. WaitingOK' /\ WaitsOnce'
    BY WaitingKept DEF WaitingOK
  <1>3. SocketsOK' /\ InboxOK' /\ ConfigFirst' /\ ToldAtTheEnd'
    BY DEF SocketsOK, InboxOK, ConfigFirst, ToldAtTheEnd
  <1>4. EndHasACause'
    BY DEF EndHasACause
  <1> QED BY <1>1, <1>2, <1>3, <1>4

\* A set-up that starts workers.
LEMMA SetupStartsInv ==
  ASSUME IInv, NEW p \in Peer, SetupStarts(p)
  PROVE  IInv'
  <1> USE ServerAssumption DEF IInv, remote, SetupStarts
  <1>1. ~InBacklog(p) /\ ~Accepted(p) /\ inbox[p] = <<>> /\ node[p] \notin {"away", "connected"}
    BY DEF WaitingOK, InboxOK, WireOK
  <1>2. TypeOK' /\ WireOK'
    BY DEF TypeOK, WireOK
  <1>3. WaitingOK' /\ WaitsOnce'
    <2>1. \A q \in Peer : q # p => handler'[q] = handler[q]
      BY DEF TypeOK
    <2> QED BY <1>1, <2>1, WaitingKept DEF WaitingOK
  <1>4. SocketsOK'
    BY <1>1 DEF TypeOK, SocketsOK
  <1>5. InboxOK' /\ ConfigFirst' /\ EndHasACause' /\ ToldAtTheEnd'
    BY <1>1 DEF TypeOK, InboxOK, ConfigFirst, EndHasACause, ToldAtTheEnd
  <1> QED BY <1>2, <1>3, <1>4, <1>5

\* The configuration goes out, or the node has gone and the master ends.
LEMMA SetupSendsInv ==
  ASSUME IInv, NEW p \in Peer, NEW ok \in BOOLEAN, SetupSends(p, ok)
  PROVE  IInv'
  <1> USE ServerAssumption DEF IInv, remote
  <1>1. /\ handler[p] = "config" /\ status = "running" /\ ~InBacklog(p) /\ ~Accepted(p)
        /\ sock[p] \in Open /\ inbox[p] = <<>> /\ node[p] \notin {"away", "connected"}
        /\ UNCHANGED <<node, sent, wire, backlog, acceptor, workers, hand>>
    BY DEF SetupSends, WaitingOK, InboxOK, SocketsOK, WireOK
  <1>2. \A q \in Peer : q # p => handler'[q] = handler[q] /\ sock'[q] = sock[q]
    BY DEF TypeOK, SetupSends
  <1>3. WaitingOK' /\ WaitsOnce'
    BY <1>1, <1>2, WaitingKept DEF WaitingOK
  <1>4. CASE ok
    <2>1. /\ handler' = [handler EXCEPT ![p] = "reading"]
          /\ inbox' = [inbox EXCEPT ![p] = Append(inbox[p], "config")]
          /\ UNCHANGED <<status, sock>>
      BY <1>4 DEF SetupSends
    <2>2. Append(inbox[p], "config") = <<"config">>
      BY <1>1
    <2>3. TypeOK'
      BY <1>1, <2>1, <2>2 DEF TypeOK
    <2>4. WireOK' /\ SocketsOK'
      BY <1>1, <2>1 DEF TypeOK, WireOK, SocketsOK
    <2>5. InboxOK' /\ ConfigFirst'
      <3>1. <<"config">> # <<>> /\ Head(<<"config">>) = "config"
        OBVIOUS
      <3> QED BY <1>1, <2>1, <2>2, <3>1 DEF TypeOK, InboxOK, ConfigFirst
    <2>6. EndHasACause' /\ ToldAtTheEnd'
      BY <1>1, <2>1 DEF TypeOK, EndHasACause, ToldAtTheEnd
    <2> QED BY <1>3, <2>3, <2>4, <2>5, <2>6
  <1>5. CASE ~ok
    <2>1. /\ status' = "exited"
          /\ sock' = [sock EXCEPT ![p] = "closed"]
          /\ UNCHANGED <<handler, inbox>>
      BY <1>5 DEF SetupSends
    <2>2. node[p] = "left"
      BY <1>1, <1>5 DEF SetupSends, SocketsOK, Open
    <2>3. TypeOK' /\ WireOK'
      BY <1>1, <2>1 DEF TypeOK, WireOK
    <2>4. SocketsOK'
      BY <1>1, <2>1 DEF TypeOK, SocketsOK
    <2>5. InboxOK' /\ ConfigFirst' /\ ToldAtTheEnd'
      BY <1>1, <2>1 DEF InboxOK, ConfigFirst, ToldAtTheEnd
    <2>6. EndHasACause'
      BY <1>1, <2>1, <2>2 DEF EndHasACause
    <2> QED BY <1>3, <2>3, <2>4, <2>5, <2>6
  <1> QED BY <1>4, <1>5

\* The reader takes a message, which is not an init message.
LEMMA ReaderReadsInv ==
  ASSUME IInv, NEW p \in Peer, ReaderReads(p)
  PROVE  IInv'
  <1> USE ServerAssumption DEF IInv, remote, ReaderReads
  <1>1. /\ wire[p] \in Seq(WireMsg) /\ Len(wire[p]) >= 1 /\ Head(wire[p]) = wire[p][1]
        /\ Tail(wire[p]) \in Seq(WireMsg)
        /\ Len(Tail(wire[p])) = Len(wire[p]) - 1
        /\ \A i \in 1..Len(Tail(wire[p])) : Tail(wire[p])[i] = wire[p][i + 1]
    BY DEF TypeOK
  <1>2. \A i \in 1..Len(wire[p]) : wire[p][i] \in Payload
    BY DEF WireOK
  <1>3. Head(wire[p]) \in Payload /\ \A i \in 1..Len(Tail(wire[p])) : Tail(wire[p])[i] \in Payload
    BY <1>1, <1>2
  <1>4. node[p] \notin {"away", "connected"}
    BY DEF WireOK
  <1>5. TypeOK'
    BY <1>1, <1>3 DEF TypeOK, Payload
  <1>6. WireOK'
    BY <1>3, <1>4 DEF TypeOK, WireOK
  <1>7. WaitingOK' /\ WaitsOnce'
    BY WaitingKept DEF WaitingOK
  <1>8. SocketsOK' /\ InboxOK' /\ ConfigFirst' /\ EndHasACause'
    BY DEF SocketsOK, InboxOK, ConfigFirst, EndHasACause
  <1>9. ToldAtTheEnd'
    BY DEF TypeOK, ToldAtTheEnd
  <1> QED BY <1>5, <1>6, <1>7, <1>8, <1>9

\* The reader meets an error, or the end of the stream.
LEMMA ReaderEndsInv ==
  ASSUME IInv, NEW p \in Peer, ReaderFails(p) \/ ReaderCloses(p)
  PROVE  IInv'
  <1> USE ServerAssumption DEF IInv, remote
  <1>1. /\ handler[p] = "reading" /\ inbox[p] # <<>> /\ wire[p] = <<>> /\ node[p] = "left"
        /\ ~InBacklog(p) /\ ~Accepted(p)
    BY DEF ReaderFails, ReaderCloses, InboxOK, WaitingOK, SocketsOK
  <1>2. TypeOK' /\ WireOK'
    <2>1. CASE ReaderFails(p)
      BY <1>1, <2>1 DEF TypeOK, WireOK, ReaderFails
    <2>2. CASE ReaderCloses(p)
      BY <1>1, <2>2 DEF TypeOK, WireOK, ReaderCloses
    <2> QED BY <2>1, <2>2
  <1>3. WaitingOK' /\ WaitsOnce'
    <2>1. /\ UNCHANGED <<node, backlog, acceptor>>
          /\ \A q \in Peer : q # p => handler'[q] = handler[q] /\ sock'[q] = sock[q]
      BY DEF TypeOK, ReaderFails, ReaderCloses
    <2> QED BY <1>1, <2>1, WaitingKept DEF WaitingOK
  <1>4. SocketsOK'
    <2>1. CASE ReaderFails(p)
      BY <1>1, <2>1 DEF TypeOK, SocketsOK, Open, ReaderFails
    <2>2. CASE ReaderCloses(p)
      BY <1>1, <2>2 DEF TypeOK, SocketsOK, Open, ReaderCloses
    <2> QED BY <2>1, <2>2
  <1>5. InboxOK' /\ ConfigFirst'
    <2>1. CASE ReaderFails(p)
      BY <1>1, <2>1 DEF TypeOK, InboxOK, ConfigFirst, ReaderFails
    <2>2. CASE ReaderCloses(p)
      BY <1>1, <2>2 DEF TypeOK, InboxOK, ConfigFirst, ReaderCloses
    <2> QED BY <2>1, <2>2
  <1>6. EndHasACause' /\ ToldAtTheEnd'
    BY <1>1 DEF TypeOK, EndHasACause, ToldAtTheEnd, ReaderFails, ReaderCloses
  <1> QED BY <1>2, <1>3, <1>4, <1>5, <1>6

\* A worker takes what the reader holds.
LEMMA WorkerTakesInv ==
  ASSUME IInv, NEW p \in Peer, WorkerTakes(p)
  PROVE  IInv'
  <1> USE ServerAssumption DEF IInv, remote, WorkerTakes
  <1>1. TypeOK' /\ WireOK'
    BY DEF TypeOK, WireOK
  <1>2. WaitingOK' /\ WaitsOnce'
    BY WaitingKept DEF WaitingOK
  <1>3. SocketsOK' /\ InboxOK' /\ ConfigFirst' /\ EndHasACause' /\ ToldAtTheEnd'
    BY DEF SocketsOK, InboxOK, ConfigFirst, EndHasACause, ToldAtTheEnd
  <1> QED BY <1>1, <1>2, <1>3

\* The master ends over an answer.
LEMMA WorkerPanicsInv ==
  ASSUME IInv, NEW p \in Peer, WorkerPanics(p)
  PROVE  IInv'
  <1> USE ServerAssumption DEF IInv, remote, WorkerPanics
  <1>1. TypeOK' /\ WireOK'
    BY DEF TypeOK, WireOK
  <1>2. WaitingOK' /\ WaitsOnce'
    BY WaitingKept DEF WaitingOK
  <1>3. SocketsOK' /\ InboxOK' /\ ConfigFirst' /\ ToldAtTheEnd'
    BY DEF SocketsOK, InboxOK, ConfigFirst, ToldAtTheEnd
  <1>4. EndHasACause'
    BY DEF EndHasACause
  <1> QED BY <1>1, <1>2, <1>3, <1>4

\* A worker sends a request, after the configuration.
LEMMA WorkerSendsInv ==
  ASSUME IInv, NEW p \in Peer, WorkerSends(p)
  PROVE  IInv'
  <1> USE ServerAssumption DEF IInv, remote
  <1>1. /\ inbox' = [inbox EXCEPT ![p] = Append(inbox[p], "request")]
        /\ UNCHANGED <<node, sent, wire, sock, backlog, acceptor, handler, workers, hand, status>>
        /\ handler[p] \in {"reading", "done"}
    BY DEF WorkerSends, Established
  <1>2. inbox[p] \in Seq({"config", "request"}) /\ inbox[p] # <<>> /\ Head(inbox[p]) = "config"
    BY <1>1 DEF TypeOK, InboxOK, ConfigFirst
  <1>3. /\ Append(inbox[p], "request") \in Seq({"config", "request"})
        /\ Append(inbox[p], "request") # <<>>
        /\ Head(Append(inbox[p], "request")) = "config"
    BY <1>2
  <1>4. TypeOK' /\ WireOK'
    BY <1>1, <1>3 DEF TypeOK, WireOK
  <1>5. WaitingOK' /\ WaitsOnce'
    BY <1>1, WaitingKept DEF WaitingOK
  <1>6. InboxOK' /\ ConfigFirst'
    <2>1. inbox'[p] = Append(inbox[p], "request") /\ \A q \in Peer : q # p => inbox'[q] = inbox[q]
      BY <1>1 DEF TypeOK
    <2> QED BY <1>1, <1>3, <2>1 DEF InboxOK, ConfigFirst
  <1>7. SocketsOK' /\ ToldAtTheEnd'
    BY <1>1 DEF SocketsOK, ToldAtTheEnd
  <1>8. EndHasACause'
    BY <1>1 DEF TypeOK, EndHasACause
  <1> QED BY <1>4, <1>5, <1>6, <1>7, <1>8

\* No step of a node, of the accept loop or of a goroutine breaks the invariant.
LEMMA NextInv == IInv /\ [Next]_vars => IInv'
  <1> SUFFICES ASSUME IInv, [Next]_vars PROVE IInv'
    OBVIOUS
  <1>1. CASE UNCHANGED vars
    <2>1. WaitingOK' /\ WaitsOnce'
      BY <1>1, WaitingKept DEF IInv, WaitingOK, vars, remote
    <2>2. TypeOK' /\ WireOK' /\ SocketsOK' /\ InboxOK'
      BY <1>1 DEF IInv, vars, remote, TypeOK, WireOK, SocketsOK, InboxOK
    <2>3. ConfigFirst' /\ EndHasACause' /\ ToldAtTheEnd'
      BY <1>1 DEF IInv, vars, remote, ConfigFirst, EndHasACause, ToldAtTheEnd
    <2> QED BY <2>1, <2>2, <2>3 DEF IInv
  <1>2. CASE Next
    BY <1>2, NodeConnectsInv, NodeInv, AcceptInv, RecvInitInv, LoopEndsInv,
       SetupRejectsInv, SetupPanicsInv, SetupStartsInv, SetupSendsInv, ReaderReadsInv, ReaderEndsInv,
       WorkerTakesInv, WorkerPanicsInv, WorkerSendsInv DEF Next, HandlerStep
  <1> QED BY <1>1, <1>2

-----------------------------------------------------------------------------
\* Any number of connections: each is in one place at a time, and its socket,
\* its goroutine and its inbox agree on where.
THEOREM ServerInvariant == Spec => []IInv
  BY InitInv, NextInv, PTL DEF Spec

\* Type correctness; with it that the reader hands over only what it decoded.
THEOREM ServerTypeOK == Spec => []TypeOK
  <1>1. IInv => TypeOK
    BY DEF IInv
  <1> QED BY <1>1, ServerInvariant, PTL

\* spin (connection.go:169) keeps every worker's request behind the
\* configuration, although server.go:171 starts the workers first.
THEOREM ConfigurationComesFirst == Spec => []ConfigFirst
  <1>1. IInv => ConfigFirst
    BY DEF IInv
  <1> QED BY <1>1, ServerInvariant, PTL

\* The master ends by itself only over an IPv6 address, a node that left during
\* its set-up (server.go:84), an impossible number of cores (master.go:249) or an
\* answer to a request that is too short (tcp/evaler.go:56, infodb.go:81).
THEOREM OnlyTheseEndTheMaster == Spec => []EndHasACause
  <1>1. IInv => EndHasACause
    BY DEF IInv
  <1> QED BY <1>1, ServerInvariant, PTL

\* A reader closes the channels of its workers only when the node has gone and
\* everything it sent was read (server.go:95-105).
THEOREM ToldOnlyAtTheEnd == Spec => []ToldAtTheEnd
  <1>1. IInv => ToldAtTheEnd
    BY DEF IInv
  <1> QED BY <1>1, ServerInvariant, PTL

-----------------------------------------------------------------------------
(* Framing: the weights of the digits *)

\* A set of naturals has a least element.
LEMMA LeastOf ==
  ASSUME NEW T \in SUBSET Nat, T # {}
  PROVE  \E m \in T : \A k \in T : m <= k
<1> DEFINE R == OpToRel(<, Nat)
<1>1. IsWellFoundedOn(R, Nat)
  BY NatLessThanWellFounded
<1>2. \A x, y \in Nat : x < y => <<x, y>> \in R
  BY DEF OpToRel
<1> HIDE DEF R
<1>3. PICK x \in T : \A y \in T : ~ (<<y, x>> \in R)
  BY <1>1, WFMin
<1>4. ASSUME NEW y \in T PROVE ~(y < x)
  BY <1>2, <1>3
<1> QED
  BY <1>4

\* The weights there are: the recursion has a solution.
WeighsTo(w, n) == /\ w \in [0..n -> Nat \ {0}]
                  /\ w[0] = 1
                  /\ \A i \in 1..n : w[i] = Base * w[i - 1]

\* ... for every number of digits.
LEMMA WeightsExist ==
  ASSUME NEW n \in Nat
  PROVE  \E w : WeighsTo(w, n)
<1> USE FramingAssumption
<1> DEFINE T == {m \in Nat : ~\E w : WeighsTo(w, m)}
<1>1. SUFFICES ASSUME T # {} PROVE FALSE
  OBVIOUS
<1>2. PICK m \in T : \A k \in T : m <= k
  BY <1>1, LeastOf
<1>3. m # 0
  <2>1. WeighsTo([i \in 0..0 |-> 1], 0)
    BY DEF WeighsTo
  <2> QED BY <2>1
<1>4. m - 1 \in Nat /\ m - 1 \notin T
  BY <1>2, <1>3
<1>5. PICK w : WeighsTo(w, m - 1)
  BY <1>4
<1> DEFINE v == [i \in 0..m |-> IF i = m THEN Base * w[m - 1] ELSE w[i]]
<1>6. v \in [0..m -> Nat \ {0}]
  <2>1. ASSUME NEW x \in Nat \ {0} PROVE Base * x \in Nat \ {0}
    BY <2>1
  <2>2. ASSUME NEW i \in 0..m PROVE v[i] \in Nat \ {0}
    <3>1. w[m - 1] \in Nat \ {0} /\ (i # m => w[i] \in Nat \ {0})
      BY <1>4, <1>5 DEF WeighsTo
    <3> QED BY <3>1, <2>1
  <2> QED BY <2>2
<1>7. v[0] = 1
  BY <1>2, <1>3, <1>5 DEF WeighsTo
<1>8. ASSUME NEW i \in 1..m PROVE v[i] = Base * v[i - 1]
  <2>1. w[i] = Base * w[i - 1] \/ i = m
    BY <1>4, <1>5 DEF WeighsTo
  <2>2. i - 1 \in 0..m /\ i - 1 # m /\ i \in 0..m
    BY <1>2
  <2> QED BY <2>1, <2>2
<1>9. WeighsTo(v, m)
  BY <1>6, <1>7, <1>8 DEF WeighsTo
<1> QED
  BY <1>9

\* Weight is that solution.
LEMMA WeightIs == WeighsTo(Weight, HdrLen)
<1> USE FramingAssumption
<1> DEFINE Def(f) == f = [i \in 0..HdrLen |-> IF i = 0 THEN 1 ELSE Base * f[i - 1]]
<1>1. PICK w : WeighsTo(w, HdrLen)
  BY WeightsExist
<1>2. w = [i \in 0..HdrLen |-> IF i = 0 THEN 1 ELSE Base * w[i - 1]]
  <2>1. ASSUME NEW i \in 0..HdrLen PROVE w[i] = IF i = 0 THEN 1 ELSE Base * w[i - 1]
    BY <1>1 DEF WeighsTo
  <2>2. w = [i \in 0..HdrLen |-> w[i]]
    BY <1>1 DEF WeighsTo
  <2> QED BY <2>1, <2>2
<1>3. Weight = CHOOSE f : Def(f)
  BY DEF Weight
<1>4. Def(w)
  BY <1>2
<1>5. Def(Weight)
  <2> HIDE DEF Def
  <2> QED BY <1>3, <1>4
<1>6. \A i \in 0..HdrLen : Weight[i] = IF i = 0 THEN 1 ELSE Base * Weight[i - 1]
  BY <1>5
<1> HIDE DEF Def
<1> DEFINE T == {i \in 0..HdrLen : Weight[i] # w[i]}
<1>7. T = {}
  <2>1. SUFFICES ASSUME T # {} PROVE FALSE
    OBVIOUS
  <2>2. T \in SUBSET Nat
    OBVIOUS
  <2>3. PICK m \in T : \A k \in T : m <= k
    BY <2>1, <2>2, LeastOf
  <2>4. m # 0
    BY <1>1, <1>6, <2>3 DEF WeighsTo
  <2>5. m - 1 \in 0..HdrLen /\ m \in 1..HdrLen /\ ~(m <= m - 1)
    BY <2>3, <2>4
  <2>6. Weight[m - 1] = w[m - 1]
    BY <2>3, <2>5
  <2>7. Weight[m] = w[m]
    BY <1>1, <1>6, <2>5, <2>6 DEF WeighsTo
  <2> QED BY <2>3, <2>7
<1>8. Weight = [i \in 0..HdrLen |-> Weight[i]]
  BY <1>5 DEF Def
<1>9. w = [i \in 0..HdrLen |-> w[i]]
  BY <1>1 DEF WeighsTo
<1>10. Weight = w
  BY <1>7, <1>8, <1>9
<1> QED
  BY <1>1, <1>10

-----------------------------------------------------------------------------
(* Digits *)

\* Quotient and remainder ...
LEMMA DivideIs ==
  ASSUME NEW n \in Nat, NEW d \in Nat \ {0}
  PROVE  /\ n \div d \in Nat
         /\ n % d \in 0..d - 1
         /\ n = d * (n \div d) + (n % d)
<1>1. n \div d \in Nat
  OBVIOUS
<1>2. n % d \in 0..d - 1
  OBVIOUS
<1>3. n = d * (n \div d) + (n % d)
  <2>1. ASSUME NEW x \in Int, NEW y \in Int, y > 0
        PROVE  x = y * (x \div y) + (x % y)
    BY <2>1
  <2>2. n \in Int /\ d \in Int /\ d > 0
    OBVIOUS
  <2> QED BY <2>1, <2>2
<1> QED
  BY <1>1, <1>2, <1>3

\* ... are the only ones.
LEMMA QuotientIs ==
  ASSUME NEW d \in Nat \ {0}, NEW p \in Nat, NEW q \in Nat,
         NEW r \in 0..d - 1, NEW s \in 0..d - 1,
         d * p + r = d * q + s
  PROVE  p = q
<1>1. ASSUME NEW a \in Nat, NEW b \in Nat, a < b PROVE d * a + d <= d * b
  <2>1. PICK c \in Nat : b = a + 1 + c
    <3>1. b - a - 1 \in Nat /\ b = a + 1 + (b - a - 1)
      BY <1>1
    <3> QED BY <3>1
  <2>2. d * b = d * a + d + d * c
    BY <2>1
  <2>3. d * c \in Nat /\ d * a \in Nat
    OBVIOUS
  <2> QED BY <2>2, <2>3
<1>2. ~(p < q)
  <2>1. SUFFICES ASSUME p < q PROVE FALSE
    OBVIOUS
  <2>2. d * p + d <= d * q
    BY <1>1, <2>1
  <2>3. d * p \in Nat /\ d * q \in Nat
    OBVIOUS
  <2> QED BY <2>2, <2>3
<1>3. ~(q < p)
  <2>1. SUFFICES ASSUME q < p PROVE FALSE
    OBVIOUS
  <2>2. d * q + d <= d * p
    BY <1>1, <2>1
  <2>3. d * p \in Nat /\ d * q \in Nat
    OBVIOUS
  <2> QED BY <2>2, <2>3
<1> QED
  BY <1>2, <1>3

\* Dividing in two steps.
LEMMA DivideTwice ==
  ASSUME NEW n \in Nat, NEW a \in Nat \ {0}, NEW b \in Nat \ {0}
  PROVE  n \div (b * a) = (n \div a) \div b
<1> DEFINE q == n \div a
           p == q \div b
           t == q % b
           s == n % a
<1>1. q \in Nat /\ s \in 0..a - 1 /\ n = a * q + s
  BY DivideIs
<1>2. p \in Nat /\ t \in 0..b - 1 /\ q = b * p + t
  BY <1>1, DivideIs
<1>3. b * a \in Nat \ {0}
  OBVIOUS
<1>4. /\ n \div (b * a) \in Nat
      /\ n % (b * a) \in 0 .. b * a - 1
      /\ n = (b * a) * (n \div (b * a)) + (n % (b * a))
  BY <1>3, DivideIs
<1> HIDE DEF q, p, t, s
<1>5. n = (b * a) * p + (a * t + s)
  <2>1. a * q = a * (b * p) + a * t
    BY <1>2
  <2>2. a * (b * p) = (b * a) * p
    BY <1>2
  <2>3. a * t \in Nat /\ (b * a) * p \in Nat
    BY <1>2
  <2> QED BY <1>1, <2>1, <2>2, <2>3
<1>6. a * t + s \in 0 .. b * a - 1
  <2>1. a * t + a <= b * a
    <3>1. b = t + 1 + (b - 1 - t) /\ b - 1 - t \in Nat
      BY <1>2
    <3> DEFINE c == b - 1 - t
    <3>2. c \in Nat /\ b = t + 1 + c
      BY <3>1
    <3> HIDE DEF c
    <3>3. b * a = a * t + a + a * c
      BY <1>2, <3>2
    <3>4. a * c \in Nat /\ a * t \in Nat
      BY <1>2, <3>2
    <3> QED BY <3>3, <3>4
  <2>2. a * t \in Nat /\ b * a \in Nat
    BY <1>2
  <2> QED BY <1>1, <2>1, <2>2
<1> DEFINE d == b * a
           w == a * t + s
<1>7. n \div d = p
  <2>1. /\ d \in Nat \ {0} /\ n \div d \in Nat /\ n % d \in 0..d - 1
        /\ n = d * (n \div d) + (n % d)
        /\ w \in 0..d - 1 /\ n = d * p + w
    BY <1>3, <1>4, <1>5, <1>6
  <2> HIDE DEF d, w
  <2>2. d * (n \div d) + (n % d) = d * p + w
    BY <2>1
  <2> QED BY <1>2, <2>1, <2>2, QuotientIs
<1> QED
  BY <1>7 DEF p, q

\* Numbers that differ have different digits ...
LEMMA DigitsTellApart ==
  ASSUME NEW n \in 0 .. Weight[HdrLen] - 1, NEW m \in 0 .. Weight[HdrLen] - 1,
         Encode(n) = Encode(m)
  PROVE  n = m
<1> USE FramingAssumption
<1>1. WeighsTo(Weight, HdrLen)
  BY WeightIs
<1>2. \A i \in 0..HdrLen : Weight[i] \in Nat \ {0}
  BY <1>1 DEF WeighsTo
<1>3. n \in Nat /\ m \in Nat
  BY <1>2
<1> DEFINE Same(i) == n \div Weight[i] = m \div Weight[i]
<1>4. Same(HdrLen)
  <2>1. ASSUME NEW x \in 0 .. Weight[HdrLen] - 1 PROVE x \div Weight[HdrLen] = 0
    <3>1. Weight[HdrLen] \in Nat \ {0}
      BY <1>2
    <3> QED BY <3>1
  <2> QED BY <2>1
<1>5. ASSUME NEW i \in 0 .. HdrLen - 1, Same(i + 1) PROVE Same(i)
  <2>1. i \in 0..HdrLen /\ i + 1 \in 1..HdrLen /\ HdrLen - i \in 1..HdrLen
    OBVIOUS
  <2>2. Weight[i] \in Nat \ {0} /\ Weight[i + 1] = Base * Weight[i]
    <3>1. Weight[i + 1] = Base * Weight[(i + 1) - 1] /\ (i + 1) - 1 = i
      BY <1>1, <2>1 DEF WeighsTo
    <3> QED BY <1>2, <2>1, <3>1
  <2>3. (n \div Weight[i]) % Base = (m \div Weight[i]) % Base
    <3>1. ASSUME NEW x PROVE Encode(x)[HdrLen - i] = (x \div Weight[i]) % Base
      <4>1. HdrLen - (HdrLen - i) = i
        OBVIOUS
      <4> QED BY <2>1, <4>1 DEF Encode
    <3> QED BY <3>1
  <2>4. /\ n \div Weight[i + 1] = (n \div Weight[i]) \div Base
        /\ m \div Weight[i + 1] = (m \div Weight[i]) \div Base
    BY <1>3, <2>2, DivideTwice
  <2>5. ASSUME NEW x \in Nat, NEW y \in Nat, x % Base = y % Base,
               x \div Base = y \div Base
        PROVE  x = y
    <3>0. Base \in Nat \ {0}
      OBVIOUS
    <3>1. ASSUME NEW z \in Nat PROVE z = Base * (z \div Base) + (z % Base)
      BY <3>0, DivideIs
    <3>2. /\ x = Base * (x \div Base) + (x % Base)
          /\ y = Base * (y \div Base) + (y % Base)
      BY <3>1
    <3> QED BY <2>5, <3>2
  <2>6. n \div Weight[i] \in Nat /\ m \div Weight[i] \in Nat
    BY <1>3, <2>2, DivideIs
  <2> QED BY <1>5, <2>3, <2>4, <2>5, <2>6
<1> DEFINE T == {j \in 0..HdrLen : Same(HdrLen - j) = FALSE}
<1> HIDE DEF Same
<1>6. T = {}
  <2>1. SUFFICES ASSUME T # {} PROVE FALSE
    OBVIOUS
  <2>2. T \in SUBSET Nat
    OBVIOUS
  <2>3. PICK j \in T : \A k \in T : j <= k
    BY <2>1, <2>2, LeastOf
  <2>4. j # 0
    <3>1. HdrLen - 0 = HdrLen
      OBVIOUS
    <3> QED BY <1>4, <2>3, <3>1
  <2>5. j - 1 \in 0..HdrLen /\ ~(j <= j - 1) /\ HdrLen - j \in 0 .. HdrLen - 1
    BY <2>3, <2>4
  <2>6. Same(HdrLen - (j - 1)) # FALSE
    BY <2>3, <2>5
  <2>7. HdrLen - (j - 1) = (HdrLen - j) + 1
    BY <2>5
  <2>8. Same((HdrLen - j) + 1)
    <3>1. Same((HdrLen - j) + 1) # FALSE
      BY <2>6, <2>7
    <3> QED BY <3>1 DEF Same
  <2>9. Same(HdrLen - j)
    BY <1>5, <2>5, <2>8
  <2> QED BY <2>3, <2>9
<1>7. Same(0)
  <2>1. HdrLen \in 0..HdrLen /\ HdrLen - HdrLen = 0
    OBVIOUS
  <2>2. Same(0) # FALSE
    BY <1>6, <2>1
  <2> QED BY <2>2 DEF Same
<1>8. Weight[0] = 1
  BY <1>1 DEF WeighsTo
<1>9. \A x \in Nat : x \div 1 = x
  OBVIOUS
<1> QED
  BY <1>3, <1>7, <1>8, <1>9 DEF Same

\* ... so that a length survives its encoding.
LEMMA RoundTrip ==
  ASSUME NEW m \in Message
  PROVE  Decode(Encode(Len(m))) = Len(m)
<1> USE FramingAssumption
<1>1. Weight[HdrLen] \in Nat
  BY WeightIs DEF WeighsTo
<1>2. Len(m) \in 0 .. Weight[HdrLen] - 1
  BY <1>1
<1>3. /\ Decode(Encode(Len(m))) \in 0 .. Weight[HdrLen] - 1
      /\ Encode(Decode(Encode(Len(m)))) = Encode(Len(m))
  BY <1>2 DEF Decode
<1> QED
  BY <1>2, <1>3, DigitsTellApart

\* A length is written in HdrLen bytes.
LEMMA EncodeIs ==
  ASSUME NEW n \in Nat
  PROVE  Encode(n) \in Seq(Byte) /\ Len(Encode(n)) = HdrLen
<1> USE FramingAssumption
<1>1. ASSUME NEW i \in 1..HdrLen PROVE (n \div Weight[HdrLen - i]) % Base \in Byte
  <2>1. Weight[HdrLen - i] \in Nat \ {0}
    BY WeightIs DEF WeighsTo
  <2>2. n \div Weight[HdrLen - i] \in Nat
    BY <2>1, DivideIs
  <2>3. ASSUME NEW q \in Nat PROVE q % Base \in 0 .. Base - 1
    BY DivideIs
  <2> QED BY <2>2, <2>3 DEF Byte
<1>2. Encode(n) \in [1..HdrLen -> Byte]
  BY <1>1 DEF Encode
<1> QED
  BY <1>2, SeqDef, LenProperties

-----------------------------------------------------------------------------
(* The inductive invariant *)

\* What the sender still has to write.
Rest == IF unwritten = Nothing THEN <<>> ELSE unwritten

\* Whether the k-th message was written to its end.
Complete(k) == k < Len(handed) \/ unwritten = Nothing

FrameShape ==
  /\ handed \in Seq(Message)
  /\ unwritten # Nothing => Len(handed) > 0 /\ unwritten = handed[Len(handed)]
  /\ stream \in Seq(Byte)
  /\ ended \in BOOLEAN
  /\ exact \in BOOLEAN

\* The reader wants bytes until it has seen the end.
ReaderShape ==
  \/ /\ reader \in [pc : {"header", "body"}, buf : Seq(Byte), want : Nat]
     /\ Len(reader.buf) < reader.want
     /\ reader.pc = "header" => reader.want = HdrLen
  \/ reader = [pc |-> "closed", buf |-> <<>>, want |-> 0]

\* The receiver got the first of the messages.
Prefix ==
  /\ received \in Seq(Seq(Byte))
  /\ Len(received) <= Len(handed)
  /\ \A k \in 1..Len(received) : received[k] = handed[k]

\* All bytes ever written are those of the messages, one after the other: the
\* k-th message begins after off[k] of them.
Laid(all, off) ==
  /\ all \in Seq(Byte)
  /\ off \in [Nat -> Nat]
  /\ off[1] = 0
  /\ off[Len(handed) + 1] = Len(all) + Len(Rest)
  /\ \A k \in 1..Len(handed) :
       /\ off[k + 1] = off[k] + HdrLen + Len(handed[k])
       /\ off[k] + HdrLen <= Len(all)
       /\ \A i \in 1..HdrLen : all[off[k] + i] = Encode(Len(handed[k]))[i]
       /\ Complete(k) =>
            /\ off[k + 1] <= Len(all)
            /\ \A i \in 1..Len(handed[k]) : all[off[k] + HdrLen + i] = handed[k][i]

\* The stream holds the last of these bytes, and the reader has so far read
\* the first bytes of the length or of the body of its message.
Reached(all, off) ==
  LET k == Len(received) + 1
      past == Len(all) - Len(stream)
      done == Len(reader.buf)
  IN /\ past \in Nat
     /\ \A i \in 1..Len(stream) : stream[i] = all[past + i]
     /\ reader.pc = "header" =>
          /\ past = off[k] + done
          /\ \A i \in 1..done : reader.buf[i] = all[off[k] + i]
     /\ reader.pc = "body" =>
          /\ k <= Len(handed)
          /\ reader.want = Len(handed[k])
          /\ past = off[k] + HdrLen + done
          /\ \A i \in 1..done : reader.buf[i] = all[off[k] + HdrLen + i]

FrameInv ==
  /\ FrameShape
  /\ ReaderShape
  /\ Prefix
  /\ \E all, off : Laid(all, off) /\ Reached(all, off)

-----------------------------------------------------------------------------
\* A message is made of bytes and cannot be mistaken for Nothing.
LEMMA MessageIs ==
  ASSUME NEW m \in Message
  PROVE  m \in Seq(Byte) /\ m # Nothing /\ Len(m) \in Nat
<1>1. m \in Seq(Byte)
  BY FramingAssumption
<1>2. -1 \notin Byte
  BY FramingAssumption DEF Byte
<1>3. ASSUME m = Nothing PROVE FALSE
  <2>1. 1 \in DOMAIN m /\ m[1] = -1
    BY <1>3 DEF Nothing
  <2> QED BY <1>1, <1>2, <2>1
<1> QED
  BY <1>1, <1>3

\* At first nothing is written.
LEMMA FrameInitInv == FrameInit => FrameInv
<1> SUFFICES ASSUME FrameInit PROVE FrameInv
  OBVIOUS
<1> USE FramingAssumption DEF FrameInit
<1>1. FrameShape
  <2>1. handed \in Seq(Message) /\ stream \in Seq(Byte)
    BY EmptySeq
  <2>2. unwritten = Nothing /\ ended \in BOOLEAN /\ exact \in BOOLEAN
    OBVIOUS
  <2> QED BY <2>1, <2>2 DEF FrameShape
<1>2. ReaderShape
  BY DEF ReaderShape, WantsHeader
<1>3. Prefix
  BY DEF Prefix
<1> DEFINE off == [k \in Nat |-> 0]
<1>4. Laid(<<>>, off)
  BY DEF Laid, Rest
<1>5. Reached(<<>>, off)
  BY DEF Reached, WantsHeader
<1> QED
  BY <1>1, <1>2, <1>3, <1>4, <1>5 DEF FrameInv

-----------------------------------------------------------------------------
(* What is appended to the bytes and taken from them *)

\* Bytes behind bytes.
LEMMA ConcatIs ==
  ASSUME NEW s \in Seq(Byte), NEW t \in Seq(Byte)
  PROVE  /\ s \o t \in Seq(Byte)
         /\ Len(s \o t) = Len(s) + Len(t)
         /\ \A i \in 1..Len(s) : (s \o t)[i] = s[i]
         /\ \A i \in 1..Len(t) : (s \o t)[Len(s) + i] = t[i]
<1>1. /\ s \o t \in Seq(Byte)
      /\ Len(s \o t) = Len(s) + Len(t)
      /\ \A i \in 1 .. Len(s) + Len(t) :
           (s \o t)[i] = IF i <= Len(s) THEN s[i] ELSE t[i - Len(s)]
  BY ConcatProperties
<1>2. Len(s) \in Nat /\ Len(t) \in Nat
  BY LenProperties
<1> QED
  BY <1>1, <1>2

\* The i-th of b bytes that end where s of a bytes are left.
LEMMA InsideIs ==
  ASSUME NEW a \in Nat, NEW s \in Nat, NEW o \in Nat, NEW b \in Nat, NEW i \in 1..b,
         a - s = o + b
  PROVE  o + i \in 1..a
OBVIOUS

\* The i-th of b bytes that lie within a bytes.
LEMMA WithinIs ==
  ASSUME NEW a \in Nat, NEW o \in Nat, NEW b \in Nat, NEW i \in 1..b, o + b <= a
  PROVE  o + i \in 1..a
OBVIOUS

\* What a read returns ...
LEMMA TakenIs ==
  ASSUME stream \in Seq(Byte), NEW n \in 1..Len(stream)
  PROVE  /\ Taken(n) \in Seq(Byte)
         /\ Len(Taken(n)) = n
         /\ \A i \in 1..n : Taken(n)[i] = stream[i]
<1>1. Len(stream) \in Nat /\ \A i \in 1..Len(stream) : stream[i] \in Byte
  BY LenProperties, ElementOfSeq
<1>2. n \in Int /\ 1 \in Int /\ 1 <= n /\ \A i \in 1..n : stream[i] \in Byte
  BY <1>1
<1>3. /\ SubSeq(stream, 1, n) \in Seq(Byte)
      /\ Len(SubSeq(stream, 1, n)) = IF 1 <= n THEN n - 1 + 1 ELSE 0
      /\ \A i \in 1 .. n - 1 + 1 : SubSeq(stream, 1, n)[i] = stream[1 + i - 1]
  BY <1>2, SubSeqProperties
<1> QED
  BY <1>2, <1>3 DEF Taken

\* ... and what it leaves.
LEMMA LeftIs ==
  ASSUME stream \in Seq(Byte), NEW n \in 1..Len(stream)
  PROVE  LET left == SubSeq(stream, n + 1, Len(stream))
         IN /\ left \in Seq(Byte)
            /\ Len(left) = Len(stream) - n
            /\ \A i \in 1..Len(left) : left[i] = stream[n + i]
<1> DEFINE left == SubSeq(stream, n + 1, Len(stream))
<1>1. Len(stream) \in Nat /\ \A i \in 1..Len(stream) : stream[i] \in Byte
  BY LenProperties, ElementOfSeq
<1>2. /\ n + 1 \in Int /\ Len(stream) \in Int
      /\ \A i \in n + 1 .. Len(stream) : stream[i] \in Byte
  BY <1>1
<1>3. /\ left \in Seq(Byte)
      /\ Len(left) = IF n + 1 <= Len(stream) THEN Len(stream) - (n + 1) + 1 ELSE 0
      /\ \A i \in 1 .. Len(stream) - (n + 1) + 1 : left[i] = stream[(n + 1) + i - 1]
  BY <1>2, SubSeqProperties
<1> HIDE DEF left
<1>4. Len(left) = Len(stream) - n
  BY <1>1, <1>3
<1>5. \A i \in 1..Len(left) : left[i] = stream[n + i]
  <2>1. ASSUME NEW i \in 1..Len(left) PROVE left[i] = stream[n + i]
    <3>1. i \in 1 .. Len(stream) - (n + 1) + 1 /\ (n + 1) + i - 1 = n + i
      BY <1>1, <1>4
    <3> QED BY <1>3, <3>1
  <2> QED BY <2>1
<1> QED
  BY <1>3, <1>4, <1>5 DEF left

\* A reader always has a sequence of bytes.
LEMMA BufIs ==
  ASSUME ReaderShape
  PROVE  reader.buf \in Seq(Byte) /\ Len(reader.buf) \in Nat
<1>1. reader.buf \in Seq(Byte)
  <2>1. CASE reader \in [pc : {"header", "body"}, buf : Seq(Byte), want : Nat]
    BY <2>1
  <2>2. CASE reader = [pc |-> "closed", buf |-> <<>>, want |-> 0]
    <3>1. reader.buf = <<>>
      BY <2>2
    <3> QED BY <3>1, EmptySeq
  <2> QED BY <2>1, <2>2 DEF ReaderShape
<1> QED
  BY <1>1, LenProperties

\* A read goes on where the last one ended.
LEMMA GotIs ==
  ASSUME ReaderShape, stream \in Seq(Byte), NEW n \in 1..Len(stream),
         NEW all \in Seq(Byte), NEW from \in Nat,
         Len(all) - Len(stream) = from + Len(reader.buf),
         \A i \in 1..Len(stream) : stream[i] = all[(Len(all) - Len(stream)) + i],
         \A i \in 1..Len(reader.buf) : reader.buf[i] = all[from + i]
  PROVE  LET got == reader.buf \o Taken(n)
         IN /\ got \in Seq(Byte)
            /\ Len(got) = Len(reader.buf) + n
            /\ \A i \in 1..Len(got) : got[i] = all[from + i]
<1> DEFINE got == reader.buf \o Taken(n)
<1>1. PICK d \in Nat : d = Len(reader.buf)
  BY BufIs
<1>2. reader.buf \in Seq(Byte)
  BY BufIs
<1>3. /\ Taken(n) \in Seq(Byte)
      /\ Len(Taken(n)) = n
      /\ \A i \in 1..n : Taken(n)[i] = stream[i]
  BY TakenIs
<1>4. /\ got \in Seq(Byte)
      /\ Len(got) = d + n
      /\ \A i \in 1..d : got[i] = reader.buf[i]
      /\ \A i \in 1..n : got[d + i] = Taken(n)[i]
  <2>1. /\ got \in Seq(Byte)
        /\ Len(got) = Len(reader.buf) + Len(Taken(n))
        /\ \A i \in 1..Len(reader.buf) : got[i] = reader.buf[i]
        /\ \A i \in 1..Len(Taken(n)) : got[Len(reader.buf) + i] = Taken(n)[i]
    BY <1>2, <1>3, ConcatIs
  <2> HIDE DEF got
  <2> QED BY <1>1, <1>3, <2>1
<1> HIDE DEF got
<1>5. n \in Nat /\ Len(stream) \in Nat /\ n <= Len(stream)
  BY LenProperties
<1>6. ASSUME NEW i \in 1..Len(got) PROVE got[i] = all[from + i]
  <2>1. CASE i <= d
    <3>1. i \in 1..d
      BY <1>1, <1>4, <1>5, <2>1
    <3> QED BY <1>1, <1>4, <3>1
  <2>2. CASE ~(i <= d)
    <3>1. PICK j \in 1..n : i = d + j
      <4>1. i - d \in 1..n /\ i = d + (i - d)
        BY <1>1, <1>4, <1>5, <2>2
      <4> QED BY <4>1
    <3>2. j \in 1..Len(stream) /\ j \in Nat
      BY <1>5, <3>1
    <3>3. got[i] = all[(from + d) + j]
      <4>1. got[i] = stream[j]
        BY <1>3, <1>4, <3>1
      <4>2. stream[j] = all[(Len(all) - Len(stream)) + j]
        BY <3>2
      <4>3. Len(all) - Len(stream) = from + d
        BY <1>1
      <4> QED BY <4>1, <4>2, <4>3
    <3>4. (from + d) + j = from + i
      BY <1>1, <3>1, <3>2
    <3> QED BY <3>3, <3>4
  <2> QED BY <2>1, <2>2
<1> QED
  BY <1>1, <1>4, <1>6 DEF got

-----------------------------------------------------------------------------
(* Writing *)

\* SendMessage writes the length of its message behind what was written.
LEMMA WriteLengthInv ==
  ASSUME FrameInv, NEW m \in Message, WriteLength(m)
  PROVE  FrameInv'
<1>0. HdrLen \in Nat /\ HdrLen > 0
  BY FramingAssumption
<1> USE <1>0
<1>1. PICK all, off : Laid(all, off) /\ Reached(all, off)
  BY DEF FrameInv
<1>2. PICK L \in Nat : L = Len(handed)
  BY LenProperties DEF FrameInv, FrameShape
<1>3. m \in Seq(Byte) /\ m # Nothing /\ Len(m) \in Nat
  BY MessageIs
<1> DEFINE e == Encode(Len(m))
           more == all \o e
           next == [off EXCEPT ![L + 2] = off[L + 1] + HdrLen + Len(m)]
<1>4. e \in Seq(Byte) /\ Len(e) = HdrLen
  BY <1>3, EncodeIs
<1>5. /\ all \in Seq(Byte) /\ Len(all) \in Nat
      /\ off \in [Nat -> Nat]
      /\ stream \in Seq(Byte) /\ Len(stream) \in Nat
  BY <1>1, LenProperties DEF Laid, FrameInv, FrameShape
<1>6. /\ more \in Seq(Byte) /\ Len(more) = Len(all) + HdrLen
      /\ \A i \in 1..Len(all) : more[i] = all[i]
      /\ \A i \in 1..HdrLen : more[Len(all) + i] = e[i]
  BY <1>4, <1>5, ConcatIs
<1>7. /\ stream' \in Seq(Byte) /\ Len(stream') = Len(stream) + HdrLen
      /\ \A i \in 1..Len(stream) : stream'[i] = stream[i]
      /\ \A i \in 1..HdrLen : stream'[Len(stream) + i] = e[i]
  BY <1>4, <1>5, ConcatIs DEF WriteLength
<1> HIDE DEF e, more
<1>8. /\ handed' \in Seq(Message) /\ Len(handed') = L + 1
      /\ \A k \in 1..L : handed'[k] = handed[k]
      /\ handed'[L + 1] = m
  BY <1>2, AppendProperties DEF WriteLength, FrameInv, FrameShape
<1>9. /\ unwritten = Nothing /\ unwritten' = m
      /\ UNCHANGED <<ended, exact, reader, received>>
  BY DEF WriteLength
<1>10. FrameShape'
  BY <1>3, <1>7, <1>8, <1>9 DEF FrameShape, FrameInv
<1>11. ReaderShape'
  BY <1>9 DEF FrameInv, ReaderShape
<1>12. Len(received) \in Nat /\ Len(received) <= L
  BY <1>2, LenProperties DEF FrameInv, Prefix
<1>13. Prefix'
  <2>1. ASSUME NEW k \in 1..Len(received) PROVE received[k] = handed'[k]
    <3>1. k \in 1..L
      BY <1>12
    <3> QED BY <1>8, <3>1 DEF FrameInv, Prefix
  <2> QED BY <1>8, <1>9, <1>12, <2>1 DEF FrameInv, Prefix
<1>14. /\ next \in [Nat -> Nat]
       /\ \A k \in 1 .. L + 1 : next[k] = off[k]
       /\ next[L + 2] = off[L + 1] + HdrLen + Len(m)
  <2>1. L + 2 \in Nat /\ L + 1 \in Nat /\ L + 2 \notin 1 .. L + 1
    BY <1>2
  <2>2. off[L + 1] \in Nat
    BY <1>5, <2>1
  <2>3. Len(m) \in Nat
    BY <1>3
  <2>4. off[L + 1] + HdrLen + Len(m) \in Nat
    BY <2>2, <2>3
  <2>5. off \in [Nat -> Nat]
    BY <1>5
  <2>6. next \in [Nat -> Nat]
    BY <2>4, <2>5
  <2>7. \A k \in 1 .. L + 1 : next[k] = off[k]
    BY <2>1, <2>5
  <2>8. next[L + 2] = off[L + 1] + HdrLen + Len(m)
    BY <2>1, <2>5
  <2> QED BY <2>6, <2>7, <2>8
<1> HIDE DEF next
<1>15. off[L + 1] = Len(all)
  BY <1>1, <1>2, <1>5, <1>9 DEF Laid, Rest
<1>16. Laid(more, next)'
  <2>1. Rest' = m
    BY <1>3, <1>9 DEF Rest
  <2>2. next[L + 2] = Len(more) + Len(m)
    BY <1>3, <1>5, <1>6, <1>14, <1>15
  <2>3. next[1] = 0
    BY <1>1, <1>14 DEF Laid
  <2>4. ASSUME NEW k \in 1..L
        PROVE  /\ next[k + 1] = next[k] + HdrLen + Len(handed'[k])
               /\ next[k] + HdrLen <= Len(more)
               /\ \A i \in 1..HdrLen : more[next[k] + i] = Encode(Len(handed'[k]))[i]
               /\ next[k + 1] <= Len(more)
               /\ \A i \in 1..Len(handed'[k]) :
                    more[next[k] + HdrLen + i] = handed'[k][i]
    <3>1. /\ next[k] = off[k] /\ next[k + 1] = off[k + 1] /\ handed'[k] = handed[k]
          /\ off[k] \in Nat /\ off[k + 1] \in Nat
      <4>1. k \in 1 .. L + 1 /\ k + 1 \in 1 .. L + 1 /\ k \in Nat /\ k + 1 \in Nat
        BY <1>2
      <4> QED BY <1>5, <1>8, <1>14, <4>1
    <3>2. /\ off[k + 1] = off[k] + HdrLen + Len(handed[k])
          /\ off[k] + HdrLen <= Len(all)
          /\ \A i \in 1..HdrLen : all[off[k] + i] = Encode(Len(handed[k]))[i]
          /\ off[k + 1] <= Len(all)
          /\ \A i \in 1..Len(handed[k]) : all[off[k] + HdrLen + i] = handed[k][i]
      BY <1>1, <1>2, <1>9 DEF Laid, Complete
    <3>3. Len(handed[k]) \in Nat
      BY <1>2, MessageIs, ElementOfSeq DEF FrameInv, FrameShape
    <3>7. Len(all) \in Nat /\ off[k] + HdrLen <= Len(all)
      BY <1>5, <3>2
    <3>8. off[k] + HdrLen + Len(handed[k]) <= Len(all) /\ off[k + 1] <= Len(all)
      BY <1>5, <3>2
    <3>4. ASSUME NEW i \in 1..HdrLen
          PROVE  more[off[k] + i] = Encode(Len(handed[k]))[i]
      <4>1. off[k] + i \in 1..Len(all)
        BY <3>1, <3>7
      <4> QED BY <1>6, <3>2, <4>1
    <3>5. ASSUME NEW i \in 1..Len(handed[k])
          PROVE  more[off[k] + HdrLen + i] = handed[k][i]
      <4>1. off[k] + HdrLen + i \in 1..Len(all)
        <5>1. off[k] + HdrLen \in Nat
          BY <3>1
        <5> QED BY <3>3, <3>7, <3>8, <5>1, WithinIs
      <4> QED BY <1>6, <3>2, <4>1
    <3>6. off[k] + HdrLen <= Len(more) /\ off[k + 1] <= Len(more)
      <4>1. Len(more) = Len(all) + HdrLen
        BY <1>6
      <4> QED BY <3>1, <3>7, <3>8, <4>1
    <3> QED BY <3>1, <3>2, <3>4, <3>5, <3>6
  <2>5. /\ next[L + 2] = next[L + 1] + HdrLen + Len(m)
        /\ next[L + 1] + HdrLen <= Len(more)
        /\ \A i \in 1..HdrLen : more[next[L + 1] + i] = Encode(Len(m))[i]
    <3>1. next[L + 1] = Len(all)
      <4>1. L + 1 \in 1 .. L + 1
        BY <1>2
      <4> QED BY <1>14, <1>15, <4>1
    <3>2. Len(more) = Len(all) + HdrLen
      BY <1>6
    <3>3. next[L + 2] = next[L + 1] + HdrLen + Len(m)
      BY <1>14, <1>15, <3>1
    <3>4. next[L + 1] + HdrLen <= Len(more)
      <4>1. Len(all) \in Nat
        BY <1>5
      <4> QED BY <3>1, <3>2, <4>1
    <3>5. \A i \in 1..HdrLen : more[next[L + 1] + i] = Encode(Len(m))[i]
      BY <1>6, <3>1 DEF e
    <3> QED BY <3>3, <3>4, <3>5
  <2>6. ~Complete(L + 1)'
    BY <1>3, <1>8, <1>9 DEF Complete
  <2>7. ASSUME NEW k \in 1 .. L + 1
        PROVE  /\ next[k + 1] = next[k] + HdrLen + Len(handed'[k])
               /\ next[k] + HdrLen <= Len(more)
               /\ \A i \in 1..HdrLen : more[next[k] + i] = Encode(Len(handed'[k]))[i]
               /\ Complete(k)' =>
                    /\ next[k + 1] <= Len(more)
                    /\ \A i \in 1..Len(handed'[k]) :
                         more[next[k] + HdrLen + i] = handed'[k][i]
    <3>1. CASE k \in 1..L
      BY <2>4, <3>1
    <3>2. CASE k = L + 1
      <4>1. k + 1 = L + 2
        BY <3>2
      <4> QED BY <1>8, <2>5, <2>6, <3>2, <4>1
    <3>3. k \in 1..L \/ k = L + 1
      BY <1>2
    <3> QED BY <3>1, <3>2, <3>3
  <2>8. next[Len(handed') + 1] = Len(more) + Len(Rest')
    <3>1. Len(handed') + 1 = L + 2
      BY <1>8
    <3> QED BY <2>1, <2>2, <3>1
  <2> QED BY <1>6, <1>8, <1>14, <2>3, <2>7, <2>8 DEF Laid
<1>17. Reached(more, next)'
  <2>1. PICK k \in 1 .. L + 1 : k = Len(received) + 1
    BY <1>12
  <2>2. next[k] = off[k] /\ off[k] \in Nat
    <3>1. k \in Nat
      BY <1>2, <2>1
    <3> QED BY <1>5, <1>14, <2>1, <3>1
  <2>3. PICK past \in Nat : past = Len(all) - Len(stream)
    BY <1>1 DEF Reached
  <2>4. Len(more) - Len(stream') = past
    BY <1>5, <1>6, <1>7, <2>3
  <2>5. ASSUME NEW i \in 1..Len(stream') PROVE stream'[i] = more[past + i]
    <3>1. CASE i <= Len(stream)
      <4>1. i \in 1..Len(stream) /\ past + i \in 1..Len(all)
        BY <1>5, <1>7, <2>3, <3>1
      <4>2. stream[i] = all[past + i]
        BY <1>1, <2>3, <4>1 DEF Reached
      <4> QED BY <1>6, <1>7, <4>1, <4>2
    <3>2. CASE ~(i <= Len(stream))
      <4>1. PICK j \in 1..HdrLen : i = Len(stream) + j
        <5>1. i - Len(stream) \in 1..HdrLen /\ i = Len(stream) + (i - Len(stream))
          BY <1>5, <1>7, <3>2
        <5> QED BY <5>1
      <4>2. past + i = Len(all) + j
        BY <1>5, <2>3, <4>1
      <4> QED BY <1>6, <1>7, <4>1, <4>2
    <3> QED BY <3>1, <3>2
  <2>6. Len(reader.buf) \in Nat
    BY BufIs DEF FrameInv
  <2>7. ASSUME reader.pc = "header"
        PROVE  /\ past = next[k] + Len(reader.buf)
               /\ \A i \in 1..Len(reader.buf) : reader.buf[i] = more[next[k] + i]
    <3>1. /\ past = off[k] + Len(reader.buf)
          /\ \A i \in 1..Len(reader.buf) : reader.buf[i] = all[off[k] + i]
      BY <1>1, <2>1, <2>3, <2>7 DEF Reached
    <3>3. Len(all) \in Nat /\ Len(stream) \in Nat /\ past = off[k] + Len(reader.buf)
      BY <1>5, <3>1
    <3>2. ASSUME NEW i \in 1..Len(reader.buf) PROVE off[k] + i \in 1..Len(all)
      BY <2>2, <2>3, <2>6, <3>3
    <3> QED BY <1>6, <2>2, <3>1, <3>2
  <2>8. ASSUME reader.pc = "body"
        PROVE  /\ k <= L
               /\ reader.want = Len(handed[k])
               /\ past = next[k] + HdrLen + Len(reader.buf)
               /\ \A i \in 1..Len(reader.buf) :
                    reader.buf[i] = more[next[k] + HdrLen + i]
    <3>1. /\ k <= L
          /\ reader.want = Len(handed[k])
          /\ past = off[k] + HdrLen + Len(reader.buf)
          /\ \A i \in 1..Len(reader.buf) : reader.buf[i] = all[off[k] + HdrLen + i]
      BY <1>1, <1>2, <2>1, <2>3, <2>8 DEF Reached
    <3>3. /\ Len(all) \in Nat /\ Len(stream) \in Nat
          /\ past = off[k] + HdrLen + Len(reader.buf)
      BY <1>5, <3>1
    <3>4. Len(all) - Len(stream) = (off[k] + HdrLen) + Len(reader.buf)
      BY <2>3, <3>3
    <3>2. ASSUME NEW i \in 1..Len(reader.buf) PROVE off[k] + HdrLen + i \in 1..Len(all)
      <4>1. off[k] + HdrLen \in Nat
        BY <2>2
      <4> QED BY <2>6, <3>3, <3>4, <4>1, InsideIs
    <3> QED BY <1>6, <2>2, <3>1, <3>2
  <2>9. reader.pc = "body" => k <= Len(handed') /\ reader.want = Len(handed'[k])
    <3>1. reader.pc = "body" => k \in 1..L
      BY <2>8
    <3> QED BY <1>8, <2>8, <3>1
  <2> QED BY <1>9, <2>1, <2>3, <2>4, <2>5, <2>7, <2>8, <2>9 DEF Reached
<1> QED
  BY <1>10, <1>11, <1>13, <1>16, <1>17 DEF FrameInv

\* Then the message itself.
LEMMA WriteBodyInv ==
  ASSUME FrameInv, WriteBody
  PROVE  FrameInv'
<1>0. HdrLen \in Nat /\ HdrLen > 0
  BY FramingAssumption
<1> USE <1>0
<1>1. PICK all, off : Laid(all, off) /\ Reached(all, off)
  BY DEF FrameInv
<1>2. PICK L \in Nat : L = Len(handed)
  BY LenProperties DEF FrameInv, FrameShape
<1>3. /\ unwritten # Nothing /\ unwritten' = Nothing
      /\ UNCHANGED <<handed, ended, exact, reader, received>>
  BY DEF WriteBody
<1>4. L > 0 /\ unwritten = handed[L]
  BY <1>2, <1>3 DEF FrameInv, FrameShape
<1>5. PICK u : u = unwritten
  OBVIOUS
<1>6. u \in Seq(Byte) /\ Len(u) \in Nat
  <2>1. L \in 1..Len(handed)
    BY <1>2, <1>4
  <2>2. handed[L] \in Message
    BY <2>1, ElementOfSeq DEF FrameInv, FrameShape
  <2> QED BY <1>4, <1>5, <2>2, MessageIs
<1> DEFINE more == all \o u
<1>7. /\ all \in Seq(Byte) /\ Len(all) \in Nat
      /\ stream \in Seq(Byte) /\ Len(stream) \in Nat
  BY <1>1, LenProperties DEF Laid, FrameInv, FrameShape
<1>8. /\ more \in Seq(Byte) /\ Len(more) = Len(all) + Len(u)
      /\ \A i \in 1..Len(all) : more[i] = all[i]
      /\ \A i \in 1..Len(u) : more[Len(all) + i] = u[i]
  BY <1>6, <1>7, ConcatIs
<1>9. /\ stream' \in Seq(Byte) /\ Len(stream') = Len(stream) + Len(u)
      /\ \A i \in 1..Len(stream) : stream'[i] = stream[i]
      /\ \A i \in 1..Len(u) : stream'[Len(stream) + i] = u[i]
  BY <1>5, <1>6, <1>7, ConcatIs DEF WriteBody
<1> HIDE DEF more
<1>10. FrameShape'
  BY <1>3, <1>9 DEF FrameShape, FrameInv
<1>11. ReaderShape' /\ Prefix'
  BY <1>3 DEF FrameInv, ReaderShape, Prefix
<1>12. ASSUME NEW k \in 1..L
       PROVE  /\ off[k] \in Nat
              /\ Len(handed[k]) \in Nat
              /\ off[k + 1] = off[k] + HdrLen + Len(handed[k])
              /\ off[k] + HdrLen <= Len(all)
              /\ k < L => off[k + 1] <= Len(all)
  <2>1. k \in Nat /\ off \in [Nat -> Nat]
    <3>1. off \in [Nat -> Nat]
      BY <1>1 DEF Laid
    <3>2. k \in Nat
      BY <1>2
    <3> QED BY <3>1, <3>2
  <2>2. handed[k] \in Message
    BY <1>2, ElementOfSeq DEF FrameInv, FrameShape
  <2> QED BY <1>1, <1>2, <2>1, <2>2, MessageIs DEF Laid, Complete
<1>13. off[L + 1] = Len(more) /\ off[L] + HdrLen = Len(all)
  <2>1. off[L + 1] = Len(all) + Len(u)
    BY <1>1, <1>2, <1>3, <1>5 DEF Laid, Rest
  <2>2. L \in 1..L
    BY <1>2, <1>4
  <2>3. off[L + 1] = off[L] + HdrLen + Len(u) /\ off[L] \in Nat
    BY <1>4, <1>5, <1>12, <2>2
  <2> QED BY <1>6, <1>7, <1>8, <2>1, <2>3
<1>14. Laid(more, off)'
  <2>1. Rest' = <<>> /\ Len(Rest') = 0
    BY <1>3 DEF Rest
  <2>2. ASSUME NEW k \in 1..L
        PROVE  /\ off[k] + HdrLen <= Len(more)
               /\ \A i \in 1..HdrLen : more[off[k] + i] = Encode(Len(handed[k]))[i]
               /\ off[k + 1] <= Len(more)
               /\ \A i \in 1..Len(handed[k]) :
                    more[off[k] + HdrLen + i] = handed[k][i]
    <3>1. /\ off[k] \in Nat /\ Len(handed[k]) \in Nat
          /\ off[k + 1] = off[k] + HdrLen + Len(handed[k])
          /\ off[k] + HdrLen <= Len(all)
          /\ k < L => off[k + 1] <= Len(all)
      BY <1>12
    <3>2. ASSUME NEW i \in 1..HdrLen
          PROVE  more[off[k] + i] = Encode(Len(handed[k]))[i]
      <4>1. off[k] + i \in 1..Len(all)
        BY <1>7, <3>1
      <4>2. all[off[k] + i] = Encode(Len(handed[k]))[i]
        BY <1>1, <1>2 DEF Laid
      <4> QED BY <1>8, <4>1, <4>2
    <3>3. Len(more) = Len(all) + Len(u)
      BY <1>8
    <3>4. CASE k < L
      <4>1. Complete(k)
        BY <1>2, <3>4 DEF Complete
      <4>2. ASSUME NEW i \in 1..Len(handed[k])
            PROVE  more[off[k] + HdrLen + i] = handed[k][i]
        <5>1. off[k] + HdrLen + i \in 1..Len(all)
          <6>1. off[k] + HdrLen \in Nat /\ (off[k] + HdrLen) + Len(handed[k]) <= Len(all)
            BY <3>1, <3>4
          <6>2. Len(all) \in Nat
            BY <1>7
          <6> QED BY <3>1, <6>1, <6>2, WithinIs
        <5>2. all[off[k] + HdrLen + i] = handed[k][i]
          BY <1>1, <1>2, <4>1 DEF Laid
        <5> QED BY <1>8, <5>1, <5>2
      <4>3. off[k + 1] <= Len(more) /\ off[k] + HdrLen <= Len(more)
        <5>1. Len(u) \in Nat /\ Len(all) \in Nat
          BY <1>6, <1>7
        <5>2. off[k] + HdrLen <= Len(all) /\ off[k + 1] <= Len(all)
          BY <3>1, <3>4
        <5>3. off[k] + HdrLen \in Nat /\ off[k + 1] \in Nat
          BY <3>1
        <5> QED BY <3>3, <5>1, <5>2, <5>3
      <4> QED BY <3>2, <4>2, <4>3
    <3>5. CASE k = L
      <4>1. handed[k] = u /\ off[k] + HdrLen = Len(all) /\ off[k + 1] = Len(more)
        BY <1>4, <1>5, <1>13, <3>5
      <4>2. off[k + 1] <= Len(more) /\ off[k] + HdrLen <= Len(more)
        BY <1>6, <1>7, <3>3, <4>1
      <4>3. \A i \in 1..Len(handed[k]) : more[off[k] + HdrLen + i] = handed[k][i]
        BY <1>8, <4>1
      <4> QED BY <3>2, <4>2, <4>3
    <3>6. k < L \/ k = L
      BY <1>2
    <3> QED BY <3>4, <3>5, <3>6
  <2>3. off \in [Nat -> Nat] /\ off[1] = 0
    BY <1>1 DEF Laid
  <2>4. off[Len(handed') + 1] = Len(more) + Len(Rest')
    BY <1>2, <1>3, <1>6, <1>7, <1>8, <1>13, <2>1
  <2> QED BY <1>2, <1>3, <1>8, <1>12, <2>2, <2>3, <2>4 DEF Laid
<1>15. Reached(more, off)'
  <2>1. PICK k \in Nat : k = Len(received) + 1 /\ k \in 1 .. L + 1
    BY <1>2, LenProperties DEF FrameInv, Prefix
  <2>2. off[k] \in Nat
    BY <1>1, <2>1 DEF Laid
  <2>3. PICK past \in Nat : past = Len(all) - Len(stream)
    BY <1>1 DEF Reached
  <2>4. Len(more) - Len(stream') = past
    BY <1>6, <1>7, <1>8, <1>9, <2>3
  <2>5. ASSUME NEW i \in 1..Len(stream') PROVE stream'[i] = more[past + i]
    <3>1. CASE i <= Len(stream)
      <4>1. i \in 1..Len(stream) /\ past + i \in 1..Len(all)
        BY <1>6, <1>7, <1>9, <2>3, <3>1
      <4>2. stream[i] = all[past + i]
        BY <1>1, <2>3, <4>1 DEF Reached
      <4> QED BY <1>8, <1>9, <4>1, <4>2
    <3>2. CASE ~(i <= Len(stream))
      <4>1. PICK j \in 1..Len(u) : i = Len(stream) + j
        <5>1. i - Len(stream) \in 1..Len(u) /\ i = Len(stream) + (i - Len(stream))
          BY <1>6, <1>7, <1>9, <3>2
        <5> QED BY <5>1
      <4>2. past + i = Len(all) + j
        BY <1>7, <2>3, <4>1
      <4> QED BY <1>8, <1>9, <4>1, <4>2
    <3> QED BY <3>1, <3>2
  <2>6. Len(reader.buf) \in Nat
    BY BufIs DEF FrameInv
  <2>7. ASSUME reader.pc = "header"
        PROVE  /\ past = off[k] + Len(reader.buf)
               /\ \A i \in 1..Len(reader.buf) : reader.buf[i] = more[off[k] + i]
    <3>1. /\ past = off[k] + Len(reader.buf)
          /\ \A i \in 1..Len(reader.buf) : reader.buf[i] = all[off[k] + i]
      BY <1>1, <2>1, <2>3, <2>7 DEF Reached
    <3>2. Len(all) \in Nat /\ Len(stream) \in Nat /\ past = off[k] + Len(reader.buf)
      BY <1>7, <3>1
    <3>3. ASSUME NEW i \in 1..Len(reader.buf) PROVE off[k] + i \in 1..Len(all)
      BY <2>2, <2>3, <2>6, <3>2
    <3> QED BY <1>8, <3>1, <3>3
  <2>8. ASSUME reader.pc = "body"
        PROVE  /\ k <= L
               /\ reader.want = Len(handed[k])
               /\ past = off[k] + HdrLen + Len(reader.buf)
               /\ \A i \in 1..Len(reader.buf) :
                    reader.buf[i] = more[off[k] + HdrLen + i]
    <3>1. /\ k <= L
          /\ reader.want = Len(handed[k])
          /\ past = off[k] + HdrLen + Len(reader.buf)
          /\ \A i \in 1..Len(reader.buf) : reader.buf[i] = all[off[k] + HdrLen + i]
      BY <1>1, <1>2, <2>1, <2>3, <2>8 DEF Reached
    <3>2. /\ Len(all) \in Nat /\ Len(stream) \in Nat
          /\ past = off[k] + HdrLen + Len(reader.buf)
      BY <1>7, <3>1
    <3>4. Len(all) - Len(stream) = (off[k] + HdrLen) + Len(reader.buf)
      BY <2>3, <3>2
    <3>3. ASSUME NEW i \in 1..Len(reader.buf) PROVE off[k] + HdrLen + i \in 1..Len(all)
      <4>1. off[k] + HdrLen \in Nat
        BY <2>2
      <4> QED BY <2>6, <3>2, <3>4, <4>1, InsideIs
    <3> QED BY <1>8, <3>1, <3>3
  <2> QED BY <1>2, <1>3, <2>1, <2>3, <2>4, <2>5, <2>7, <2>8 DEF Reached
<1> QED
  BY <1>10, <1>11, <1>14, <1>15 DEF FrameInv

\* The sender ends: nothing moves.
LEMMA SenderEndsInv ==
  ASSUME FrameInv, SenderEnds
  PROVE  FrameInv'
<1>1. /\ ended' \in BOOLEAN
      /\ UNCHANGED <<handed, unwritten, stream, exact, reader, received>>
  BY DEF SenderEnds
<1>2. FrameShape' /\ ReaderShape' /\ Prefix'
  BY <1>1 DEF FrameInv, FrameShape, ReaderShape, Prefix
<1>3. PICK all, off : Laid(all, off) /\ Reached(all, off)
  BY DEF FrameInv
<1>4. Laid(all, off)' /\ Reached(all, off)'
  BY <1>1, <1>3 DEF Laid, Rest, Complete, Reached
<1> QED
  BY <1>2, <1>4 DEF FrameInv

-----------------------------------------------------------------------------
(* Reading *)

\* Arithmetic of positions.
LEMMA ShiftIs ==
  ASSUME NEW a \in Int, NEW s \in Int, NEW n \in Int
  PROVE  a - (s - n) = (a - s) + n
OBVIOUS

\* The sum does not depend on the order.
LEMMA SumIs ==
  ASSUME NEW a \in Int, NEW b \in Int, NEW c \in Int
  PROVE  (a + b) + c = a + (b + c)
OBVIOUS

\* The stream holds the last of all bytes.
Ahead(all) ==
  /\ all \in Seq(Byte)
  /\ stream \in Seq(Byte)
  /\ Len(all) - Len(stream) \in Nat
  /\ \A i \in 1..Len(stream) : stream[i] = all[(Len(all) - Len(stream)) + i]

\* A read takes the first of them.
LEMMA AdvanceIs ==
  ASSUME NEW all, Ahead(all), NEW n \in 1..Len(stream),
         stream' = SubSeq(stream, n + 1, Len(stream))
  PROVE  /\ Ahead(all)'
         /\ Len(all) - Len(stream') = (Len(all) - Len(stream)) + n
<1>1. /\ n \in Nat /\ n <= Len(stream) /\ Len(stream) \in Nat /\ Len(all) \in Nat
      /\ stream \in Seq(Byte)
  BY LenProperties DEF Ahead
<1>2. /\ stream' \in Seq(Byte)
      /\ Len(stream') = Len(stream) - n
      /\ \A i \in 1..Len(stream') : stream'[i] = stream[n + i]
  BY <1>1, LeftIs
<1>3. Len(stream') = Len(stream) - n
  BY <1>2
<1>4. Len(all) - Len(stream') = (Len(all) - Len(stream)) + n
  <2>1. Len(all) \in Int /\ Len(stream) \in Int /\ n \in Int
    BY <1>1
  <2>2. Len(all) - (Len(stream) - n) = (Len(all) - Len(stream)) + n
    BY <2>1, ShiftIs
  <2> QED BY <1>3, <2>2
<1>5. Len(all) - Len(stream) \in Nat
  BY DEF Ahead
<1>6. ASSUME NEW i \in 1..Len(stream')
      PROVE  stream'[i] = all[(Len(all) - Len(stream')) + i]
  <2>1. n + i \in 1..Len(stream) /\ i \in Nat
    BY <1>1, <1>3
  <2>2. stream'[i] = all[(Len(all) - Len(stream)) + (n + i)]
    BY <1>2, <2>1 DEF Ahead
  <2>3. (Len(all) - Len(stream)) + (n + i) = (Len(all) - Len(stream')) + i
    <3>1. n \in Int /\ i \in Int /\ Len(all) - Len(stream) \in Int
      BY <1>1, <1>5, <2>1
    <3>2. ((Len(all) - Len(stream)) + n) + i = (Len(all) - Len(stream)) + (n + i)
      BY <3>1, SumIs
    <3> QED BY <1>4, <3>2
  <2> QED BY <2>2, <2>3
<1>7. Len(all) - Len(stream') \in Nat
  BY <1>1, <1>4, <1>5
<1>8. all \in Seq(Byte)
  BY DEF Ahead
<1> QED
  BY <1>2, <1>4, <1>6, <1>7, <1>8 DEF Ahead

\* The message a reader with bytes to read is at: it was sent, and the reader
\* is in front of the bytes it lacks.
At(all, off, k) ==
  /\ k \in 1..Len(handed)
  /\ k = Len(received) + 1
  /\ handed[k] \in Message
  /\ off[k] \in Nat
  /\ off[k + 1] = off[k] + HdrLen + Len(handed[k])
  /\ Ahead(all)
  /\ \A i \in 1..HdrLen : all[off[k] + i] = Encode(Len(handed[k]))[i]

\* With bytes in the stream the reader is in the middle of a message.
LEMMA ReaderAt ==
  ASSUME FrameInv, NEW all, NEW off, Laid(all, off), Reached(all, off),
         reader.pc \in {"header", "body"}, Len(stream) > 0
  PROVE  \E k : At(all, off, k)
<1>0. HdrLen \in Nat /\ HdrLen > 0
  BY FramingAssumption
<1>1. PICK k \in Nat : k = Len(received) + 1 /\ k <= Len(handed) + 1
  BY LenProperties DEF FrameInv, Prefix, FrameShape
<1>2. Len(handed) \in Nat /\ Len(stream) \in Nat /\ Len(all) \in Nat
  BY LenProperties DEF FrameInv, FrameShape, Laid
<1>3. \A j \in Nat : off[j] \in Nat
  BY DEF Laid
<1>4. Len(reader.buf) \in Nat
  BY BufIs DEF FrameInv
<1>5. Len(Rest) \in Nat
  <2>1. CASE unwritten = Nothing
    BY <2>1 DEF Rest
  <2>2. CASE unwritten # Nothing
    <3>1. Len(handed) \in 1..Len(handed) /\ unwritten = handed[Len(handed)]
      BY <1>2, <2>2 DEF FrameInv, FrameShape
    <3>2. unwritten \in Message
      BY <3>1, ElementOfSeq DEF FrameInv, FrameShape
    <3> QED BY <2>2, <3>2, MessageIs DEF Rest
  <2> QED BY <2>1, <2>2
<1>6. k # Len(handed) + 1
  <2>1. SUFFICES ASSUME k = Len(handed) + 1 PROVE FALSE
    OBVIOUS
  <2>2. reader.pc = "header"
    <3>1. reader.pc = "body" => k <= Len(handed)
      BY <1>1 DEF Reached
    <3> QED BY <1>2, <2>1, <3>1
  <2>3. Len(all) - Len(stream) = off[k] + Len(reader.buf)
    BY <1>1, <2>2 DEF Reached
  <2>4. off[k] = Len(all) + Len(Rest)
    BY <2>1 DEF Laid
  <2>5. Len(all) - Len(stream) = (Len(all) + Len(Rest)) + Len(reader.buf)
    BY <2>3, <2>4
  <2>6. Len(stream) \in Nat /\ Len(stream) > 0 /\ Len(all) \in Nat
    BY <1>2
  <2>7. ASSUME NEW a \in Nat, NEW s \in Nat, NEW r \in Nat, NEW b \in Nat, s > 0,
               a - s = (a + r) + b
        PROVE  FALSE
    BY <2>7
  <2> QED BY <1>4, <1>5, <2>5, <2>6, <2>7
<1>7. k \in 1..Len(handed)
  <2>1. Len(received) \in Nat
    BY LenProperties DEF FrameInv, Prefix
  <2> QED BY <1>1, <1>2, <1>6, <2>1
<1>8. handed[k] \in Message
  BY <1>7, ElementOfSeq DEF FrameInv, FrameShape
<1>9. /\ off[k + 1] = off[k] + HdrLen + Len(handed[k])
      /\ \A i \in 1..HdrLen : all[off[k] + i] = Encode(Len(handed[k]))[i]
  BY <1>7 DEF Laid
<1>10. Ahead(all)
  BY DEF Ahead, Reached, Laid, FrameInv, FrameShape
<1> QED
  BY <1>1, <1>3, <1>7, <1>8, <1>9, <1>10 DEF At

\* A reader with its length so far: the next read makes it longer or complete.
LEMMA ReadHeaderInv ==
  ASSUME FrameInv, NEW n \in ReadSizes(reader.want - Len(reader.buf)), ReadHeader(n), ~cut'
  PROVE  /\ FrameInv'
         /\ received' = received \/ received' = Append(received, <<>>)
<1>0. HdrLen \in Nat /\ HdrLen > 0
  BY FramingAssumption
<1>1. PICK all, off : Laid(all, off) /\ Reached(all, off)
  BY DEF FrameInv
<1>2. /\ reader.pc = "header" /\ reader.want = HdrLen
      /\ Len(reader.buf) \in Nat /\ Len(reader.buf) < HdrLen
      /\ reader \in [pc : {"header", "body"}, buf : Seq(Byte), want : Nat]
  <2>1. reader.pc = "header"
    BY DEF ReadHeader
  <2>2. /\ reader \in [pc : {"header", "body"}, buf : Seq(Byte), want : Nat]
        /\ Len(reader.buf) < reader.want
        /\ reader.want = HdrLen
    BY <2>1 DEF FrameInv, ReaderShape
  <2> QED BY <2>1, <2>2, BufIs DEF FrameInv
<1>3. /\ stream \in Seq(Byte) /\ Len(stream) \in Nat
      /\ n \in 1..Len(stream) /\ n \in Nat
      /\ Len(reader.buf) + n <= HdrLen
  <2>1. stream \in Seq(Byte) /\ Len(stream) \in Nat
    BY LenProperties DEF FrameInv, FrameShape
  <2>2. n \in 1 .. (IF Len(stream) < HdrLen - Len(reader.buf)
                    THEN Len(stream) ELSE HdrLen - Len(reader.buf))
    BY <1>2 DEF ReadSizes
  <2> QED BY <1>0, <1>2, <2>1, <2>2
<1>4. PICK k : At(all, off, k)
  <2>1. Len(stream) > 0
    BY <1>3
  <2> QED BY <1>1, <1>2, <2>1, ReaderAt
<1>5. /\ k \in 1..Len(handed) /\ k \in Nat /\ k = Len(received) + 1
      /\ handed[k] \in Message /\ Len(handed[k]) \in Nat
      /\ off[k] \in Nat /\ off[k + 1] = off[k] + HdrLen + Len(handed[k])
      /\ Ahead(all)
  BY <1>4, MessageIs DEF At
<1>6. /\ UNCHANGED <<handed, unwritten, ended, exact>>
      /\ stream' = SubSeq(stream, n + 1, Len(stream))
  BY DEF ReadHeader
<1>7. Ahead(all)' /\ Len(all) - Len(stream') = (Len(all) - Len(stream)) + n
  BY <1>3, <1>5, <1>6, AdvanceIs
<1>8. Len(all) - Len(stream) = off[k] + Len(reader.buf)
  BY <1>1, <1>2, <1>5 DEF Reached
<1> DEFINE got == reader.buf \o Taken(n)
<1>9. /\ got \in Seq(Byte)
      /\ Len(got) = Len(reader.buf) + n
      /\ \A i \in 1..Len(got) : got[i] = all[off[k] + i]
  <2>1. /\ all \in Seq(Byte)
        /\ \A i \in 1..Len(stream) : stream[i] = all[(Len(all) - Len(stream)) + i]
    BY <1>5 DEF Ahead
  <2>2. \A i \in 1..Len(reader.buf) : reader.buf[i] = all[off[k] + i]
    BY <1>1, <1>2, <1>5 DEF Reached
  <2>3. ReaderShape
    BY DEF FrameInv
  <2> QED BY <1>3, <1>5, <1>8, <2>1, <2>2, <2>3, GotIs
<1>10. /\ HeaderAfter(n) = got
       /\ Len(got) <= HdrLen
  <2>1. CASE exact
    BY <1>0, <1>2, <1>3, <1>9, <2>1 DEF HeaderAfter
  <2>2. CASE ~exact
    <3>0. cut' = (cut \/ (~exact /\ n < HdrLen))
      BY DEF ReadHeader
    <3>a. ~(n < HdrLen)
      BY <2>2, <3>0, Zenon
    <3>1. n = HdrLen
      BY <1>0, <1>2, <1>3, <3>a
    <3>2. Len(got) = HdrLen
      BY <1>0, <1>2, <1>3, <1>9, <3>1
    <3>3. HeaderAfter(n) = got \o [i \in 1 .. HdrLen - HdrLen |-> 0]
      BY <2>2, <3>2 DEF HeaderAfter
    <3>4. [i \in 1 .. HdrLen - HdrLen |-> 0] = <<>>
      BY <1>0
    <3>5. got \o <<>> = got
      BY <1>9, ConcatEmptySeq
    <3>6. HeaderAfter(n) = got
      BY <3>3, <3>4, <3>5
    <3>7. Len(got) <= HdrLen
      BY <1>0, <3>2
    <3> QED BY <3>6, <3>7
  <2> QED BY <2>1, <2>2
<1> HIDE DEF got
<1>11. FrameShape'
  BY <1>6, <1>7 DEF Ahead, FrameInv, FrameShape
<1>12. Laid(all, off)'
  BY <1>1, <1>6 DEF Laid, Rest, Complete
<1>13. Len(got) \in Nat
  BY <1>9, LenProperties
<1>14. CASE Len(got) < HdrLen
  <2>1. reader' = [reader EXCEPT !.buf = got] /\ UNCHANGED received
    BY <1>10, <1>14 DEF ReadHeader
  <2>2. /\ reader'.pc = "header" /\ reader'.buf = got /\ reader'.want = HdrLen
        /\ reader' \in [pc : {"header", "body"}, buf : Seq(Byte), want : Nat]
    BY <1>2, <1>9, <2>1
  <2>3. ReaderShape'
    BY <1>14, <2>2 DEF ReaderShape
  <2>4. Prefix'
    BY <1>6, <2>1 DEF FrameInv, Prefix
  <2>5. Len(all) - Len(stream') = off[k] + Len(got)
    <3>1. Len(got) = Len(reader.buf) + n
      BY <1>9
    <3>2. off[k] \in Int /\ Len(reader.buf) \in Int /\ n \in Int
      BY <1>2, <1>3, <1>5
    <3>3. (off[k] + Len(reader.buf)) + n = off[k] + (Len(reader.buf) + n)
      BY <3>2, SumIs
    <3> QED BY <1>7, <1>8, <3>1, <3>3
  <2>6. Reached(all, off)'
    BY <1>5, <1>7, <1>9, <2>1, <2>2, <2>5 DEF Reached, Ahead
  <2> QED BY <1>11, <1>12, <2>1, <2>3, <2>4, <2>6 DEF FrameInv
<1>15. CASE ~(Len(got) < HdrLen)
  <2>1. Len(got) = HdrLen
    BY <1>0, <1>10, <1>13, <1>15
  <2>2. got = Encode(Len(handed[k]))
    <3>1. Encode(Len(handed[k])) \in Seq(Byte) /\ Len(Encode(Len(handed[k]))) = HdrLen
      BY <1>5, EncodeIs
    <3>2. \A i \in 1..Len(got) : got[i] = Encode(Len(handed[k]))[i]
      BY <1>4, <1>9, <2>1 DEF At
    <3> QED BY <1>9, <2>1, <3>1, <3>2, SeqEqual
  <2>3. Decode(got) = Len(handed[k])
    BY <1>5, <2>2, RoundTrip
  <2>4. Len(all) - Len(stream') = off[k] + HdrLen
    <3>1. HdrLen = Len(reader.buf) + n
      BY <1>9, <2>1
    <3>2. off[k] \in Int /\ Len(reader.buf) \in Int /\ n \in Int
      BY <1>2, <1>3, <1>5
    <3>3. (off[k] + Len(reader.buf)) + n = off[k] + (Len(reader.buf) + n)
      BY <3>2, SumIs
    <3> QED BY <1>7, <1>8, <3>1, <3>3
  <2>5. CASE Len(handed[k]) = 0
    <3>1. reader' = WantsHeader /\ received' = Append(received, <<>>)
      BY <1>10, <1>15, <2>3, <2>5 DEF ReadHeader
    <3>2. handed[k] = <<>>
      BY <1>5, <2>5, MessageIs, EmptySeq
    <3>3. /\ reader'.pc = "header" /\ reader'.buf = <<>> /\ reader'.want = HdrLen
          /\ reader' \in [pc : {"header", "body"}, buf : Seq(Byte), want : Nat]
          /\ Len(reader'.buf) = 0
      BY <1>0, <3>1, EmptySeq DEF WantsHeader
    <3>4. ReaderShape'
      BY <1>0, <3>3 DEF ReaderShape
    <3>5. Prefix' /\ Len(received') = k
      <4>1. /\ received \in Seq(Seq(Byte)) /\ <<>> \in Seq(Byte)
            /\ \A j \in 1..Len(received) : received[j] = handed[j]
        BY EmptySeq DEF FrameInv, Prefix
      <4>2. /\ received' \in Seq(Seq(Byte)) /\ Len(received') = Len(received) + 1
            /\ \A j \in 1..Len(received) : received'[j] = received[j]
            /\ received'[Len(received) + 1] = <<>>
        BY <3>1, <4>1, AppendProperties
      <4>3. Len(received) \in Nat /\ Len(received) + 1 = k
        BY <1>5, <4>1, LenProperties
      <4>4. ASSUME NEW j \in 1..k PROVE received'[j] = handed[j]
        <5>1. j \in 1..Len(received) \/ j = Len(received) + 1
          BY <4>3
        <5> QED BY <3>2, <4>1, <4>2, <4>3, <5>1
      <4>5. k <= Len(handed)
        BY <1>5, LenProperties DEF FrameInv, FrameShape
      <4> QED BY <1>6, <4>2, <4>3, <4>4, <4>5 DEF Prefix
    <3>6. off[k + 1] = off[k] + HdrLen
      BY <1>0, <1>5, <2>5
    <3>7. Len(all) - Len(stream') = off[k + 1] + Len(reader'.buf)
      BY <1>0, <1>5, <2>4, <3>3, <3>6
    <3>8. Reached(all, off)'
      BY <1>5, <1>7, <3>3, <3>5, <3>7 DEF Reached, Ahead
    <3> QED BY <1>11, <1>12, <3>1, <3>4, <3>5, <3>8 DEF FrameInv
  <2>6. CASE Len(handed[k]) # 0
    <3>1. /\ reader' = [pc |-> "body", buf |-> <<>>, want |-> Len(handed[k])]
          /\ UNCHANGED received
      BY <1>10, <1>15, <2>3, <2>6 DEF ReadHeader
    <3>2. /\ reader'.pc = "body" /\ reader'.buf = <<>> /\ reader'.want = Len(handed[k])
          /\ reader' \in [pc : {"header", "body"}, buf : Seq(Byte), want : Nat]
          /\ Len(reader'.buf) = 0
      BY <1>5, <3>1, EmptySeq
    <3>3. ReaderShape'
      BY <1>5, <2>6, <3>2 DEF ReaderShape
    <3>4. Prefix'
      BY <1>6, <3>1 DEF FrameInv, Prefix
    <3>5. k <= Len(handed)
      BY <1>5, LenProperties DEF FrameInv, FrameShape
    <3>6. Len(all) - Len(stream') = off[k] + HdrLen + Len(reader'.buf)
      BY <1>0, <1>5, <2>4, <3>2
    <3>7. Reached(all, off)'
      BY <1>5, <1>6, <1>7, <3>1, <3>2, <3>5, <3>6 DEF Reached, Ahead
    <3> QED BY <1>11, <1>12, <3>1, <3>3, <3>4, <3>7 DEF FrameInv
  <2> QED BY <2>5, <2>6
<1> QED
  BY <1>14, <1>15

\* A reader with its body so far: the next read makes it longer or whole.
LEMMA ReadBodyInv ==
  ASSUME FrameInv, NEW n \in ReadSizes(reader.want - Len(reader.buf)), ReadBody(n)
  PROVE  /\ FrameInv'
         /\ received' = received \/ \E x : received' = Append(received, x)
<1>0. HdrLen \in Nat /\ HdrLen > 0
  BY FramingAssumption
<1>1. PICK all, off : Laid(all, off) /\ Reached(all, off)
  BY DEF FrameInv
<1>2. /\ reader.pc = "body"
      /\ Len(reader.buf) \in Nat /\ reader.want \in Nat /\ Len(reader.buf) < reader.want
      /\ reader \in [pc : {"header", "body"}, buf : Seq(Byte), want : Nat]
  <2>1. reader.pc = "body"
    BY DEF ReadBody
  <2>2. /\ reader \in [pc : {"header", "body"}, buf : Seq(Byte), want : Nat]
        /\ Len(reader.buf) < reader.want
    BY <2>1 DEF FrameInv, ReaderShape
  <2> QED BY <2>1, <2>2, BufIs DEF FrameInv
<1>3. /\ stream \in Seq(Byte) /\ Len(stream) \in Nat
      /\ n \in 1..Len(stream) /\ n \in Nat
      /\ Len(reader.buf) + n <= reader.want
  <2>1. stream \in Seq(Byte) /\ Len(stream) \in Nat
    BY LenProperties DEF FrameInv, FrameShape
  <2>2. n \in 1 .. (IF Len(stream) < reader.want - Len(reader.buf)
                    THEN Len(stream) ELSE reader.want - Len(reader.buf))
    BY DEF ReadSizes
  <2> QED BY <1>2, <2>1, <2>2
<1>4. PICK k : At(all, off, k)
  <2>1. Len(stream) > 0
    BY <1>3
  <2> QED BY <1>1, <1>2, <2>1, ReaderAt
<1>5. /\ k \in 1..Len(handed) /\ k \in Nat /\ k = Len(received) + 1
      /\ handed[k] \in Message /\ Len(handed[k]) \in Nat
      /\ off[k] \in Nat /\ off[k + 1] = off[k] + HdrLen + Len(handed[k])
      /\ Ahead(all)
  BY <1>4, MessageIs DEF At
<1>6. /\ UNCHANGED <<handed, unwritten, ended, exact>>
      /\ stream' = SubSeq(stream, n + 1, Len(stream))
  BY DEF ReadBody
<1>7. Ahead(all)' /\ Len(all) - Len(stream') = (Len(all) - Len(stream)) + n
  BY <1>3, <1>5, <1>6, AdvanceIs
<1>8. /\ reader.want = Len(handed[k])
      /\ Len(all) - Len(stream) = (off[k] + HdrLen) + Len(reader.buf)
  BY <1>1, <1>2, <1>5 DEF Reached
<1> DEFINE got == reader.buf \o Taken(n)
<1>9. /\ got \in Seq(Byte)
      /\ Len(got) = Len(reader.buf) + n
      /\ \A i \in 1..Len(got) : got[i] = all[(off[k] + HdrLen) + i]
  <2>1. /\ all \in Seq(Byte)
        /\ \A i \in 1..Len(stream) : stream[i] = all[(Len(all) - Len(stream)) + i]
    BY <1>5 DEF Ahead
  <2>2. \A i \in 1..Len(reader.buf) : reader.buf[i] = all[(off[k] + HdrLen) + i]
    BY <1>1, <1>2, <1>5 DEF Reached
  <2>3. ReaderShape
    BY DEF FrameInv
  <2>4. PICK from \in Nat : from = off[k] + HdrLen
    BY <1>0, <1>5
  <2>5. /\ Len(all) - Len(stream) = from + Len(reader.buf)
        /\ \A i \in 1..Len(reader.buf) : reader.buf[i] = all[from + i]
    BY <1>8, <2>2, <2>4
  <2>6. /\ got \in Seq(Byte)
        /\ Len(got) = Len(reader.buf) + n
        /\ \A i \in 1..Len(got) : got[i] = all[from + i]
    <3>1. stream \in Seq(Byte) /\ n \in 1..Len(stream)
      BY <1>3
    <3> QED BY <2>1, <2>3, <2>4, <2>5, <3>1, GotIs
  <2> HIDE DEF got
  <2> QED BY <2>4, <2>6
<1> HIDE DEF got
<1>10. FrameShape'
  BY <1>6, <1>7 DEF Ahead, FrameInv, FrameShape
<1>11. Laid(all, off)'
  BY <1>1, <1>6 DEF Laid, Rest, Complete
<1>12. Len(got) \in Nat /\ Len(got) <= Len(handed[k])
  <2>1. Len(got) = Len(reader.buf) + n
    BY <1>9
  <2> QED BY <1>2, <1>3, <1>8, <2>1
<1>13. Len(all) - Len(stream') = (off[k] + HdrLen) + Len(got)
  <2>1. Len(got) = Len(reader.buf) + n
    BY <1>9
  <2>2. off[k] + HdrLen \in Int /\ Len(reader.buf) \in Int /\ n \in Int
    BY <1>0, <1>2, <1>3, <1>5
  <2>3. ((off[k] + HdrLen) + Len(reader.buf)) + n
          = (off[k] + HdrLen) + (Len(reader.buf) + n)
    BY <2>2, SumIs
  <2> QED BY <1>7, <1>8, <2>1, <2>3
<1>14. CASE Len(got) < reader.want
  <2>1. reader' = [reader EXCEPT !.buf = got] /\ UNCHANGED received
    BY <1>14 DEF ReadBody, got
  <2>2. /\ reader'.pc = "body" /\ reader'.buf = got /\ reader'.want = reader.want
        /\ reader' \in [pc : {"header", "body"}, buf : Seq(Byte), want : Nat]
    BY <1>2, <1>9, <2>1
  <2>3. ReaderShape'
    BY <1>14, <2>2 DEF ReaderShape
  <2>4. Prefix'
    BY <1>6, <2>1 DEF FrameInv, Prefix
  <2>5. k <= Len(handed)
    BY <1>5, LenProperties DEF FrameInv, FrameShape
  <2>6. Reached(all, off)'
    BY <1>5, <1>6, <1>7, <1>8, <1>9, <1>13, <2>1, <2>2, <2>5 DEF Reached, Ahead
  <2> QED BY <1>10, <1>11, <2>1, <2>3, <2>4, <2>6 DEF FrameInv
<1>15. CASE ~(Len(got) < reader.want)
  <2>1. Len(got) = Len(handed[k])
    BY <1>5, <1>8, <1>12, <1>15
  <2>2. reader' = WantsHeader /\ received' = Append(received, got)
    BY <1>15 DEF ReadBody, got
  <2>3. Complete(k)
    <3>1. SUFFICES ASSUME ~Complete(k) PROVE FALSE
      OBVIOUS
    <3>2. k = Len(handed) /\ unwritten # Nothing
      <4>1. Len(handed) \in Nat
        BY LenProperties DEF FrameInv, FrameShape
      <4> QED BY <1>5, <3>1, <4>1 DEF Complete
    <3>3. Rest = handed[k]
      BY <3>2 DEF Rest, FrameInv, FrameShape
    <3>4. off[k + 1] = Len(all) + Len(handed[k])
      BY <1>1, <3>2, <3>3 DEF Laid
    <3>5. Len(all) \in Nat
      BY <1>5, LenProperties DEF Ahead
    <3>6. ASSUME NEW a \in Nat, NEW s \in Nat, NEW b \in Nat, s > 0, a - s = a + b
          PROVE  FALSE
      BY <3>6
    <3>7. off[k] + HdrLen \in Nat /\ Len(stream) > 0
      <4>1. off[k] + HdrLen \in Nat
        BY <1>0, <1>5
      <4>2. Len(stream) > 0
        BY <1>3
      <4> QED BY <4>1, <4>2
    <3>8. (off[k] + HdrLen) + Len(handed[k]) = Len(all) + Len(handed[k])
      BY <1>5, <3>4
    <3>9. off[k] + HdrLen = Len(all)
      BY <1>5, <3>5, <3>7, <3>8
    <3>10. Len(all) - Len(stream) = Len(all) + Len(reader.buf)
      BY <1>8, <3>9
    <3> QED BY <1>2, <1>3, <3>5, <3>6, <3>7, <3>10
  <2>4. got = handed[k]
    <3>1. handed[k] \in Seq(Byte)
      BY <1>5, MessageIs
    <3>2. \A i \in 1..Len(handed[k]) : all[off[k] + HdrLen + i] = handed[k][i]
      BY <1>1, <1>5, <2>3 DEF Laid
    <3>3. \A i \in 1..Len(got) : got[i] = handed[k][i]
      BY <1>9, <2>1, <3>2
    <3> QED BY <1>9, <2>1, <3>1, <3>3, SeqEqual
  <2>5. /\ reader'.pc = "header" /\ reader'.buf = <<>> /\ reader'.want = HdrLen
        /\ reader' \in [pc : {"header", "body"}, buf : Seq(Byte), want : Nat]
        /\ Len(reader'.buf) = 0
    BY <1>0, <2>2, EmptySeq DEF WantsHeader
  <2>6. ReaderShape'
    BY <1>0, <2>5 DEF ReaderShape
  <2>7. Prefix' /\ Len(received') = k
    <3>1. /\ received \in Seq(Seq(Byte))
          /\ \A j \in 1..Len(received) : received[j] = handed[j]
      BY DEF FrameInv, Prefix
    <3>2. /\ received' \in Seq(Seq(Byte)) /\ Len(received') = Len(received) + 1
          /\ \A j \in 1..Len(received) : received'[j] = received[j]
          /\ received'[Len(received) + 1] = got
      BY <1>9, <2>2, <3>1, AppendProperties
    <3>3. Len(received) \in Nat /\ Len(received) + 1 = k
      BY <1>5, <3>1, LenProperties
    <3>4. ASSUME NEW j \in 1..k PROVE received'[j] = handed[j]
      <4>1. j \in 1..Len(received) \/ j = Len(received) + 1
        BY <3>3
      <4> QED BY <2>4, <3>1, <3>2, <3>3, <4>1
    <3>5. k <= Len(handed)
      BY <1>5, LenProperties DEF FrameInv, FrameShape
    <3> QED BY <1>6, <3>2, <3>3, <3>4, <3>5 DEF Prefix
  <2>8. Len(all) - Len(stream') = off[k + 1] + Len(reader'.buf)
    <3>1. off[k + 1] = (off[k] + HdrLen) + Len(got)
      BY <1>5, <2>1
    <3>2. off[k + 1] \in Nat
      BY <1>0, <1>5, <1>12, <3>1
    <3>3. Len(all) - Len(stream') = off[k + 1]
      BY <1>13, <3>1
    <3> QED BY <2>5, <3>2, <3>3
  <2>9. Reached(all, off)'
    BY <1>5, <1>7, <2>5, <2>7, <2>8 DEF Reached, Ahead
  <2> QED BY <1>10, <1>11, <2>2, <2>6, <2>7, <2>9 DEF FrameInv
<1> QED
  BY <1>14, <1>15

\* The reader has seen the end: what it has of a message is dropped.
LEMMA ReadEndInv ==
  ASSUME FrameInv, ReadEnd
  PROVE  FrameInv'
<1>1. /\ reader' = [pc |-> "closed", buf |-> <<>>, want |-> 0]
      /\ UNCHANGED <<handed, unwritten, stream, ended, exact, received>>
  BY DEF ReadEnd
<1>2. FrameShape' /\ ReaderShape' /\ Prefix'
  BY <1>1 DEF FrameInv, FrameShape, ReaderShape, Prefix
<1>3. PICK all, off : Laid(all, off) /\ Reached(all, off)
  BY DEF FrameInv
<1>4. reader'.pc # "header" /\ reader'.pc # "body"
  BY <1>1
<1>5. Laid(all, off)' /\ Reached(all, off)'
  BY <1>1, <1>3, <1>4 DEF Laid, Rest, Complete, Reached
<1> QED
  BY <1>2, <1>5 DEF FrameInv

-----------------------------------------------------------------------------
(* The queue *)

\* Every step keeps the invariant, unless it cuts a length.
LEMMA FrameNextInv ==
  FrameInv /\ [FrameNext]_framevars /\ ~cut' => FrameInv'
<1> SUFFICES ASSUME FrameInv, [FrameNext]_framevars, ~cut' PROVE FrameInv'
  OBVIOUS
<1>1. ASSUME NEW m \in Message, WriteLength(m) PROVE FrameInv'
  BY <1>1, WriteLengthInv
<1>2. CASE WriteBody
  BY <1>2, WriteBodyInv
<1>3. CASE SenderEnds
  BY <1>3, SenderEndsInv
<1>4. ASSUME NEW n \in ReadSizes(reader.want - Len(reader.buf)), ReadHeader(n)
      PROVE  FrameInv'
  BY <1>4, ReadHeaderInv
<1>5. ASSUME NEW n \in ReadSizes(reader.want - Len(reader.buf)), ReadBody(n)
      PROVE  FrameInv'
  BY <1>5, ReadBodyInv
<1>6. CASE ReadEnd
  BY <1>6, ReadEndInv
<1>7. CASE UNCHANGED framevars
  <2>1. UNCHANGED <<handed, unwritten, stream, ended, exact, reader, received>>
    BY <1>7 DEF framevars
  <2>2. FrameShape' /\ ReaderShape' /\ Prefix'
    BY <2>1 DEF FrameInv, FrameShape, ReaderShape, Prefix
  <2>3. PICK all, off : Laid(all, off) /\ Reached(all, off)
    BY DEF FrameInv
  <2>4. Laid(all, off)' /\ Reached(all, off)'
    BY <2>1, <2>3 DEF Laid, Rest, Complete, Reached
  <2> QED BY <2>2, <2>4 DEF FrameInv
<1> QED
  BY <1>1, <1>2, <1>3, <1>4, <1>5, <1>6, <1>7 DEF FrameNext, Read

\* A message that comes out is the next of those that went in.
LEMMA ReceiveIs ==
  ASSUME FrameInv, FrameInv', NEW x, received' = Append(received, x),
         UNCHANGED <<handed, (reader.pc # "closed")>>, reader.pc # "closed"
  PROVE  Queue!Receive
<1>1. /\ received \in Seq(Seq(Byte)) /\ received' \in Seq(Seq(Byte))
      /\ Len(received') <= Len(handed)
      /\ \A j \in 1..Len(received') : received'[j] = handed[j]
  BY DEF FrameInv, Prefix
<1>2. Len(received') = Len(received) + 1 /\ received'[Len(received) + 1] = x
  <2>1. received \in Seq(Seq(Byte) \cup {x}) /\ x \in Seq(Byte) \cup {x}
    BY <1>1
  <2> QED BY <2>1, AppendProperties
<1>3. Len(received) \in Nat /\ Len(handed) \in Nat
  BY <1>1, LenProperties DEF FrameInv, FrameShape
<1>4. Len(received) < Len(handed)
  BY <1>1, <1>2, <1>3
<1>5. x = handed[Len(received) + 1]
  <2>1. Len(received) + 1 \in 1..Len(received')
    BY <1>2, <1>3
  <2> QED BY <1>1, <1>2, <2>1
<1> QED
  BY <1>4, <1>5 DEF Queue!Receive

\* What a step does, seen from the queue.
LEMMA FrameStep ==
  ASSUME FrameInv, FrameInv', [FrameNext]_framevars, ~cut'
  PROVE  [Queue!Next]_(Queue!vars)
<1>1. ASSUME NEW m \in Message, WriteLength(m) PROVE Queue!Send(m)
  BY <1>1 DEF WriteLength, Queue!Send
<1>2. CASE WriteBody
  BY <1>2 DEF WriteBody, Queue!vars
<1>3. CASE SenderEnds
  BY <1>3 DEF SenderEnds, Queue!vars
<1>4. ASSUME NEW n \in ReadSizes(reader.want - Len(reader.buf)), ReadHeader(n)
      PROVE  Queue!Receive \/ UNCHANGED Queue!vars
  <2>1. received' = received \/ received' = Append(received, <<>>)
    BY <1>4, ReadHeaderInv
  <2>2. UNCHANGED handed /\ reader.pc = "header" /\ reader'.pc # "closed"
    <3>1. reader \in [pc : {"header", "body"}, buf : Seq(Byte), want : Nat]
      BY <1>4 DEF ReadHeader, FrameInv, ReaderShape
    <3> QED BY <1>4, <3>1 DEF ReadHeader, WantsHeader
  <2> QED BY <2>1, <2>2, ReceiveIs DEF Queue!vars
<1>5. ASSUME NEW n \in ReadSizes(reader.want - Len(reader.buf)), ReadBody(n)
      PROVE  Queue!Receive \/ UNCHANGED Queue!vars
  <2>1. received' = received \/ \E x : received' = Append(received, x)
    BY <1>5, ReadBodyInv
  <2>2. UNCHANGED handed /\ reader.pc = "body" /\ reader'.pc # "closed"
    <3>1. reader \in [pc : {"header", "body"}, buf : Seq(Byte), want : Nat]
      BY <1>5 DEF ReadBody, FrameInv, ReaderShape
    <3> QED BY <1>5, <3>1 DEF ReadBody, WantsHeader
  <2> QED BY <2>1, <2>2, ReceiveIs DEF Queue!vars
<1>6. CASE ReadEnd
  <2>1. reader'.pc = "closed" /\ UNCHANGED <<handed, received>>
    BY <1>6 DEF ReadEnd
  <2>2. (reader'.pc # "closed") = FALSE
    BY <2>1
  <2>3. Queue!End
    BY <2>1, <2>2 DEF Queue!End
  <2> QED BY <2>3 DEF Queue!Next
<1>7. CASE UNCHANGED framevars
  BY <1>7 DEF framevars, Queue!vars
<1> QED
  BY <1>1, <1>2, <1>3, <1>4, <1>5, <1>6, <1>7 DEF FrameNext, Read, Queue!Next

\* Only a receiver with a single Read cuts a length, and what is cut stays cut.
LEMMA FrameCut ==
  (cut => ~exact) /\ [FrameNext]_framevars => (cut' => ~exact') /\ (cut => cut')
<1> SUFFICES ASSUME cut => ~exact, [FrameNext]_framevars
             PROVE  (cut' => ~exact') /\ (cut => cut')
  OBVIOUS
<1>1. UNCHANGED exact
  BY DEF FrameNext, framevars, WriteLength, WriteBody, SenderEnds, Read, ReadHeader,
         ReadBody, ReadEnd
<1>2. UNCHANGED cut \/ \E n : cut' = (cut \/ (~exact /\ n < HdrLen))
  BY DEF FrameNext, framevars, WriteLength, WriteBody, SenderEnds, Read, ReadHeader,
         ReadBody, ReadEnd
<1>3. CASE UNCHANGED cut
  BY <1>1, <1>3, Zenon
<1>4. ASSUME NEW n, cut' = (cut \/ (~exact /\ n < HdrLen))
      PROVE  (cut' => ~exact') /\ (cut => cut')
  <2>1. cut' => cut \/ ~exact
    BY <1>4, Zenon
  <2>2. cut => cut'
    BY <1>4, Zenon
  <2>3. exact' => exact
    BY <1>1, Zenon
  <2> QED BY <2>1, <2>2, <2>3
<1> QED
  BY <1>2, <1>3, <1>4, Zenon

\* Until a length is cut the bytes of a connection are the messages that were
\* sent, one after the other, and the reader is where it believes to be.
FrameUntilCut == IF cut THEN ~exact ELSE FrameInv

THEOREM FramingInvariant == FrameSpec => []FrameUntilCut
<1>1. FrameInit => FrameUntilCut
  BY FrameInitInv DEF FrameInit, FrameUntilCut
<1>2. FrameUntilCut /\ [FrameNext]_framevars => FrameUntilCut'
  BY FrameCut, FrameNextInv DEF FrameUntilCut
<1> QED
  BY <1>1, <1>2, PTL DEF FrameSpec

\* However TCP cuts the bytes (connection.go:67-73, main.rs:376-388), the
\* receiver gets the messages that were sent, whole and in order: the node's
\* always, the master's until one Read returns less than a whole length
\* (connection.go:61).
THEOREM FramingQueueUntilCut == FrameSpec => QueueUntilCut
<1>1. FrameInit => Queue!Init
  BY DEF FrameInit, WantsHeader, Queue!Init
<1>2. FrameUntilCut /\ FrameUntilCut' /\ [FrameNext]_framevars
        => [Queue!Next \/ (~exact /\ cut')]_(Queue!vars)
  <2> SUFFICES ASSUME FrameUntilCut, FrameUntilCut', [FrameNext]_framevars
               PROVE  [Queue!Next \/ (~exact /\ cut')]_(Queue!vars)
    OBVIOUS
  <2>1. CASE cut'
    <3>1. UNCHANGED exact
      BY DEF FrameNext, framevars, WriteLength, WriteBody, SenderEnds, Read, ReadHeader,
             ReadBody, ReadEnd
    <3> QED BY <2>1, <3>1 DEF FrameUntilCut
  <2>2. CASE ~cut'
    <3>1. FrameInv /\ FrameInv'
      BY <2>2, FrameCut DEF FrameUntilCut
    <3> QED BY <2>2, <3>1, FrameStep
  <2> QED BY <2>1, <2>2
<1> QED
  BY <1>1, <1>2, FramingInvariant, PTL DEF FrameSpec, QueueUntilCut

\* The node's receiver implements the queue without exception.
THEOREM NodeImplementsQueue == FrameSpec /\ [](exact) => ImplementsQueue
<1>1. [Queue!Next \/ (~exact /\ cut')]_(Queue!vars) /\ exact => [Queue!Next]_(Queue!vars)
  OBVIOUS
<1> QED
  BY <1>1, FramingQueueUntilCut, PTL DEF QueueUntilCut, ImplementsQueue, Queue!Spec

=============================================================================
