----------------------------- MODULE LlmpBroker -----------------------------
(***************************************************************************)
(* The LLMP broker of a machine (libafl/src/bolts/llmp.rs) with the link   *)
(* to the master that this repository adds to it.  Clients write to pages  *)
(* of their own; the broker goes through the pages and broadcasts what it  *)
(* finds on its own page.  A listener thread announces new clients to the  *)
(* broker on a page too, and a proxy thread, which is registered as a      *)
(* client, takes testcases from the broker's page to the master.           *)
(*                                                                         *)
(* A page is the sequence of its unread messages.  Links to other brokers  *)
(* and clients that restart on their old page are left out, and so are the *)
(* events that the broker keeps to itself (statistics, objectives, logs).  *)
(***************************************************************************)
EXTENDS Integers, Sequences, FiniteSets, SequencesExt

CONSTANTS
  Client,       \* processes that may attach, each once
  Listener, Proxy,
  MaxMsgs,      \* bound: messages of a client
  ExitAfter,    \* exit_cleanly_after
  SendLimit     \* send_limit of the proxy

ASSUME LlmpAssumption ==
  /\ Listener # Proxy
  /\ {Listener, Proxy} \cap Client = {}
  /\ IsFiniteSet(Client)
  /\ MaxMsgs \in Nat
  /\ {ExitAfter, SendLimit} \subseteq Nat \ {0}

Page == Client \cup {Listener, Proxy}

VARIABLES
  llmp_clients,       \* receivers of the broker: an id and the page it reads
  num_clients_total,
  page,               \* messages on each page that the broker has not read
  out,                \* messages on the broker's page
  loop,               \* where the broker is in its loop
  current_client_id,  \* the listener's next id for a client
  client,             \* the clients: state, id they send as, messages sent
  proxy,              \* the proxy thread: running, position on out, read in a row
  link,               \* "up", "said" (a message from the master waits) or "down"
  master              \* messages handed to the master

broker == <<llmp_clients, num_clients_total, out, loop>>
vars == <<broker, page, current_client_id, client, proxy, link, master>>

Msg(kind, from, sender, n) == [kind |-> kind, from |-> from, sender |-> sender, n |-> n]

\* The start of once: it goes through the n receivers there are.  gone holds the
\* positions of those to be removed, over the pages that were at their end or
\* silent in this round (a history: the code keeps the positions alone).
Start(n) == [pc |-> "client", i |-> 1, n |-> n, got |-> FALSE, gone |-> {}, over |-> {}]

\* create_attach_to_tcp registers the listener, connect_b2m the proxy.
Init ==
  /\ llmp_clients = <<[id |-> 0, page |-> Listener], [id |-> 1, page |-> Proxy]>>
  /\ num_clients_total = 2
  /\ page = [p \in Page |-> <<>>]
  /\ out = <<>>
  /\ loop = Start(2)
  /\ current_client_id = 1
  /\ client = [c \in Client |-> [st |-> "away", id |-> 0, sent |-> 0]]
  /\ proxy = [alive |-> TRUE, pos |-> 0, row |-> 0]
  /\ link = "up"
  /\ master = <<>>

-----------------------------------------------------------------------------
(* Clients and the listener thread, for as long as the broker runs *)

Running == loop.pc # "exited"

Attach_SameId(c) ==
  /\ Running
  /\ client[c].st = "away"
  /\ page' = [page EXCEPT ![Listener] = Append(@, Msg("new", c, 0, 0))]
  /\ client' = [client EXCEPT ![c].st = "in", ![c].id = current_client_id]
  /\ UNCHANGED <<broker, current_client_id, proxy, link, master>>

\* The listener announces the client and answers with the id to send as.
Attach(c) ==
  /\ Running
  /\ client[c].st = "away"
  /\ page' = [page EXCEPT ![Listener] = Append(@, Msg("new", c, 0, 0))]
  /\ client' = [client EXCEPT ![c].st = "in", ![c].id = current_client_id]
  /\ current_client_id' = current_client_id + 1
  /\ UNCHANGED <<broker, proxy, link, master>>

\* A new testcase, the event that goes to everybody and to the master.
Fire(c) ==
  LET w == client[c]
  IN /\ Running
     /\ w.st = "in"
     /\ w.sent < MaxMsgs
     /\ page' = [page EXCEPT ![c] = Append(@, Msg("testcase", c, w.id, w.sent + 1))]
     /\ client' = [client EXCEPT ![c].sent = @ + 1]
     /\ UNCHANGED <<broker, current_client_id, proxy, link, master>>

\* send_exiting.
Leave(c) ==
  /\ Running
  /\ client[c].st = "in"
  /\ page' = [page EXCEPT ![c] = Append(@, Msg("exit", c, client[c].id, 0))]
  /\ client' = [client EXCEPT ![c].st = "left"]
  /\ UNCHANGED <<broker, current_client_id, proxy, link, master>>

Crash(c) ==
  /\ Running
  /\ client[c].st = "in"
  /\ client' = [client EXCEPT ![c].st = "dead"]
  /\ UNCHANGED <<broker, page, current_client_id, proxy, link, master>>

-----------------------------------------------------------------------------
(* The broker: once, handle_new_msgs and loop_with_timeouts *)

\* The receiver that handle_new_msgs(id) finds: the first one with this id.
Position(id) ==
  CHOOSE k \in DOMAIN llmp_clients :
    /\ llmp_clients[k].id = id
    /\ \A j \in 1..(k - 1) : llmp_clients[j].id # id

\* The page that is read in the turn of the i-th receiver.
ReadPage(i) == llmp_clients[Position(llmp_clients[i].id)].page

\* The receiver finds an earlier one with its id in its place.
ShadowedAt(i) == \E j \in 1..(i - 1) : llmp_clients[j].id = llmp_clients[i].id

NextClient_SkipsLast(l) ==
  [l EXCEPT !.i = @ + 1, !.got = FALSE,
            !.pc = IF l.i + 1 >= l.n THEN "sweep" ELSE "client"]

\* On to the next receiver, or to the end of once.
NextClient(l) ==
  [l EXCEPT !.i = @ + 1, !.got = FALSE,
            !.pc = IF l.i = l.n THEN "sweep" ELSE "client"]

\* The receiver whose turn it is goes to clients_to_remove.
Disconnected ==
  [loop EXCEPT !.gone = @ \cup {loop.i}, !.over = @ \cup {ReadPage(loop.i)}]

Forwarded_Twice(m) ==
  IF loop.i < Len(llmp_clients) THEN out \o <<m, m>> ELSE Append(out, m)

\* The handler lets a testcase through, and it is copied to the broker's page.
Forwarded(m) == Append(out, m)

\* The id of an announced client is a count of the receivers.
NewId == Len(llmp_clients)

\* One message of the page.
HandleMsg ==
  LET p == ReadPage(loop.i)
      m == Head(page[p])
  IN /\ loop.pc = "client"
     /\ page[p] # <<>>
     /\ m.kind # "exit"
     /\ page' = [page EXCEPT ![p] = Tail(@)]
     /\ loop' = [loop EXCEPT !.got = TRUE]
     /\ IF m.kind = "new"
        THEN /\ llmp_clients' = Append(llmp_clients, [id |-> NewId, page |-> m.from])
             /\ num_clients_total' = num_clients_total + 1
             /\ UNCHANGED out
        ELSE /\ out' = Forwarded(m)
             /\ UNCHANGED <<llmp_clients, num_clients_total>>
     /\ UNCHANGED <<current_client_id, client, proxy, link, master>>

\* The other side is done; the message stays on the page.
HandleExit ==
  LET p == ReadPage(loop.i)
  IN /\ loop.pc = "client"
     /\ page[p] # <<>>
     /\ Head(page[p]).kind = "exit"
     /\ loop' = NextClient(Disconnected)
     /\ UNCHANGED <<llmp_clients, num_clients_total, out, page, current_client_id,
                    client, proxy, link, master>>

\* Nothing more on the page.  A receiver that gave nothing in this turn is late if
\* CLIENT_TIMEOUT has passed since it gave something, which any client may let
\* happen, living or not, and the proxy always does; a listener is never late.
NoMoreMsgs(late) ==
  /\ loop.pc = "client"
  /\ page[ReadPage(loop.i)] = <<>>
  /\ late => ~loop.got /\ llmp_clients[loop.i].page # Listener
  /\ loop' = NextClient(IF late THEN Disconnected ELSE loop)
  /\ UNCHANGED <<llmp_clients, num_clients_total, out, page, current_client_id,
                 client, proxy, link, master>>

LastGone_First(k) == k \in loop.gone /\ \A j \in loop.gone : k <= j

\* clients_to_remove holds positions and is gone through from its end.
LastGone(k) == k \in loop.gone /\ \A j \in loop.gone : j <= k

\* One of those that are given up; the receivers behind it move up.
GiveUp(k) ==
  /\ loop.pc = "sweep"
  /\ LastGone(k)
  /\ llmp_clients' = RemoveAt(llmp_clients, k)
  /\ loop' = [loop EXCEPT !.gone = @ \ {k}]
  /\ UNCHANGED <<num_clients_total, out, page, current_client_id, client, proxy, link,
                 master>>

\* No client but the listener, and as many as expected have been there.
MayExit == Len(llmp_clients) <= 1 /\ num_clients_total - 1 >= ExitAfter

\* The end of once and of the loop's turn.
Turn ==
  /\ loop.pc = "sweep"
  /\ loop.gone = {}
  /\ IF MayExit
     THEN /\ loop' = [loop EXCEPT !.pc = "exited"]
          /\ out' = Append(out, Msg("exit", Listener, 0, 0))
     ELSE loop' = Start(Len(llmp_clients)) /\ UNCHANGED out
  /\ UNCHANGED <<llmp_clients, num_clients_total, page, current_client_id, client, proxy,
                 link, master>>

BrokerStep ==
  \/ HandleMsg
  \/ HandleExit
  \/ \E late \in BOOLEAN : NoMoreMsgs(late)
  \/ \E k \in DOMAIN llmp_clients : GiveUp(k)
  \/ Turn

-----------------------------------------------------------------------------
(* The proxy thread and the master *)

OwnId_Registered == 1

\* connect_b2m makes the proxy send as client 0.
OwnId == 0

\* Flagged for the master and not the proxy's own.
Wanted(m) == m.kind = "testcase" /\ m.sender # OwnId

ProxyEnds == proxy' = [proxy EXCEPT !.alive = FALSE] /\ UNCHANGED master

\* The for loop of the sending direction has a turn left.
MaySend == proxy.row < SendLimit

\* One message of the broker's page; with the channel closed it is lost, and
\* the thread breaks off to the other direction.
ProxySends ==
  LET m == out[proxy.pos + 1]
      next == [proxy EXCEPT !.pos = @ + 1, !.row = @ + 1]
  IN /\ proxy.alive
     /\ MaySend
     /\ proxy.pos < Len(out)
     /\ \/ m.kind = "exit" /\ ProxyEnds
        \/ m.kind # "exit" /\ ~Wanted(m) /\ proxy' = next /\ UNCHANGED master
        \/ Wanted(m) /\ link # "down" /\ proxy' = next /\ master' = Append(master, m)
        \/ Wanted(m) /\ link = "down" /\ proxy' = [next EXCEPT !.row = SendLimit]
                     /\ UNCHANGED master
     /\ UNCHANGED <<broker, page, current_client_id, client, link>>

\* The page is read or the limit reached.  A message from the master is sent on
\* with a reserved tag, which send refuses: the thread panics.  It returns when
\* the channel is closed.
ProxyReceives ==
  /\ proxy.alive
  /\ ~MaySend \/ proxy.pos = Len(out)
  /\ IF link # "up" THEN ProxyEnds
     ELSE proxy' = [proxy EXCEPT !.row = 0] /\ UNCHANGED master
  /\ UNCHANGED <<broker, page, current_client_id, client, link>>

ProxyStep == ProxySends \/ ProxyReceives

MasterSpeaks ==
  /\ link = "up"
  /\ link' = "said"
  /\ UNCHANGED <<broker, page, current_client_id, client, proxy, master>>

MasterLeaves ==
  /\ link # "down"
  /\ link' = "down"
  /\ UNCHANGED <<broker, page, current_client_id, client, proxy, master>>

-----------------------------------------------------------------------------
Next ==
  \/ \E c \in Client : Attach(c) \/ Fire(c) \/ Leave(c) \/ Crash(c)
  \/ BrokerStep
  \/ ProxyStep
  \/ MasterSpeaks
  \/ MasterLeaves

Spec == Init /\ [][Next]_vars

\* The broker and the proxy thread keep running.
FairSpec == Spec /\ WF_vars(BrokerStep) /\ WF_vars(ProxyStep)

-----------------------------------------------------------------------------
(* Properties *)

MsgType ==
  [kind : {"new", "testcase", "exit"}, from : Page, sender : Nat,
   n : 0..MaxMsgs]

\* Every variable keeps its type.
TypeOK ==
  /\ llmp_clients \in Seq([id : Nat, page : Page])
  /\ num_clients_total \in 2..(2 + Cardinality(Client))
  /\ page \in [Page -> Seq(MsgType)]
  /\ out \in Seq(MsgType)
  /\ loop \in [pc : {"client", "sweep", "exited"}, i : Nat, n : Nat, got : BOOLEAN,
               gone : SUBSET (1..Len(llmp_clients)), over : SUBSET Page]
  /\ current_client_id \in 1..(1 + Cardinality(Client))
  /\ client \in [Client -> [st : {"away", "in", "left", "dead"}, id : Nat,
                            sent : 0..MaxMsgs]]
  /\ proxy \in [alive : BOOLEAN, pos : 0..Len(out), row : 0..SendLimit]
  /\ link \in {"up", "said", "down"}
  /\ master \in Seq(MsgType)

Ascending(s, c) ==
  LET by(i) == s[i].kind = "testcase" /\ s[i].from = c
  IN \A i, j \in DOMAIN s : i < j /\ by(i) /\ by(j) => s[i].n < s[j].n

\* Every variable keeps its type, and a testcase is broadcast once, those of a
\* client in the order it found them: whoever has the client's id, what went out
\* comes before what waits.
BroadcastOnce ==
  /\ TypeOK
  /\ \A c \in Client : Ascending(out \o page[c], c)

\* at places what the master has on the broker's page: testcases, in order, and
\* none left out before the last.
Copied(at) ==
  /\ \A i \in DOMAIN at : out[at[i]] = master[i] /\ out[at[i]].kind = "testcase"
  /\ \A i, j \in DOMAIN at : i < j => at[i] < at[j]
  /\ \A j \in DOMAIN at, k \in DOMAIN out :
       k < at[j] /\ out[k].kind = "testcase" => \E i \in DOMAIN at : at[i] = k

\* The master gets what the clients were sent, nothing left out and nothing
\* twice, up to where the link broke.
MasterGetsAll == \E at \in [DOMAIN master -> DOMAIN out] : Copied(at)

\* A client that filters out what carries its own id ("mainly so we can filter
\* out our own msgs later", llmp.rs:3405) misses no other client's testcase.
FiltersOwnOnly ==
  \A c \in Client, i \in DOMAIN out :
    client[c].id # 0 /\ out[i].kind = "testcase" =>
      (out[i].sender = client[c].id <=> out[i].from = c)

EntriesOf(c) == {i \in DOMAIN llmp_clients : llmp_clients[i].page = c}

Shadowed(c) == \E i \in EntriesOf(c) : ShadowedAt(i)

\* clients_to_remove holds positions: who is removed is a client that left or was
\* silent in this round, and none of its neighbours, whichever others are removed
\* and are announced meanwhile, unless another client has its id.  (A client that
\* lives but is silent for CLIENT_TIMEOUT is removed, llmp.rs:2256.)
OnlyTheSilentLeave ==
  [][\A c \in Client :
       (EntriesOf(c) # {} /\ EntriesOf(c)' = {} /\ ~Shadowed(c))
         => c \in loop.over]_vars

\* What a registered client wrote is read ("walks all pages and looks for
\* changes", llmp.rs:2240), unless the client is removed or another one has its id:
\* see OwnTurn.
EveryPageRead ==
  \A c \in Client :
    (EntriesOf(c) # {} /\ page[c] # <<>>)
      ~> (page[c] = <<>> \/ EntriesOf(c) = {} \/ Shadowed(c) \/ loop.pc = "exited")

\* The turn of a receiver reads its page: "The broker walks all pages and looks
\* for changes" (llmp.rs:2240).  handle_new_msgs looks the receiver up by its id,
\* and an announced client gets the number of receivers for an id (llmp.rs:2990),
\* which a client that is still there may have once another one was removed.
OwnTurn == loop.pc = "client" => ReadPage(loop.i) = llmp_clients[loop.i].page

\* While the master is there the proxy thread runs: it "proxies all messages to the
\* attached socket, in both directions" (llmp.rs:2633).  A message of the master
\* is sent on with the tag LLMP_TAG_UNSET (llmp.rs:2735), which
\* send_buf_with_flags refuses (llmp.rs:1482), and the thread panics.
BothWays == proxy.alive \/ link = "down" \/ loop.pc = "exited"

\* The broker exits after ExitAfter clients: "if the `n_client` value is `2`, the
\* broker will not exit after client 1 connected and disconnected" (llmp.rs:2075).
\* num_clients_total counts the proxy too (llmp.rs:2105), and the loop takes off the
\* listeners alone (llmp.rs:2355).
ExitsAfterAll ==
  loop.pc = "exited" => Cardinality({c \in Client : client[c].st # "away"}) >= ExitAfter

=============================================================================
