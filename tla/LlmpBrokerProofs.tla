-------------------------- MODULE LlmpBrokerProofs --------------------------
(***************************************************************************)
(* Theorems about the LLMP broker and its link to the master, for any      *)
(* number of clients and messages.  The inductive invariant says what may  *)
(* be on each page and what its writer is by now, that the ids of clients  *)
(* are distinct, how many announcements there are, who may be among those  *)
(* to be given up, in which order testcases stand on the broker's page and *)
(* wait on the clients', and which of them the master has.                 *)
(***************************************************************************)
EXTENDS LlmpBroker, FiniteSetTheorems, SequenceTheorems, WellFoundedInduction, TLAPS

Receivers == [id : Nat, page : Page]

Clients == [st : {"away", "in", "left", "dead"}, id : Nat, sent : 0..MaxMsgs]

\* Loops over at most n receivers, and proxies of a broker's page of length n.
Loops(n) ==
  [pc : {"client", "sweep", "exited"}, i : Nat, n : Nat, got : BOOLEAN,
   gone : SUBSET (1..n), over : SUBSET Page]

Proxies(n) == [alive : BOOLEAN, pos : 0..n, row : 0..SendLimit]

\* The types but for the bounds of the counts, which follow from CountsOK.
Types ==
  /\ llmp_clients \in Seq(Receivers)
  /\ num_clients_total \in Nat \ {0, 1}
  /\ page \in [Page -> Seq(MsgType)]
  /\ out \in Seq(MsgType)
  /\ loop \in Loops(Len(llmp_clients))
  /\ current_client_id \in Nat \ {0}
  /\ client \in [Client -> Clients]
  /\ proxy \in Proxies(Len(out))
  /\ link \in {"up", "said", "down"}
  /\ master \in Seq(MsgType)

\* Who attached.
Attached == {c \in Client : client[c].st # "away"}

\* The listener answers each client with an id of its own.
IdsOK ==
  /\ \A c \in Client : /\ client[c].id < current_client_id
                       /\ c \in Attached <=> client[c].id # 0
  /\ \A c, d \in Attached : client[c].id = client[d].id => c = d

\* Every client that attached was announced: its announcement waits or was counted.
CountsOK ==
  /\ current_client_id = Cardinality(Attached) + 1
  /\ Len(page[Listener]) + num_clients_total = current_client_id + 1

\* What the writer of a message made of it.
FromClient(m) ==
  /\ m.from \in Attached
  /\ m.sender = client[m.from].id
  /\ m.n <= client[m.from].sent

\* The listener announces clients, clients write testcases and, when they leave,
\* that they do; the proxy writes nothing.
OnPage(p, m) ==
  /\ p # Proxy
  /\ p = Listener => m.kind = "new" /\ m.from \in Attached
  /\ p \in Client => /\ m.kind # "new"
                     /\ FromClient(m) /\ m.from = p
                     /\ m.kind = "exit" => client[p].st = "left"

PagesOK == \A p \in Page : \A k \in DOMAIN page[p] : OnPage(p, page[p][k])

OutOK == \A k \in DOMAIN out : out[k].kind = "testcase" => FromClient(out[k])

ReceiversOK ==
  /\ Len(llmp_clients) >= 1
  /\ llmp_clients[1] = [id |-> 0, page |-> Listener]
  /\ \A i \in 2..Len(llmp_clients) : llmp_clients[i].page \in Attached \cup {Proxy}

\* Who is given up: not the listener, and who is not shadowed for its own page.
GivenUp(i) ==
  /\ llmp_clients[i].page # Listener
  /\ llmp_clients[i].page \in loop.over \/ ShadowedAt(i)

LoopOK ==
  /\ loop.pc = "client" => 1 <= loop.i /\ loop.i <= loop.n /\ loop.n <= Len(llmp_clients)
  /\ \A i \in loop.gone : GivenUp(i)

\* Whose testcases come in order, in whatever is sent and waits.
OrderOK ==
  /\ \A c \in Client : Ascending(out, c) /\ Ascending(page[c], c)
  /\ \A c \in Client : \A i \in DOMAIN out, j \in DOMAIN page[c] :
       out[i].kind = "testcase" /\ page[c][j].kind = "testcase" /\ out[i].from = c
         => out[i].n < page[c][j].n

\* Where the master's messages are on the broker's page: the proxy passed them,
\* and none else as long as the link held.
MasterOK ==
  \E at \in [DOMAIN master -> 1..proxy.pos] :
    /\ Copied(at)
    /\ link # "down" =>
         \A k \in 1..proxy.pos :
           out[k].kind = "testcase" => \E i \in DOMAIN at : at[i] = k

LlmpInv ==
  /\ Types
  /\ IdsOK
  /\ CountsOK
  /\ PagesOK
  /\ OutOK
  /\ ReceiversOK
  /\ LoopOK
  /\ OrderOK
  /\ MasterOK

-----------------------------------------------------------------------------
(* Naturals and sequences *)

\* A set of naturals has a least element.
LEMMA LeastNat ==
  ASSUME NEW T \in SUBSET Nat, T # {}
  PROVE  \E m \in T : \A k \in T : m <= k
<1>1. IsWellFoundedOn(OpToRel(<, Nat), Nat)
  BY NatLessThanWellFounded
<1> DEFINE R == OpToRel(<, Nat)
<1>2. \A x, y \in Nat : x < y => <<x, y>> \in R
  BY DEF OpToRel
<1>3. IsWellFoundedOn(R, Nat)
  BY <1>1
<1> HIDE DEF R
<1>4. PICK x \in T : \A y \in T : ~ (<<y, x>> \in R)
  BY <1>3, WFMin
<1>5. ASSUME NEW y \in T PROVE ~(y < x)
  BY <1>2, <1>4
<1> QED
  BY <1>5

\* What RemoveAt leaves.
LEMMA RemoveAtIs ==
  ASSUME NEW S, NEW s \in Seq(S), NEW k \in 1..Len(s)
  PROVE  /\ RemoveAt(s, k) \in Seq(S)
         /\ Len(RemoveAt(s, k)) = Len(s) - 1
         /\ \A i \in 1..(Len(s) - 1) :
              RemoveAt(s, k)[i] = IF i < k THEN s[i] ELSE s[i + 1]
<1> DEFINE a == SubSeq(s, 1, k - 1)
           b == SubSeq(s, k + 1, Len(s))
<1>1. /\ a \in Seq(S) /\ Len(a) = k - 1
      /\ \A i \in 1..(k - 1) : a[i] = s[i]
  BY SubSeqProperties
<1>2. /\ b \in Seq(S) /\ Len(b) = Len(s) - k
      /\ \A i \in 1..(Len(s) - k) : b[i] = s[k + i]
  BY SubSeqProperties
<1> HIDE DEF a, b
<1>3. /\ a \o b \in Seq(S) /\ Len(a \o b) = Len(s) - 1
      /\ \A i \in 1..(Len(s) - 1) :
           (a \o b)[i] = IF i < k THEN s[i] ELSE s[i + 1]
  <2>1. /\ a \o b \in Seq(S) /\ Len(a \o b) = Len(a) + Len(b)
        /\ \A i \in 1..(Len(a) + Len(b)) :
             (a \o b)[i] = IF i <= Len(a) THEN a[i] ELSE b[i - Len(a)]
    BY <1>1, <1>2, ConcatProperties
  <2>2. Len(a \o b) = Len(s) - 1
    BY <1>1, <1>2, <2>1
  <2>3. ASSUME NEW i \in 1..(Len(s) - 1)
        PROVE  (a \o b)[i] = IF i < k THEN s[i] ELSE s[i + 1]
    <3>1. (a \o b)[i] = IF i <= k - 1 THEN a[i] ELSE b[i - (k - 1)]
      BY <1>1, <1>2, <2>1
    <3>2. CASE i < k
      BY <3>1, <3>2, <1>1
    <3>3. CASE ~(i < k)
      <4>1. i - (k - 1) \in 1..(Len(s) - k) /\ k + (i - (k - 1)) = i + 1
        BY <3>3
      <4> QED
        BY <3>1, <3>3, <4>1, <1>2
    <3> QED
      BY <3>2, <3>3
  <2> QED
    BY <2>1, <2>2, <2>3
<1> QED
  BY <1>3 DEF RemoveAt, a, b

\* The elements of a sequence.
LEMMA Elements ==
  ASSUME NEW S, NEW s \in Seq(S)
  PROVE  /\ DOMAIN s = 1..Len(s) /\ Len(s) \in Nat
         /\ \A k \in DOMAIN s : s[k] \in S
  BY ElementOfSeq

\* What Append adds.
LEMMA AppendIs ==
  ASSUME NEW S, NEW s \in Seq(S), NEW x \in S
  PROVE  /\ Append(s, x) \in Seq(S)
         /\ Len(Append(s, x)) = Len(s) + 1
         /\ DOMAIN s = 1..Len(s) /\ DOMAIN Append(s, x) = 1..(Len(s) + 1)
         /\ \A i \in DOMAIN s : Append(s, x)[i] = s[i]
         /\ Append(s, x)[Len(s) + 1] = x
  BY AppendProperties

\* What Tail leaves.
LEMMA TailIs ==
  ASSUME NEW S, NEW s \in Seq(S), s # <<>>
  PROVE  /\ Tail(s) \in Seq(S)
         /\ Len(Tail(s)) = Len(s) - 1 /\ Len(s) >= 1
         /\ DOMAIN s = 1..Len(s) /\ DOMAIN Tail(s) = 1..(Len(s) - 1)
         /\ \A i \in DOMAIN Tail(s) : Tail(s)[i] = s[i + 1]
         /\ Head(s) = s[1] /\ Head(s) \in S
  BY HeadTailProperties

\* An element of what Append makes.
LEMMA Appended ==
  ASSUME NEW S, NEW s \in Seq(S), NEW x \in S, NEW t, t = Append(s, x), NEW k \in DOMAIN t
  PROVE  \/ k \in DOMAIN s /\ t[k] = s[k]
         \/ k = Len(s) + 1 /\ t[k] = x
<1>1. k \in 1..(Len(s) + 1) /\ DOMAIN s = 1..Len(s) /\ Len(s) \in Nat
  BY AppendIs, Elements
<1>2. k \in DOMAIN s \/ k = Len(s) + 1
  BY <1>1
<1> QED
  BY <1>2, AppendIs

-----------------------------------------------------------------------------
(* Where the broker finds a receiver *)

\* The first receiver is the listener; the others are the proxy and clients.
LEMMA ReceiverIs ==
  ASSUME Types, ReceiversOK, NEW i \in DOMAIN llmp_clients
  PROVE  /\ llmp_clients[i].page \in Client => llmp_clients[i].page \in Attached
         /\ llmp_clients[i].page = Listener <=> i = 1
         /\ llmp_clients[i].page # Listener =>
              llmp_clients[i].page = Proxy \/ llmp_clients[i].page \in Client
<1>1. i = 1 \/ i \in 2..Len(llmp_clients)
  BY Elements DEF Types
<1> QED
  BY <1>1, LlmpAssumption DEF ReceiversOK, Attached

\* The receiver handle_new_msgs finds has the id and comes no later; it is the
\* one whose turn it is unless that one is shadowed.
LEMMA PositionFirst ==
  ASSUME Types, NEW i \in DOMAIN llmp_clients
  PROVE  /\ Position(llmp_clients[i].id) \in 1..i
         /\ ~ShadowedAt(i) => Position(llmp_clients[i].id) = i
<1> DEFINE T == {k \in 1..i : llmp_clients[k].id = llmp_clients[i].id}
           P(k) == /\ llmp_clients[k].id = llmp_clients[i].id
                   /\ \A j \in 1..(k - 1) : llmp_clients[j].id # llmp_clients[i].id
           k0 == Position(llmp_clients[i].id)
<1>0. DOMAIN llmp_clients = 1..Len(llmp_clients) /\ i \in 1..Len(llmp_clients)
      /\ Len(llmp_clients) \in Nat
  BY DEF Types
<1>1. PICK m \in T : \A k \in T : m <= k
  <2>1. T \in SUBSET Nat /\ i \in T
    BY <1>0
  <2> QED
    BY <2>1, LeastNat
<1>2. P(m) /\ m \in 1..i /\ m \in DOMAIN llmp_clients
  BY <1>0, <1>1
<1>3. k0 \in DOMAIN llmp_clients /\ P(k0)
  <2>1. k0 = CHOOSE k \in DOMAIN llmp_clients : P(k)
    BY DEF Position
  <2> QED
    BY <2>1, <1>2
<1>4. k0 \in 1..i
  BY <1>0, <1>3
<1>5. ~ShadowedAt(i) => k0 = i
  BY <1>0, <1>3, <1>4 DEF ShadowedAt
<1> QED
  BY <1>4, <1>5

\* In a turn of a receiver there is a page to read.
LEMMA TurnReads ==
  ASSUME Types, LoopOK, loop.pc = "client"
  PROVE  /\ loop.i \in DOMAIN llmp_clients
         /\ ReadPage(loop.i) \in Page
         /\ ~ShadowedAt(loop.i) => ReadPage(loop.i) = llmp_clients[loop.i].page
<1>1. loop.i \in DOMAIN llmp_clients
  <2>1. loop.i \in Nat /\ loop.n \in Nat
    BY DEF Types, Loops
  <2>2. DOMAIN llmp_clients = 1..Len(llmp_clients) /\ Len(llmp_clients) \in Nat
    BY Elements DEF Types
  <2> QED
    BY <2>1, <2>2 DEF LoopOK
<1>2. Position(llmp_clients[loop.i].id) \in DOMAIN llmp_clients
  <2>1. Position(llmp_clients[loop.i].id) \in 1..loop.i
    BY <1>1, PositionFirst
  <2>2. DOMAIN llmp_clients = 1..Len(llmp_clients) /\ Len(llmp_clients) \in Nat
    BY DEF Types
  <2> QED
    BY <1>1, <2>1, <2>2
<1>3. \A k \in DOMAIN llmp_clients : llmp_clients[k].page \in Page
  <2>1. \A k \in DOMAIN llmp_clients : llmp_clients[k] \in Receivers
    BY Elements DEF Types
  <2> QED
    BY <2>1 DEF Receivers
<1> QED
  BY <1>1, <1>2, <1>3, PositionFirst DEF ReadPage

-----------------------------------------------------------------------------
(* Types *)

LEMMA InitTypes == Init => Types
<1> SUFFICES ASSUME Init PROVE Types
  OBVIOUS
<1> USE DEF Init
<1>1. llmp_clients \in Seq(Receivers) /\ Len(llmp_clients) = 2
  BY DEF Page, Receivers
<1>2. page \in [Page -> Seq(MsgType)] /\ out \in Seq(MsgType) /\ master \in Seq(MsgType)
      /\ Len(out) = 0
  OBVIOUS
<1>3. loop \in Loops(Len(llmp_clients))
  BY DEF Start, Loops
<1>4. client \in [Client -> Clients]
  BY LlmpAssumption DEF Clients
<1>5. proxy \in Proxies(Len(out))
  BY <1>2, LlmpAssumption DEF Proxies
<1> QED
  BY <1>1, <1>2, <1>3, <1>4, <1>5 DEF Types

\* A message of a client or of the listener.
LEMMA MsgIs ==
  ASSUME NEW k \in {"new", "testcase", "exit"}, NEW f \in Page, NEW i \in Nat,
         NEW n \in 0..MaxMsgs
  PROVE  /\ Msg(k, f, i, n) \in MsgType
         /\ Msg(k, f, i, n).kind = k /\ Msg(k, f, i, n).from = f
         /\ Msg(k, f, i, n).sender = i /\ Msg(k, f, i, n).n = n
  BY DEF Msg, MsgType

\* Writing a message to a page.
LEMMA PageTyped ==
  ASSUME page \in [Page -> Seq(MsgType)], NEW p \in Page, NEW m \in MsgType,
         page' = [page EXCEPT ![p] = Append(@, m)]
  PROVE  page' \in [Page -> Seq(MsgType)]
<1>1. Append(page[p], m) \in Seq(MsgType)
  BY AppendIs
<1> QED
  BY <1>1

\* A turn over some receivers is one over more of them; so are the loops that
\* handlers make of it.
LEMMA LoopsGrow ==
  ASSUME NEW n \in Nat, NEW l \in Loops(n), NEW k \in Nat, k >= n
  PROVE  l \in Loops(k) /\ [l EXCEPT !.got = TRUE] \in Loops(k)
<1>1. l.gone \subseteq 1..k
  BY DEF Loops
<1> QED
  BY <1>1 DEF Loops

LEMMA NextClientTyped ==
  ASSUME NEW n, NEW l \in Loops(n)
  PROVE  NextClient(l) \in Loops(n)
<1>1. l.i + 1 \in Nat
  BY DEF Loops
<1> DEFINE next(pc) == [l EXCEPT !.i = @ + 1, !.got = FALSE, !.pc = pc]
<1>2. NextClient(l) = next(IF l.i = l.n THEN "sweep" ELSE "client")
  BY DEF NextClient
<1>3. ASSUME NEW pc \in {"client", "sweep"} PROVE next(pc) \in Loops(n)
  BY <1>1 DEF Loops
<1> HIDE DEF next
<1> QED
  BY <1>2, <1>3

LEMMA StartTyped ==
  ASSUME NEW n, NEW k \in Nat
  PROVE  Start(k) \in Loops(n)
  BY DEF Start, Loops

\* What clients do keeps the types.
LEMMA ClientTypes ==
  ASSUME Types, NEW c \in Client, Attach(c) \/ Fire(c) \/ Leave(c) \/ Crash(c)
  PROVE  Types'
<1> USE DEF broker
<1>0. 0 \in 0..MaxMsgs /\ c \in Page /\ Listener \in Page
  BY LlmpAssumption DEF Page
<1>1. UNCHANGED <<llmp_clients, num_clients_total, out, loop, proxy, link, master>>
  BY DEF Attach, Fire, Leave, Crash
<1>2. /\ client \in [Client -> Clients] /\ client[c] \in Clients
      /\ client[c].id \in Nat /\ client[c].sent \in 0..MaxMsgs
      /\ page \in [Page -> Seq(MsgType)]
      /\ current_client_id \in Nat \ {0} /\ current_client_id + 1 \in Nat \ {0}
  BY DEF Types, Clients
<1>3. /\ client' \in [Client -> Clients]
      /\ page' \in [Page -> Seq(MsgType)]
      /\ current_client_id' \in Nat \ {0}
  <2>1. CASE Attach(c)
    <3> USE <2>1 DEF Attach
    <3>1. Msg("new", c, 0, 0) \in MsgType
      BY <1>0, MsgIs
    <3>2. page' \in [Page -> Seq(MsgType)]
      BY <1>0, <1>2, <3>1, PageTyped
    <3>3. client' \in [Client -> Clients]
      BY <1>2 DEF Clients
    <3> QED
      BY <1>2, <3>2, <3>3
  <2>2. CASE Fire(c)
    <3> USE <2>2 DEF Fire
    <3>1. client[c].sent + 1 \in 0..MaxMsgs
      BY <1>2, LlmpAssumption
    <3>2. Msg("testcase", c, client[c].id, client[c].sent + 1) \in MsgType
      BY <1>0, <1>2, <3>1, MsgIs
    <3>3. page' \in [Page -> Seq(MsgType)]
      BY <1>0, <1>2, <3>2, PageTyped
    <3>4. client' \in [Client -> Clients]
      BY <1>2, <3>1 DEF Clients
    <3> QED
      BY <1>2, <3>3, <3>4
  <2>3. CASE Leave(c)
    <3> USE <2>3 DEF Leave
    <3>1. Msg("exit", c, client[c].id, 0) \in MsgType
      BY <1>0, <1>2, MsgIs
    <3>2. page' \in [Page -> Seq(MsgType)]
      BY <1>0, <1>2, <3>1, PageTyped
    <3>3. client' \in [Client -> Clients]
      BY <1>2 DEF Clients
    <3> QED
      BY <1>2, <3>2, <3>3
  <2>4. CASE Crash(c)
    BY <1>2, <2>4 DEF Crash, Clients
  <2> QED
    BY <2>1, <2>2, <2>3, <2>4
<1> QED
  BY <1>1, <1>3 DEF Types

\* So does what the broker does.
LEMMA HandleMsgTypes ==
  ASSUME Types, LoopOK, HandleMsg
  PROVE  Types'
<1> USE DEF HandleMsg
<1> DEFINE p == ReadPage(loop.i)
           m == Head(page[p])
<1>1. p \in Page
  BY TurnReads
<1> HIDE DEF p
<1>2. page[p] \in Seq(MsgType) /\ page[p] # <<>>
  BY <1>1 DEF Types, p
<1>3. m \in MsgType /\ Tail(page[p]) \in Seq(MsgType)
  BY <1>2, TailIs
<1>4. page' = [page EXCEPT ![p] = Tail(@)]
  BY DEF p
<1>5. page' \in [Page -> Seq(MsgType)]
  BY <1>3, <1>4 DEF Types
<1>6. loop' = [loop EXCEPT !.got = TRUE]
      /\ UNCHANGED <<current_client_id, client, proxy, link, master>>
  OBVIOUS
<1>7. CASE m.kind = "new"
  <2>1. llmp_clients' = Append(llmp_clients, [id |-> NewId, page |-> m.from])
        /\ num_clients_total' = num_clients_total + 1 /\ out' = out
    BY <1>7 DEF p
  <2>2. [id |-> NewId, page |-> m.from] \in Receivers
    <3>1. NewId \in Nat
      BY Elements DEF NewId, Types
    <3>2. m.from \in Page
      BY <1>3 DEF MsgType
    <3> QED
      BY <3>1, <3>2 DEF Receivers
  <2>3. llmp_clients' \in Seq(Receivers)
        /\ Len(llmp_clients') = Len(llmp_clients) + 1 /\ Len(llmp_clients) \in Nat
    BY <2>1, <2>2, AppendIs, Elements DEF Types
  <2>4. loop' \in Loops(Len(llmp_clients'))
    <3>1. loop \in Loops(Len(llmp_clients))
      BY DEF Types
    <3>2. Len(llmp_clients) \in Nat /\ Len(llmp_clients') >= Len(llmp_clients)
      BY <2>3
    <3> HIDE DEF HandleMsg
    <3> QED
      BY <1>6, <2>3, <3>1, <3>2, LoopsGrow
  <2>5. num_clients_total' \in Nat \ {0, 1}
    BY <2>1 DEF Types
  <2> QED
    BY <1>5, <1>6, <2>1, <2>3, <2>4, <2>5 DEF Types
<1>8. CASE m.kind # "new"
  <2>1. out' = Append(out, m) /\ UNCHANGED <<llmp_clients, num_clients_total>>
    BY <1>8 DEF p, Forwarded
  <2>2. out' \in Seq(MsgType) /\ Len(out') = Len(out) + 1 /\ Len(out) \in Nat
    BY <1>3, <2>1, AppendIs, Elements DEF Types
  <2>3. loop' \in Loops(Len(llmp_clients')) /\ proxy' \in Proxies(Len(out'))
    <3> HIDE DEF HandleMsg
    <3>1. loop \in Loops(Len(llmp_clients)) /\ proxy \in Proxies(Len(out))
          /\ Len(llmp_clients) \in Nat
      BY Elements DEF Types
    <3>2. loop' \in Loops(Len(llmp_clients))
      BY <1>6, <3>1, LoopsGrow
    <3>3. proxy \in Proxies(Len(out) + 1)
      BY <2>2, <3>1 DEF Proxies
    <3> QED
      BY <1>6, <2>1, <2>2, <3>2, <3>3
  <2> QED
    BY <1>5, <1>6, <2>1, <2>2, <2>3 DEF Types
<1> QED
  BY <1>7, <1>8

LEMMA LoopTypes ==
  ASSUME Types, LoopOK,
         HandleExit \/ (\E late \in BOOLEAN : NoMoreMsgs(late)) \/ Turn
  PROVE  Types'
<1>0. Len(llmp_clients) \in Nat /\ Len(out) \in Nat
  BY Elements DEF Types
<1>1. CASE HandleExit \/ (\E late \in BOOLEAN : NoMoreMsgs(late))
  <2>1. loop.i \in 1..Len(llmp_clients)
    BY <1>1, TurnReads, Elements DEF HandleExit, NoMoreMsgs, Types
  <2>2. loop \in Loops(Len(llmp_clients))
        /\ Disconnected \in Loops(Len(llmp_clients))
    <3>1. ReadPage(loop.i) \in Page
      BY <1>1, TurnReads DEF HandleExit, NoMoreMsgs
    <3> QED
      BY <2>1, <3>1 DEF Types, Loops, Disconnected
  <2>3. ASSUME NEW l \in Loops(Len(llmp_clients))
        PROVE  NextClient(l) \in Loops(Len(llmp_clients))
    BY NextClientTyped
  <2>4. loop' \in Loops(Len(llmp_clients))
    BY <1>1, <2>2, <2>3 DEF HandleExit, NoMoreMsgs
  <2> QED
    BY <1>1, <2>4 DEF HandleExit, NoMoreMsgs, Types
<1>2. CASE Turn
  <2> USE <1>2 DEF Turn
  <2>1. loop' \in Loops(Len(llmp_clients))
    <3>1. loop \in Loops(Len(llmp_clients))
      BY DEF Types
    <3>2. [loop EXCEPT !.pc = "exited"] \in Loops(Len(llmp_clients))
      BY <3>1 DEF Loops
    <3> QED
      BY <1>0, <3>2, StartTyped
  <2>2. out' \in Seq(MsgType) /\ Len(out') \in Nat /\ Len(out') >= Len(out)
    <3>1. Msg("exit", Listener, 0, 0) \in MsgType
      <4>1. 0 \in 0..MaxMsgs /\ Listener \in Page /\ 0 \in Nat
        BY LlmpAssumption DEF Page
      <4> QED
        BY <4>1, MsgIs
    <3>2. Append(out, Msg("exit", Listener, 0, 0)) \in Seq(MsgType)
          /\ Len(Append(out, Msg("exit", Listener, 0, 0))) = Len(out) + 1
      BY <3>1, AppendIs DEF Types
    <3>3. out' = out \/ out' = Append(out, Msg("exit", Listener, 0, 0))
      OBVIOUS
    <3> QED
      <4>1. Len(out) + 1 \in Nat /\ Len(out) + 1 >= Len(out) /\ out \in Seq(MsgType)
        BY <1>0 DEF Types
      <4> HIDE DEF Turn
      <4> QED
        BY <1>0, <3>2, <3>3, <4>1
  <2>3. proxy' \in Proxies(Len(out'))
    BY <1>0, <2>2 DEF Types, Proxies
  <2> QED
    BY <2>1, <2>2, <2>3 DEF Types
<1> QED
  BY <1>1, <1>2

LEMMA GiveUpTypes ==
  ASSUME Types, NEW k \in DOMAIN llmp_clients, GiveUp(k)
  PROVE  Types'
<1> USE DEF GiveUp
<1>1. k \in 1..Len(llmp_clients) /\ Len(llmp_clients) \in Nat
  BY Elements DEF Types
<1>2. llmp_clients' \in Seq(Receivers)
      /\ Len(llmp_clients') = Len(llmp_clients) - 1
  BY <1>1, RemoveAtIs DEF Types
<1>3. loop.gone \ {k} \subseteq 1..Len(llmp_clients')
  BY <1>1, <1>2 DEF Types, Loops, LastGone
<1>4. loop' \in Loops(Len(llmp_clients'))
  BY <1>3 DEF Types, Loops
<1> QED
  BY <1>2, <1>4 DEF Types

\* And what the proxy and the master do.
LEMMA ProxyTypes ==
  ASSUME Types, ProxyStep \/ MasterSpeaks \/ MasterLeaves
  PROVE  Types'
<1> USE DEF broker
<1>0. SendLimit \in Nat /\ 0 \in 0..SendLimit /\ SendLimit \in 0..SendLimit
  BY LlmpAssumption
<1>1. CASE ProxySends
  <2> USE <1>1 DEF ProxySends
  <2> DEFINE m == out[proxy.pos + 1]
             next == [proxy EXCEPT !.pos = @ + 1, !.row = @ + 1]
  <2>1. m \in MsgType
    <3>1. proxy.pos + 1 \in DOMAIN out
      BY Elements DEF Types, Proxies
    <3> QED
      BY <3>1, Elements DEF Types
  <2>2. next \in Proxies(Len(out))
    <3>1. proxy \in Proxies(Len(out)) /\ Len(out) \in Nat
      BY Elements DEF Types
    <3>2. proxy.pos + 1 \in 0..Len(out) /\ proxy.row + 1 \in 0..SendLimit
      BY <1>0, <3>1 DEF MaySend, Proxies
    <3> QED
      BY <3>1, <3>2 DEF Proxies
  <2>3. [next EXCEPT !.row = SendLimit]
          \in Proxies(Len(out))
    BY <1>0, <2>2 DEF Proxies
  <2>4. [proxy EXCEPT !.alive = FALSE]
          \in Proxies(Len(out))
    BY DEF Types, Proxies
  <2>5. Append(master, m) \in Seq(MsgType)
    BY <2>1, AppendIs DEF Types
  <2>6. UNCHANGED <<broker, page, current_client_id, client, link>>
    OBVIOUS
  <2>7. proxy' \in Proxies(Len(out))
        /\ master' \in Seq(MsgType)
    <3> HIDE DEF m, next
    <3> QED
      BY <2>2, <2>3, <2>4, <2>5 DEF ProxyEnds, Types, m, next
  <2> QED
    BY <2>6, <2>7 DEF Types
<1>2. CASE ProxyReceives
  BY <1>0, <1>2 DEF ProxyReceives, ProxyEnds, Types, Proxies
<1>3. CASE MasterSpeaks \/ MasterLeaves
  BY <1>3 DEF MasterSpeaks, MasterLeaves, Types
<1> QED
  BY <1>1, <1>2, <1>3 DEF ProxyStep

-----------------------------------------------------------------------------
(* What clients do *)

\* What an attached client is: its id stays and it does not live again.
Grows ==
  /\ client' \in [Client -> Clients]
  /\ \A d \in Attached :
       /\ d \in Attached'
       /\ client'[d].id = client[d].id
       /\ client'[d].sent >= client[d].sent
       /\ client'[d].st = "in" => client[d].st = "in"
       /\ client[d].st = "left" => client'[d].st = "left"

LEMMA ClientsGrow ==
  ASSUME Types, NEW c \in Client, Attach(c) \/ Fire(c) \/ Leave(c) \/ Crash(c)
  PROVE  Grows
<1>1. client \in [Client -> Clients] /\ \A d \in Client : client[d].sent \in Nat
  BY LlmpAssumption DEF Types, Clients
<1>2. client' \in [Client -> Clients]
  BY ClientTypes DEF Types
<1>3. CASE Attach(c)
  BY <1>1, <1>2, <1>3 DEF Attach, Grows, Attached, Clients
<1>4. CASE Fire(c)
  BY <1>1, <1>2, <1>4 DEF Fire, Grows, Attached, Clients
<1>5. CASE Leave(c)
  BY <1>1, <1>2, <1>5 DEF Leave, Grows, Attached, Clients
<1>6. CASE Crash(c)
  BY <1>1, <1>2, <1>6 DEF Crash, Grows, Attached, Clients
<1> QED
  BY <1>3, <1>4, <1>5, <1>6

\* What its messages say of a client stays true of it.
LEMMA FromClientGrows ==
  ASSUME Types, Grows, NEW m \in MsgType, FromClient(m)
  PROVE  FromClient(m)'
<1>1. m.from \in Client /\ m.n \in Nat
  BY LlmpAssumption DEF MsgType, FromClient, Attached
<1>2. client[m.from].sent \in Nat /\ client'[m.from].sent \in Nat
  BY <1>1, LlmpAssumption DEF Types, Grows, Clients
<1> QED
  BY <1>1, <1>2 DEF FromClient, Grows

LEMMA OnPageGrows ==
  ASSUME Types, Grows, NEW p \in Page, NEW m \in MsgType, OnPage(p, m)
  PROVE  OnPage(p, m)'
<1>1. p \in Client => (FromClient(m)' /\ (client[p].st = "left" => client'[p].st = "left"))
  BY FromClientGrows DEF OnPage, Grows, FromClient
<1> QED
  BY <1>1 DEF OnPage, Grows

\* A page that gets one message more.
LEMMA PagesAppend ==
  ASSUME Types, Grows, PagesOK, NEW p \in Page, NEW m \in MsgType, OnPage(p, m)',
         page' = [page EXCEPT ![p] = Append(@, m)]
  PROVE  PagesOK'
<1> SUFFICES ASSUME NEW q \in Page, NEW k \in DOMAIN page'[q], NEW x, x = page'[q][k]
             PROVE  OnPage(q, x)'
  BY DEF PagesOK, OnPage, FromClient
<1>1. page[q] \in Seq(MsgType) /\ page \in [Page -> Seq(MsgType)]
  BY DEF Types
<1>2. \A j \in DOMAIN page[q] : page[q][j] \in MsgType /\ OnPage(q, page[q][j])
  BY <1>1, Elements DEF PagesOK
<1>3. CASE q = p
  <2>1. page'[q] = Append(page[q], m)
    BY <1>1, <1>3
  <2>2. k \in DOMAIN page[q] \/ k = Len(page[q]) + 1
    BY <1>1, <2>1, AppendIs
  <2>3. x = m \/ (k \in DOMAIN page[q] /\ x = page[q][k])
    BY <1>1, <2>1, <2>2, AppendIs
  <2>4. x = m \/ (x \in MsgType /\ OnPage(q, x))
    BY <1>2, <2>3
  <2> QED
    BY <1>3, <2>4, OnPageGrows
<1>4. CASE q # p
  <2>1. x \in MsgType /\ OnPage(q, x)
    BY <1>1, <1>2, <1>4
  <2> QED
    BY <2>1, OnPageGrows
<1> QED
  BY <1>3, <1>4

\* What clients do leaves the broker and the proxy what they know.
LEMMA ClientsKeepBroker ==
  ASSUME Types, OutOK, ReceiversOK, LoopOK, MasterOK, Grows,
         UNCHANGED <<llmp_clients, out, loop, proxy, link, master>>
  PROVE  OutOK' /\ ReceiversOK' /\ LoopOK' /\ MasterOK'
<1>1. OutOK'
  <2>1. \A k \in DOMAIN out : out[k] \in MsgType
    BY Elements DEF Types
  <2> QED
    BY <2>1, FromClientGrows DEF OutOK
<1>2. ReceiversOK'
  BY DEF ReceiversOK, Grows, Attached
<1>3. LoopOK'
  <2>1. ASSUME NEW i \in loop.gone PROVE GivenUp(i)'
    <3>1. GivenUp(i) /\ (ShadowedAt(i) => ShadowedAt(i)')
      BY DEF LoopOK, ShadowedAt
    <3> QED
      BY <3>1 DEF GivenUp
  <2> QED
    BY <2>1 DEF LoopOK
<1>4. MasterOK'
  BY DEF MasterOK, Copied
<1> QED
  BY <1>1, <1>2, <1>3, <1>4

\* A message more keeps the order if it is not behind the client's others.
LEMMA AscendingAppend ==
  ASSUME NEW s \in Seq(MsgType), NEW m \in MsgType, NEW c, Ascending(s, c),
         m.kind = "testcase" /\ m.from = c =>
           \A i \in DOMAIN s : s[i].kind = "testcase" /\ s[i].from = c => s[i].n < m.n
  PROVE  Ascending(Append(s, m), c)
<1> DEFINE t == Append(s, m)
<1>1. /\ Len(s) \in Nat /\ DOMAIN s = 1..Len(s) /\ DOMAIN t = 1..(Len(s) + 1)
      /\ \A i \in DOMAIN s : t[i] = s[i]
      /\ t[Len(s) + 1] = m
  BY AppendIs, Elements
<1> HIDE DEF t
<1> SUFFICES ASSUME NEW i \in DOMAIN t, NEW j \in DOMAIN t, i < j,
                    t[i].kind = "testcase" /\ t[i].from = c,
                    t[j].kind = "testcase" /\ t[j].from = c
             PROVE  t[i].n < t[j].n
  BY DEF Ascending, t
<1>2. i \in DOMAIN s /\ t[i] = s[i]
  BY <1>1
<1>3. CASE j \in DOMAIN s
  BY <1>1, <1>2, <1>3 DEF Ascending
<1>4. CASE j \notin DOMAIN s
  <2>1. t[j] = m
    BY <1>1, <1>4
  <2> QED
    BY <1>2, <2>1
<1> QED
  BY <1>3, <1>4

\* The ids and the counts; only attaching changes them.
LEMMA AttachCounts ==
  ASSUME Types, IdsOK, CountsOK, NEW c \in Client, Attach(c)
  PROVE  IdsOK' /\ CountsOK'
<1> USE DEF Attach
<1>1. /\ client \in [Client -> Clients] /\ current_client_id \in Nat \ {0}
      /\ num_clients_total \in Nat
      /\ \A d \in Client : client[d].id \in Nat
      /\ page[Listener] \in Seq(MsgType) /\ page \in [Page -> Seq(MsgType)]
      /\ Listener \in Page
  BY DEF Types, Clients, Page
<1>2. /\ client'[c].st = "in" /\ client'[c].id = current_client_id
      /\ \A d \in Client \ {c} : client'[d] = client[d]
  BY <1>1 DEF Clients
<1>3. c \notin Attached /\ Attached' = Attached \cup {c}
  BY <1>2 DEF Attached
<1>4. IdsOK'
  BY <1>1, <1>2, <1>3 DEF IdsOK, Attached
<1>5. Cardinality(Attached') = Cardinality(Attached) + 1
  <2>1. IsFiniteSet(Attached)
    BY FS_Subset, LlmpAssumption DEF Attached
  <2> QED
    BY <1>3, <2>1, FS_AddElement
<1>6. Len(page'[Listener]) = Len(page[Listener]) + 1
  <2>1. Msg("new", c, 0, 0) \in MsgType
    BY MsgIs, LlmpAssumption DEF Page
  <2> QED
    BY <1>1, <2>1, AppendIs
<1>7. CountsOK'
  <2>1. Len(page[Listener]) \in Nat
    BY <1>1, Elements
  <2>2. current_client_id' = current_client_id + 1 /\ num_clients_total' = num_clients_total
    BY DEF broker
  <2>3. current_client_id = Cardinality(Attached) + 1
        /\ Len(page[Listener]) + num_clients_total = current_client_id + 1
    BY DEF CountsOK
  <2>4. current_client_id' = Cardinality(Attached') + 1
    BY <1>5, <2>2, <2>3
  <2>5. Len(page'[Listener]) + num_clients_total' = current_client_id' + 1
    BY <1>1, <1>6, <2>1, <2>2, <2>3
  <2> QED
    BY <2>4, <2>5 DEF CountsOK
<1> QED
  BY <1>4, <1>7

LEMMA OthersCount ==
  ASSUME Types, IdsOK, CountsOK, NEW c \in Client, Fire(c) \/ Leave(c) \/ Crash(c)
  PROVE  IdsOK' /\ CountsOK'
<1> USE DEF Fire, Leave, Crash, broker
<1>1. client \in [Client -> Clients] /\ page \in [Page -> Seq(MsgType)]
      /\ Listener \in Page /\ c # Listener
  BY LlmpAssumption DEF Types, Page
<1>2. \A d \in Client : /\ client'[d].id = client[d].id
                        /\ client'[d].st = "away" <=> client[d].st = "away"
  <2>1. \A d \in Client : client[d] \in Clients
    BY <1>1
  <2>2. CASE Fire(c)
    BY <1>1, <2>1, <2>2 DEF Clients
  <2>3. CASE Leave(c)
    BY <1>1, <2>1, <2>3 DEF Clients
  <2>4. CASE Crash(c)
    BY <1>1, <2>1, <2>4 DEF Clients
  <2> QED
    BY <2>2, <2>3, <2>4
<1>3. Attached' = Attached
  BY <1>2 DEF Attached
<1>4. page'[Listener] = page[Listener] /\ UNCHANGED <<current_client_id, num_clients_total>>
  BY <1>1
<1> QED
  BY <1>2, <1>3, <1>4 DEF IdsOK, CountsOK, Attached

\* What clients write.
LEMMA ClientPages ==
  ASSUME Types, PagesOK, IdsOK, OrderOK, OutOK, NEW c \in Client,
         Attach(c) \/ Fire(c) \/ Leave(c) \/ Crash(c)
  PROVE  PagesOK' /\ OrderOK'
<1> USE DEF broker
<1>0. Grows /\ UNCHANGED out
  BY ClientsGrow DEF Attach, Fire, Leave, Crash
<1>1. /\ page \in [Page -> Seq(MsgType)] /\ client \in [Client -> Clients]
      /\ c \in Page /\ Listener \in Page /\ c # Listener /\ c # Proxy
      /\ Listener # Proxy /\ Listener \notin Client
      /\ client[c].sent \in 0..MaxMsgs /\ client[c].id \in Nat /\ 0 \in 0..MaxMsgs
      /\ page[c] \in Seq(MsgType) /\ out \in Seq(MsgType)
  BY LlmpAssumption DEF Types, Page, Clients
<1>2. CASE Attach(c)
  <2> USE <1>2 DEF Attach
  <2> DEFINE m == Msg("new", c, 0, 0)
  <2>1. m \in MsgType /\ m.kind = "new" /\ m.from = c
    <3>1. c \in Page /\ 0 \in Nat /\ 0 \in 0..MaxMsgs
      BY <1>1
    <3> QED
      BY <3>1, MsgIs
  <2>2. c \in Attached'
    BY <1>1 DEF Attached
  <2> HIDE DEF m
  <2>3. OnPage(Listener, m)'
    BY <1>1, <2>1, <2>2 DEF OnPage
  <2>4. page' = [page EXCEPT ![Listener] = Append(@, m)]
    BY DEF m
  <2>5. PagesOK'
    <3> HIDE DEF Attach, Fire, Leave
    <3> QED
      BY <1>0, <1>1, <2>1, <2>3, <2>4, PagesAppend
  <2>6. \A d \in Client : page'[d] = page[d]
    BY <1>1, <2>4
  <2> QED
    BY <1>0, <2>5, <2>6 DEF OrderOK
<1>3. CASE Fire(c)
  <2> USE <1>3 DEF Fire
  <2>0. PICK m : m = Msg("testcase", c, client[c].id, client[c].sent + 1)
    OBVIOUS
  <2>1. m \in MsgType /\ m.kind = "testcase" /\ m.from = c
        /\ m.sender = client[c].id /\ m.n = client[c].sent + 1
    <3>1. client[c].sent + 1 \in 0..MaxMsgs
      BY <1>1, LlmpAssumption
    <3> QED
      BY <1>1, <2>0, <3>1, MsgIs
  <2>2. c \in Attached' /\ client'[c].sent = client[c].sent + 1
        /\ client'[c].id = client[c].id
    BY <1>1 DEF Attached, Clients
  <2>3. page' = [page EXCEPT ![c] = Append(@, m)]
    BY <2>0
  <2>4. OnPage(c, m)'
    <3> HIDE DEF Fire, Leave
    <3>1. m.n <= client'[c].sent
      BY <1>1, <2>1, <2>2
    <3>2. FromClient(m)'
      BY <2>1, <2>2, <3>1 DEF FromClient
    <3> QED
      BY <1>1, <2>1, <2>2, <3>2 DEF OnPage
  <2>5. PagesOK'
    <3> HIDE DEF Attach, Fire, Leave
    <3> QED
      BY <1>0, <1>1, <2>1, <2>3, <2>4, PagesAppend
  <2>6. /\ \A i \in DOMAIN out : out[i].kind = "testcase" /\ out[i].from = c
                                => out[i].n <= client[c].sent
        /\ \A i \in DOMAIN page[c] : page[c][i].n <= client[c].sent
    BY <1>1 DEF OutOK, PagesOK, OnPage, FromClient
  <2>6a. /\ \A i \in DOMAIN out : out[i].n \in Nat
         /\ \A i \in DOMAIN page[c] : page[c][i].n \in Nat
    <3>1. /\ \A i \in DOMAIN out : out[i] \in MsgType
          /\ \A i \in DOMAIN page[c] : page[c][i] \in MsgType
      BY <1>1, Elements
    <3> QED
      BY <3>1, LlmpAssumption DEF MsgType
  <2>7. /\ \A i \in DOMAIN out : out[i].kind = "testcase" /\ out[i].from = c
                                => out[i].n < m.n
        /\ \A i \in DOMAIN page[c] : page[c][i].n < m.n
    BY <1>1, <2>1, <2>6, <2>6a
  <2>8. page'[c] = Append(page[c], m) /\ \A d \in Client \ {c} : page'[d] = page[d]
    BY <1>1, <2>3
  <2>9. \A d \in Client : Ascending(page'[d], d)
    <3>1. \A d \in Client : Ascending(page[d], d)
      BY DEF OrderOK
    <3>2. Ascending(Append(page[c], m), c)
      BY <1>1, <2>1, <2>7, <3>1, AscendingAppend
    <3> QED
      BY <2>8, <3>1, <3>2
  <2>10. ASSUME NEW d \in Client, NEW i \in DOMAIN out, NEW j \in DOMAIN page'[d],
                out[i].kind = "testcase", page'[d][j].kind = "testcase", out[i].from = d
         PROVE  out[i].n < page'[d][j].n
    <3>1. CASE d = c /\ j \notin DOMAIN page[c]
      <4>1. page'[d][j] = m
        BY <1>1, <2>1, <2>8, <3>1, AppendIs
      <4> QED
        BY <2>7, <2>10, <3>1, <4>1
    <3>2. CASE ~(d = c /\ j \notin DOMAIN page[c])
      <4>1. j \in DOMAIN page[d] /\ page'[d][j] = page[d][j]
        BY <1>1, <2>1, <2>8, <3>2, AppendIs
      <4> QED
        BY <2>10, <4>1 DEF OrderOK
    <3> QED
      BY <3>1, <3>2
  <2> QED
    BY <1>0, <2>5, <2>9, <2>10 DEF OrderOK
<1>4. CASE Leave(c)
  <2> USE <1>4 DEF Leave
  <2>0. PICK m : m = Msg("exit", c, client[c].id, 0)
    OBVIOUS
  <2>1. m \in MsgType /\ m.kind = "exit" /\ m.from = c /\ m.sender = client[c].id
        /\ m.n = 0
    <3> HIDE DEF Leave
    <3>1. c \in Page /\ client[c].id \in Nat /\ 0 \in 0..MaxMsgs
      BY <1>1
    <3> QED
      BY <2>0, <3>1, MsgIs
  <2>2. c \in Attached' /\ client'[c].st = "left" /\ client'[c].id = client[c].id
        /\ client'[c].sent \in Nat
    BY <1>1 DEF Attached, Clients
  <2>3. page' = [page EXCEPT ![c] = Append(@, m)]
    BY <2>0
  <2>4. OnPage(c, m)'
    <3> HIDE DEF Fire, Leave
    <3>1. m.n <= client'[c].sent
      BY <1>1, <2>1, <2>2
    <3>2. FromClient(m)'
      BY <2>1, <2>2, <3>1 DEF FromClient
    <3> QED
      BY <1>1, <2>1, <2>2, <3>2 DEF OnPage
  <2>5. PagesOK'
    <3> HIDE DEF Attach, Fire, Leave
    <3> QED
      BY <1>0, <1>1, <2>1, <2>3, <2>4, PagesAppend
  <2>8. page'[c] = Append(page[c], m) /\ \A d \in Client \ {c} : page'[d] = page[d]
    BY <1>1, <2>3
  <2>9. \A d \in Client : Ascending(page'[d], d)
    <3>1. \A d \in Client : Ascending(page[d], d)
      BY DEF OrderOK
    <3>2. Ascending(Append(page[c], m), c)
      BY <1>1, <2>1, <3>1, AscendingAppend
    <3> QED
      BY <2>8, <3>1, <3>2
  <2>10. ASSUME NEW d \in Client, NEW j \in DOMAIN page'[d], page'[d][j].kind = "testcase"
         PROVE  j \in DOMAIN page[d] /\ page'[d][j] = page[d][j]
    BY <1>1, <2>1, <2>8, <2>10, AppendIs
  <2> QED
    BY <1>0, <2>5, <2>9, <2>10 DEF OrderOK
<1>5. CASE Crash(c)
  <2>1. PagesOK'
    <3>1. \A q \in Page : \A k \in DOMAIN page[q] : page[q][k] \in MsgType
      BY <1>1, Elements
    <3>2. ASSUME NEW q \in Page, NEW k \in DOMAIN page[q], NEW x, x = page[q][k]
          PROVE  OnPage(q, x)'
      BY <1>0, <3>1, <3>2, OnPageGrows DEF PagesOK
    <3>3. page' = page
      BY <1>5 DEF Crash
    <3> QED
      BY <3>2, <3>3 DEF PagesOK, OnPage, FromClient
  <2> QED
    BY <1>0, <1>5, <2>1 DEF Crash, OrderOK
<1> QED
  BY <1>2, <1>3, <1>4, <1>5

LEMMA ClientInv ==
  ASSUME LlmpInv, NEW c \in Client, Attach(c) \/ Fire(c) \/ Leave(c) \/ Crash(c)
  PROVE  LlmpInv'
<1>1. UNCHANGED <<llmp_clients, out, loop, proxy, link, master>>
  BY DEF Attach, Fire, Leave, Crash, broker
<1> QED
  BY <1>1, ClientTypes, ClientsGrow, ClientsKeepBroker, AttachCounts, OthersCount,
     ClientPages DEF LlmpInv

-----------------------------------------------------------------------------
(* What the broker does *)

\* The broker's page only grows, so that what the master has stays where it is.
LEMMA MasterKeeps ==
  ASSUME Types, MasterOK, NEW m, out' = Append(out, m) \/ out' = out,
         m \in MsgType, UNCHANGED <<proxy, link, master>>
  PROVE  MasterOK'
<1>1. /\ out \in Seq(MsgType) /\ proxy.pos \in 0..Len(out)
      /\ Len(out) \in Nat /\ DOMAIN out = 1..Len(out)
  BY Elements DEF Types, Proxies
<1>2. /\ DOMAIN out \subseteq DOMAIN out'
      /\ \A k \in DOMAIN out : out'[k] = out[k]
      /\ \A k \in DOMAIN out' : k \in DOMAIN out \/ k = Len(out) + 1
  BY <1>1, AppendIs
<1>3. PICK at \in [DOMAIN master -> 1..proxy.pos] :
        /\ Copied(at)
        /\ link # "down" =>
             \A k \in 1..proxy.pos :
               out[k].kind = "testcase" => \E i \in DOMAIN at : at[i] = k
  BY DEF MasterOK
<1>4. 1..proxy.pos \subseteq DOMAIN out /\ \A i \in DOMAIN at : at[i] \in 1..proxy.pos
  BY <1>1
<1>5. Copied(at)'
  <2>1. \A i \in DOMAIN at : at[i] \in DOMAIN out /\ out'[at[i]] = out[at[i]]
    BY <1>2, <1>4
  <2>2. ASSUME NEW j \in DOMAIN at, NEW k \in DOMAIN out', k < at[j]
        PROVE  k \in DOMAIN out /\ out'[k] = out[k]
    BY <1>1, <1>2, <1>4, <2>2
  <2> QED
    BY <1>3, <2>1, <2>2 DEF Copied
<1>6. link' # "down" =>
        \A k \in 1..proxy'.pos :
          out'[k].kind = "testcase" => \E i \in DOMAIN at : at[i] = k
  BY <1>2, <1>3, <1>4
<1> QED
  BY <1>3, <1>5, <1>6 DEF MasterOK

\* What FromClient and OnPage say does not change while clients do nothing.
LEMMA StillFrom ==
  ASSUME UNCHANGED client
  PROVE  /\ Attached' = Attached
         /\ \A m : FromClient(m)' <=> FromClient(m)
         /\ \A p, m : OnPage(p, m)' <=> OnPage(p, m)
  BY DEF Attached, FromClient, OnPage

LEMMA HandleMsgInv ==
  ASSUME LlmpInv, HandleMsg
  PROVE  LlmpInv'
<1> USE DEF LlmpInv
<1>1. PICK p \in Page : p = ReadPage(loop.i)
  BY TurnReads DEF HandleMsg
<1>2. PICK m : m = Head(page[p])
  OBVIOUS
<1>3. /\ loop.pc = "client" /\ page[p] # <<>>
      /\ m.kind # "exit"
      /\ page' = [page EXCEPT ![p] = Tail(@)]
      /\ loop' = [loop EXCEPT !.got = TRUE]
      /\ UNCHANGED <<current_client_id, client, proxy, link, master>>
      /\ m.kind = "new" =>
           /\ llmp_clients' = Append(llmp_clients, [id |-> NewId, page |-> m.from])
           /\ num_clients_total' = num_clients_total + 1
           /\ out' = out
      /\ m.kind # "new" =>
           /\ out' = Append(out, m)
           /\ llmp_clients' = llmp_clients /\ num_clients_total' = num_clients_total
  BY <1>1, <1>2 DEF HandleMsg, Forwarded
<1>4. Types'
  BY HandleMsgTypes
<1>5. /\ page \in [Page -> Seq(MsgType)] /\ page[p] \in Seq(MsgType)
      /\ out \in Seq(MsgType) /\ llmp_clients \in Seq(Receivers)
      /\ loop \in Loops(Len(llmp_clients)) /\ num_clients_total \in Nat
  BY DEF Types
<1>6. /\ m \in MsgType /\ page'[p] = Tail(page[p])
      /\ Len(page[p]) >= 1 /\ Len(page'[p]) = Len(page[p]) - 1 /\ Len(page[p]) \in Nat
      /\ DOMAIN page[p] = 1..Len(page[p]) /\ DOMAIN page'[p] = 1..(Len(page[p]) - 1)
      /\ \A k \in DOMAIN page'[p] : page'[p][k] = page[p][k + 1]
      /\ m = page[p][1]
      /\ \A q \in Page \ {p} : page'[q] = page[q]
  BY <1>2, <1>3, <1>5, TailIs, Elements
<1>6a. \A k \in DOMAIN page'[p] :
         k + 1 \in DOMAIN page[p] /\ 1 < k + 1 /\ page'[p][k] = page[p][k + 1]
  BY <1>6
<1>7. OnPage(p, m)
  BY <1>6 DEF PagesOK
<1>8. /\ m.kind = "new" => p = Listener /\ m.from \in Attached
      /\ m.kind # "new" => p \in Client /\ m.kind = "testcase" /\ m.from = p
                            /\ FromClient(m)
  <2>1. m.kind \in {"new", "testcase", "exit"}
    BY <1>6 DEF MsgType
  <2> QED
    BY <1>3, <1>7, <2>1 DEF OnPage, Page
<1> HIDE DEF LlmpInv
<1>9. IdsOK'
  BY <1>3 DEF IdsOK, Attached, LlmpInv
<1>10. CountsOK'
  <2>1. Len(page'[Listener]) + num_clients_total' = Len(page[Listener]) + num_clients_total
    <3>1. CASE m.kind = "new"
      BY <1>3, <1>5, <1>6, <1>8, <3>1
    <3>2. CASE m.kind # "new"
      <4>1. p # Listener /\ Listener \in Page
        BY <1>8, <3>2, LlmpAssumption DEF Page
      <4> QED
        BY <1>3, <1>6, <3>2, <4>1
    <3> QED
      BY <3>1, <3>2
  <2> QED
    BY <1>3, <2>1 DEF CountsOK, Attached, LlmpInv
<1>11. PagesOK'
  <2>1. ASSUME NEW q \in Page, NEW k \in DOMAIN page'[q]
        PROVE  \E j \in DOMAIN page[q] : page'[q][k] = page[q][j]
    <3>1. CASE q = p
      BY <1>6a, <2>1, <3>1
    <3>2. CASE q # p
      BY <1>6, <3>2
    <3> QED
      BY <3>1, <3>2
  <2>2. \A q \in Page : \A j \in DOMAIN page[q] : \A x : x = page[q][j] => OnPage(q, x)
    BY DEF PagesOK, LlmpInv
  <2>3. ASSUME NEW q \in Page, NEW k \in DOMAIN page'[q], NEW x, x = page'[q][k]
        PROVE  OnPage(q, x)'
    BY <1>3, <2>1, <2>2, <2>3, StillFrom
  <2> QED
    BY <2>3 DEF PagesOK, OnPage, FromClient
<1>12. OutOK'
  <2>1. ASSUME NEW k \in DOMAIN out', NEW x, x = out'[k], x.kind = "testcase"
        PROVE  FromClient(x)'
    <3>1. x = m \/ (k \in DOMAIN out /\ x = out[k])
      <4>1. CASE m.kind = "new"
        BY <1>3, <2>1, <4>1
      <4>2. CASE m.kind # "new"
        <5>1. out' = Append(out, m) /\ out \in Seq(MsgType) /\ m \in MsgType
          BY <1>3, <1>5, <1>6, <4>2
        <5> QED
          BY <2>1, <5>1, Appended
      <4> QED
        BY <4>1, <4>2
    <3>2. FromClient(x)
      <4>1. CASE x = m
        BY <1>8, <2>1, <4>1
      <4>2. CASE k \in DOMAIN out /\ x = out[k]
        BY <2>1, <4>2 DEF OutOK, LlmpInv
      <4> QED
        BY <3>1, <4>1, <4>2
    <3> QED
      BY <1>3, <3>2, StillFrom
  <2> QED
    BY <2>1 DEF OutOK, FromClient
<1>13. ReceiversOK' /\ LoopOK'
  <2>0. /\ Len(llmp_clients) \in Nat /\ DOMAIN llmp_clients = 1..Len(llmp_clients)
        /\ Len(llmp_clients) >= 1
    BY <1>5, Elements DEF ReceiversOK, LlmpInv
  <2>1. /\ Len(llmp_clients') >= Len(llmp_clients) /\ Len(llmp_clients') \in Nat
        /\ \A i \in DOMAIN llmp_clients : llmp_clients'[i] = llmp_clients[i]
        /\ \A i \in DOMAIN llmp_clients' :
             \/ i \in DOMAIN llmp_clients
             \/ m.kind = "new" /\ llmp_clients'[i].page = m.from
    <3>1. CASE m.kind = "new"
      <4>1. [id |-> NewId, page |-> m.from] \in Receivers
        BY <1>6, <2>0 DEF Receivers, NewId, MsgType
      <4> QED
        BY <1>3, <1>5, <2>0, <3>1, <4>1, AppendIs
    <3>2. CASE m.kind # "new"
      BY <1>3, <2>0, <3>2
    <3> QED
      BY <3>1, <3>2
  <2>2. ReceiversOK'
    <3>1. \A i \in 2..Len(llmp_clients) : llmp_clients[i].page \in Attached \cup {Proxy}
      BY DEF ReceiversOK, LlmpInv
    <3>2. ASSUME NEW i \in 2..Len(llmp_clients')
          PROVE  llmp_clients'[i].page \in Attached \cup {Proxy}
      <4>1. CASE i \in DOMAIN llmp_clients
        BY <2>0, <2>1, <3>1, <4>1
      <4>2. CASE i \notin DOMAIN llmp_clients
        <5>1. i \in DOMAIN llmp_clients'
          BY <1>4, Elements DEF Types
        <5> QED
          BY <1>8, <2>1, <4>2, <5>1
      <4> QED
        BY <4>1, <4>2
    <3>3. llmp_clients'[1] = llmp_clients[1] /\ Len(llmp_clients') >= 1
      BY <2>0, <2>1
    <3>4. llmp_clients[1] = [id |-> 0, page |-> Listener] /\ Attached' = Attached
      BY <1>3, StillFrom DEF ReceiversOK, LlmpInv
    <3> QED
      BY <3>2, <3>3, <3>4 DEF ReceiversOK
  <2>3. loop'.pc = "client" /\ loop'.i = loop.i /\ loop'.n = loop.n
        /\ loop'.gone = loop.gone /\ loop'.over = loop.over /\ loop.n \in Nat
    BY <1>3, <1>5 DEF Loops
  <2>4. ASSUME NEW i \in loop.gone PROVE GivenUp(i)'
    <3>1. i \in 1..Len(llmp_clients) /\ GivenUp(i)
      BY <1>5 DEF Loops, LoopOK, LlmpInv
    <3>2. ShadowedAt(i) => ShadowedAt(i)'
      BY <2>0, <2>1, <3>1 DEF ShadowedAt
    <3> QED
      BY <2>0, <2>1, <2>3, <3>1, <3>2 DEF GivenUp
  <2> QED
    BY <1>3, <2>0, <2>1, <2>2, <2>3, <2>4 DEF LoopOK, LlmpInv
<1>14. OrderOK'
  <2>1. CASE m.kind = "new"
    <3>1. \A c \in Client : page'[c] = page[c]
      BY <1>6, <1>8, <2>1, LlmpAssumption DEF Page
    <3> QED
      BY <1>3, <2>1, <3>1 DEF OrderOK, LlmpInv
  <2>2. CASE m.kind # "new"
    <3>1. /\ p \in Client /\ m.kind = "testcase" /\ m.from = p
          /\ out' = Append(out, m)
          /\ \A c \in Client \ {p} : page'[c] = page[c]
      BY <1>3, <1>6, <1>8, <2>2 DEF Page
    <3>2. \A c \in Client :
            /\ Ascending(out, c) /\ Ascending(page[c], c)
            /\ \A i \in DOMAIN out, j \in DOMAIN page[c] :
                 out[i].kind = "testcase" /\ page[c][j].kind = "testcase" /\ out[i].from = c
                   => out[i].n < page[c][j].n
      BY DEF OrderOK, LlmpInv
    <3>3. 1 \in DOMAIN page[p]
      BY <1>6
    <3>4. ASSUME NEW c \in Client PROVE Ascending(out', c)
      <4>1. m.from = c => \A i \in DOMAIN out :
              out[i].kind = "testcase" /\ out[i].from = c => out[i].n < m.n
        BY <1>6, <3>1, <3>2, <3>3
      <4>2. out \in Seq(MsgType) /\ m \in MsgType /\ Ascending(out, c)
        BY <1>5, <1>6, <3>2
      <4>3. Ascending(Append(out, m), c)
        BY <4>1, <4>2, AscendingAppend
      <4> QED
        BY <3>1, <4>3
    <3>6. Ascending(page'[p], p)
      <4>1. \A i, j \in DOMAIN page'[p] : i < j => i + 1 < j + 1
        BY <1>6
      <4> QED
        BY <1>6a, <3>1, <3>2, <4>1 DEF Ascending
    <3>7. \A c \in Client : Ascending(page'[c], c)
      BY <3>1, <3>2, <3>6
    <3>7a. \A j \in DOMAIN page[p] : page[p][j].from = p
      BY <3>1, LlmpAssumption DEF PagesOK, LlmpInv, OnPage, Page
    <3>8. ASSUME NEW c \in Client, NEW i \in DOMAIN out', NEW j \in DOMAIN page'[c],
                 out'[i].kind = "testcase", page'[c][j].kind = "testcase", out'[i].from = c
          PROVE  out'[i].n < page'[c][j].n
      <4>1. CASE i \in DOMAIN out
        <5>1. out'[i] = out[i]
          BY <1>5, <1>6, <3>1, <4>1, AppendIs
        <5>2. \E k \in DOMAIN page[c] : page'[c][j] = page[c][k]
          <6>1. CASE c = p
            BY <1>6a, <3>8, <6>1
          <6>2. CASE c # p
            BY <3>1, <3>8, <6>2
          <6> QED
            BY <6>1, <6>2
        <5> QED
          BY <3>2, <3>8, <4>1, <5>1, <5>2
      <4>2. CASE i \notin DOMAIN out
        <5>1. out'[i] = m
          BY <1>5, <1>6, <3>1, <4>2, AppendIs
        <5>2. c = p
          BY <3>1, <3>8, <5>1
        <5>3. page'[p][j] = page[p][j + 1] /\ j + 1 \in DOMAIN page[p] /\ 1 < j + 1
          BY <1>6a, <3>8, <5>2
        <5>4. /\ page[p][1].kind = "testcase" /\ page[p][1].from = p
              /\ page[p][j + 1].kind = "testcase" /\ page[p][j + 1].from = p
          BY <1>6, <3>1, <3>7a, <3>8, <5>2, <5>3
        <5>5. page[p][1].n < page[p][j + 1].n
          BY <3>1, <3>2, <3>3, <5>3, <5>4 DEF Ascending
        <5> QED
          BY <1>6, <5>1, <5>2, <5>3, <5>5
      <4> QED
        BY <4>1, <4>2
    <3> QED
      BY <3>4, <3>7, <3>8 DEF OrderOK
  <2> QED
    BY <2>1, <2>2
<1>15. MasterOK'
  BY <1>3, <1>6, MasterKeeps DEF LlmpInv
<1> QED
  BY <1>4, <1>9, <1>10, <1>11, <1>12, <1>13, <1>14, <1>15 DEF LlmpInv

\* The receiver whose turn it is may be given up when its turn ends so.
LEMMA GivesUp ==
  ASSUME LlmpInv, loop.pc = "client",
         \/ page[ReadPage(loop.i)] # <<>> /\ Head(page[ReadPage(loop.i)]).kind = "exit"
         \/ llmp_clients[loop.i].page # Listener
  PROVE  /\ loop.i \in DOMAIN llmp_clients
         /\ llmp_clients[loop.i].page # Listener
         /\ llmp_clients[loop.i].page = ReadPage(loop.i) \/ ShadowedAt(loop.i)
<1>1. /\ loop.i \in DOMAIN llmp_clients
      /\ ReadPage(loop.i) \in Page
      /\ ~ShadowedAt(loop.i) => ReadPage(loop.i) = llmp_clients[loop.i].page
  BY TurnReads DEF LlmpInv
<1>2. PICK p \in Page : p = ReadPage(loop.i)
  BY <1>1
<1>3. CASE page[p] # <<>> /\ Head(page[p]).kind = "exit"
  <2>1. page[p] \in Seq(MsgType)
    BY DEF LlmpInv, Types
  <2>2. 1 \in DOMAIN page[p] /\ Head(page[p]) = page[p][1]
    BY <1>3, <2>1, TailIs
  <2>3. PICK m : m = page[p][1]
    OBVIOUS
  <2>4. OnPage(p, m) /\ m.kind = "exit"
    BY <1>3, <2>2, <2>3 DEF LlmpInv, PagesOK
  <2>5. p # Listener
    BY <2>4 DEF OnPage
  <2>6. CASE ShadowedAt(loop.i)
    <3>1. loop.i # 1
      BY <2>6 DEF ShadowedAt
    <3> QED
      BY <1>1, <2>6, <3>1, ReceiverIs DEF LlmpInv
  <2> QED
    BY <1>1, <1>2, <2>5, <2>6
<1> QED
  BY <1>1, <1>2, <1>3

\* What the loop of the broker alone changes leaves the rest as it is.
LEMMA LoopOnly ==
  ASSUME LlmpInv, UNCHANGED <<num_clients_total, out, page, current_client_id, client,
                              proxy, link, master>>
  PROVE  IdsOK' /\ CountsOK' /\ PagesOK' /\ OutOK' /\ OrderOK' /\ MasterOK'
<1>1. IdsOK' /\ CountsOK'
  BY DEF LlmpInv, IdsOK, CountsOK, Attached
<1>2. PagesOK'
  BY DEF LlmpInv, PagesOK, OnPage, FromClient, Attached
<1>3. OutOK'
  BY DEF LlmpInv, OutOK, FromClient, Attached
<1>4. OrderOK'
  BY DEF LlmpInv, OrderOK
<1>5. MasterOK'
  BY DEF LlmpInv, MasterOK, Copied
<1> QED
  BY <1>1, <1>2, <1>3, <1>4, <1>5

\* The end of a receiver's turn.
LEMMA ReceiverDone ==
  ASSUME LlmpInv, HandleExit \/ (\E late \in BOOLEAN : NoMoreMsgs(late))
  PROVE  LlmpInv'
<1>1. /\ UNCHANGED <<llmp_clients, num_clients_total, out, page, current_client_id,
                     client, proxy, link, master>>
      /\ loop.pc = "client"
  BY DEF HandleExit, NoMoreMsgs
<1>2. \E g \in {loop, Disconnected} :
         /\ loop' = NextClient(g)
         /\ g # loop =>
              \/ page[ReadPage(loop.i)] # <<>>
                 /\ Head(page[ReadPage(loop.i)]).kind = "exit"
              \/ llmp_clients[loop.i].page # Listener
  BY DEF HandleExit, NoMoreMsgs
<1>3. Types'
  BY LoopTypes DEF LlmpInv
<1>4. /\ loop \in Loops(Len(llmp_clients)) /\ loop.i \in Nat /\ loop.n \in Nat
      /\ Len(llmp_clients) \in Nat
      /\ 1 <= loop.i /\ loop.i <= loop.n /\ loop.n <= Len(llmp_clients)
      /\ \A i \in loop.gone : GivenUp(i)
      /\ ReadPage(loop.i) \in Page
  BY <1>1, Elements, TurnReads DEF LlmpInv, Types, Loops, LoopOK
<1> DEFINE GivenUpIn(l, i) ==
             /\ llmp_clients[i].page # Listener
             /\ llmp_clients[i].page \in l.over \/ ShadowedAt(i)
<1>5. PICK g \in {loop, Disconnected} :
         /\ \A i \in g.gone : GivenUpIn(loop', i)
         /\ loop'.gone = g.gone /\ loop'.n = loop.n /\ loop'.i = loop.i + 1
         /\ loop'.pc = IF loop.i = loop.n THEN "sweep" ELSE "client"
  <2>1. PICK g \in {loop, Disconnected} :
          /\ loop' = NextClient(g)
          /\ g # loop => /\ llmp_clients[loop.i].page # Listener
                         /\ \/ llmp_clients[loop.i].page = ReadPage(loop.i)
                            \/ ShadowedAt(loop.i)
    BY <1>1, <1>2, GivesUp
  <2>2. /\ g.i = loop.i /\ g.n = loop.n
        /\ \/ g.gone = loop.gone /\ g.over = loop.over
           \/ /\ g # loop /\ g.gone = loop.gone \cup {loop.i}
              /\ g.over = loop.over \cup {ReadPage(loop.i)}
    BY <1>4 DEF Loops, Disconnected
  <2>3. \A i \in g.gone : GivenUpIn(g, i)
    BY <1>4, <2>1, <2>2 DEF GivenUp
  <2>4. g \in [pc : {"client", "sweep", "exited"}, i : Nat, n : Nat, got : BOOLEAN,
               gone : SUBSET Nat, over : SUBSET Page]
    <3>1. /\ loop.gone \subseteq Nat /\ loop.gone \cup {loop.i} \subseteq Nat
          /\ loop.over \subseteq Page
          /\ loop.over \cup {ReadPage(loop.i)} \subseteq Page
      BY <1>4 DEF Loops
    <3>2. CASE g = loop
      BY <1>4, <3>1, <3>2 DEF Loops
    <3>3. CASE g = Disconnected
      BY <1>4, <3>1, <3>3 DEF Loops, Disconnected
    <3> QED
      BY <3>2, <3>3
  <2>5. /\ loop'.gone = g.gone /\ loop'.n = g.n /\ loop'.i = g.i + 1
        /\ loop'.over = g.over
        /\ loop'.pc = IF g.i = g.n THEN "sweep" ELSE "client"
    BY <2>1, <2>4 DEF NextClient
  <2> QED
    BY <2>2, <2>3, <2>5
<1>6. LoopOK'
  <2>1. \A i \in loop'.gone : GivenUp(i)'
    BY <1>1, <1>5 DEF GivenUp, ShadowedAt
  <2>2. loop'.pc = "client" =>
          1 <= loop'.i /\ loop'.i <= loop'.n /\ loop'.n <= Len(llmp_clients')
    BY <1>1, <1>4, <1>5
  <2> QED
    BY <2>1, <2>2 DEF LoopOK
<1>7. ReceiversOK'
  BY <1>1 DEF LlmpInv, ReceiversOK, Attached
<1> QED
  BY <1>1, <1>3, <1>6, <1>7, LoopOnly DEF LlmpInv

\* Who is given up leaves; the listener stays.
LEMMA GiveUpInv ==
  ASSUME LlmpInv, NEW k \in DOMAIN llmp_clients, GiveUp(k)
  PROVE  LlmpInv'
<1>1. /\ loop.pc = "sweep" /\ LastGone(k)
      /\ llmp_clients' = RemoveAt(llmp_clients, k)
      /\ loop' = [loop EXCEPT !.gone = @ \ {k}]
      /\ UNCHANGED <<num_clients_total, out, page, current_client_id, client, proxy,
                     link, master>>
  BY DEF GiveUp
<1>2. Types'
  BY GiveUpTypes DEF LlmpInv
<1>3. /\ llmp_clients \in Seq(Receivers) /\ loop \in Loops(Len(llmp_clients))
      /\ Len(llmp_clients) \in Nat /\ DOMAIN llmp_clients = 1..Len(llmp_clients)
      /\ k \in 1..Len(llmp_clients)
  BY Elements DEF LlmpInv, Types
<1>4. loop'.pc = "sweep" /\ loop'.gone = loop.gone \ {k} /\ loop'.over = loop.over
      /\ loop.gone \subseteq 1..Len(llmp_clients)
  BY <1>1, <1>3 DEF Loops
<1>5. k # 1
  <2>1. GivenUp(k)
    BY <1>1 DEF LastGone, LlmpInv, LoopOK
  <2> QED
    BY <2>1, ReceiverIs, LlmpAssumption DEF GivenUp, LlmpInv
<1>6. /\ Len(llmp_clients') = Len(llmp_clients) - 1
      /\ \A i \in 1..(Len(llmp_clients) - 1) :
           llmp_clients'[i] = IF i < k THEN llmp_clients[i] ELSE llmp_clients[i + 1]
  BY <1>1, <1>3, RemoveAtIs
<1>7. ReceiversOK'
  <2>1. Len(llmp_clients') >= 1 /\ llmp_clients'[1] = llmp_clients[1]
    BY <1>3, <1>5, <1>6
  <2>2. ASSUME NEW i \in 2..Len(llmp_clients')
        PROVE  llmp_clients'[i].page \in Attached \cup {Proxy}
    <3>1. i \in 1..(Len(llmp_clients) - 1) /\ i \in 2..Len(llmp_clients)
          /\ i + 1 \in 2..Len(llmp_clients)
      BY <1>3, <1>6
    <3>2. llmp_clients'[i] \in {llmp_clients[i], llmp_clients[i + 1]}
      BY <1>6, <3>1
    <3> QED
      BY <3>1, <3>2 DEF LlmpInv, ReceiversOK
  <2> QED
    BY <1>1, <2>1, <2>2, StillFrom DEF LlmpInv, ReceiversOK
<1>8. LoopOK'
  <2>1. ASSUME NEW i \in loop'.gone PROVE GivenUp(i)'
    <3>1. i \in loop.gone /\ i < k /\ i \in 1..(Len(llmp_clients) - 1)
      BY <1>1, <1>3, <1>4 DEF LastGone
    <3>2. \A j \in 1..i : llmp_clients'[j] = llmp_clients[j]
      BY <1>3, <1>6, <3>1
    <3>3. GivenUp(i)
      BY <3>1 DEF LlmpInv, LoopOK
    <3>4. i \in 1..i /\ \A j \in 1..(i - 1) : j \in 1..i
      BY <3>1
    <3> QED
      BY <1>4, <3>2, <3>3, <3>4 DEF GivenUp, ShadowedAt
  <2> QED
    BY <1>4, <2>1 DEF LoopOK
<1> QED
  BY <1>1, <1>2, <1>7, <1>8, LoopOnly DEF LlmpInv

\* The end of once and, when nobody is left, of the broker.
LEMMA TurnInv ==
  ASSUME LlmpInv, Turn
  PROVE  LlmpInv'
<1>1. PICK m : m = Msg("exit", Listener, 0, 0)
  OBVIOUS
<1>2. /\ loop.gone = {}
      /\ \/ loop' = [loop EXCEPT !.pc = "exited"] /\ out' = Append(out, m)
         \/ loop' = Start(Len(llmp_clients)) /\ out' = out
      /\ UNCHANGED <<llmp_clients, num_clients_total, page, current_client_id, client,
                     proxy, link, master>>
  BY <1>1 DEF Turn
<1>3. Types'
  BY LoopTypes DEF LlmpInv
<1>4. m \in MsgType /\ m.kind = "exit"
  <2>1. Listener \in Page /\ 0 \in Nat /\ 0 \in 0..MaxMsgs
    BY LlmpAssumption DEF Page
  <2> QED
    BY <1>1, <2>1, MsgIs
<1>5. out \in Seq(MsgType) /\ page \in [Page -> Seq(MsgType)]
  BY DEF LlmpInv, Types
<1>6. IdsOK' /\ CountsOK' /\ PagesOK' /\ ReceiversOK'
  <2>1. IdsOK' /\ CountsOK'
    BY <1>2 DEF LlmpInv, IdsOK, CountsOK, Attached
  <2>2. PagesOK'
    BY <1>2 DEF LlmpInv, PagesOK, OnPage, FromClient, Attached
  <2>3. ReceiversOK'
    BY <1>2 DEF LlmpInv, ReceiversOK, Attached
  <2> QED
    BY <2>1, <2>2, <2>3
<1>7. ASSUME NEW k \in DOMAIN out', out'[k].kind = "testcase"
      PROVE  k \in DOMAIN out /\ out'[k] = out[k]
  <2>1. CASE out' = out
    BY <2>1, <1>7
  <2>2. CASE out' = Append(out, m)
    BY <1>4, <1>5, <1>7, <2>2, Appended
  <2> QED
    BY <1>2, <2>1, <2>2
<1>8. OutOK'
  <2>1. ASSUME NEW k \in DOMAIN out', NEW x, x = out'[k], x.kind = "testcase"
        PROVE  FromClient(x)'
    BY <1>2, <1>7, <2>1, StillFrom DEF LlmpInv, OutOK
  <2> QED
    BY <2>1 DEF OutOK, FromClient
<1>9. LoopOK'
  <2>1. CASE loop' = [loop EXCEPT !.pc = "exited"]
    <3>1. loop'.pc = "exited" /\ loop'.gone = loop.gone
      BY <2>1 DEF LlmpInv, Types, Loops
    <3> QED
      BY <1>2, <3>1 DEF LoopOK
  <2>2. CASE loop' = Start(Len(llmp_clients))
    <3>1. loop'.i = 1 /\ loop'.n = Len(llmp_clients) /\ loop'.gone = {}
      BY <2>2 DEF Start
    <3>2. Len(llmp_clients) \in Nat /\ Len(llmp_clients) >= 1
      BY Elements DEF LlmpInv, Types, ReceiversOK
    <3> QED
      BY <1>2, <3>1, <3>2 DEF LoopOK
  <2> QED
    BY <1>2, <2>1, <2>2
<1>10. OrderOK'
  <2>1. ASSUME NEW c \in Client PROVE Ascending(out, c)' /\ Ascending(page[c], c)'
    <3>1. Ascending(out, c) /\ Ascending(page[c], c)
      BY DEF LlmpInv, OrderOK
    <3>2. Ascending(Append(out, m), c)
      BY <1>4, <1>5, <3>1, AscendingAppend
    <3> QED
      BY <1>2, <3>1, <3>2
  <2>2. \A c \in Client : \A i \in DOMAIN out', j \in DOMAIN page'[c] :
          out'[i].kind = "testcase" /\ page'[c][j].kind = "testcase" /\ out'[i].from = c
            => out'[i].n < page'[c][j].n
    BY <1>2, <1>7 DEF LlmpInv, OrderOK
  <2> QED
    BY <2>1, <2>2 DEF OrderOK
<1>11. MasterOK'
  BY <1>2, <1>4, MasterKeeps DEF LlmpInv
<1> QED
  BY <1>3, <1>6, <1>8, <1>9, <1>10, <1>11 DEF LlmpInv

LEMMA BrokerInv ==
  ASSUME LlmpInv, BrokerStep
  PROVE  LlmpInv'
BY HandleMsgInv, ReceiverDone, GiveUpInv, TurnInv DEF BrokerStep

-----------------------------------------------------------------------------
(* The proxy thread and the master *)

\* The proxy takes every testcase to be wanted: all come from clients with ids.
LEMMA TestcaseWanted ==
  ASSUME LlmpInv, NEW k \in DOMAIN out, out[k].kind = "testcase"
  PROVE  Wanted(out[k])
<1>1. PICK m : m = out[k]
  OBVIOUS
<1>2. FromClient(m) /\ m.kind = "testcase"
  BY <1>1 DEF LlmpInv, OutOK
<1>3. m.sender # 0
  BY <1>2 DEF LlmpInv, IdsOK, FromClient, Attached
<1> QED
  BY <1>1, <1>2, <1>3 DEF Wanted, OwnId

\* The proxy reads a message that is not for the master, or one that is: then it
\* has it, or the link is closed.
LEMMA ProxyReads ==
  ASSUME LlmpInv, Types', UNCHANGED <<out, link>>, proxy.pos < Len(out),
         proxy'.pos = proxy.pos + 1,
         NEW m, m = out[proxy.pos + 1],
         \/ master' = master /\ (m.kind # "testcase" \/ link = "down")
         \/ master' = Append(master, m) /\ link # "down" /\ m.kind = "testcase"
  PROVE  MasterOK'
<1>1. /\ out \in Seq(MsgType) /\ master \in Seq(MsgType) /\ proxy.pos \in 0..Len(out)
      /\ Len(out) \in Nat /\ DOMAIN out = 1..Len(out)
      /\ Len(master) \in Nat /\ DOMAIN master = 1..Len(master)
  BY Elements DEF LlmpInv, Types, Proxies
<1>2. PICK at \in [DOMAIN master -> 1..proxy.pos] :
        /\ Copied(at)
        /\ link # "down" =>
             \A k \in 1..proxy.pos :
               out[k].kind = "testcase" => \E i \in DOMAIN at : at[i] = k
  BY DEF LlmpInv, MasterOK
<1>3. /\ proxy.pos + 1 \in DOMAIN out /\ proxy.pos \in Nat
      /\ 1..proxy'.pos = 1..proxy.pos \cup {proxy.pos + 1}
      /\ \A k \in 1..proxy.pos : k \in DOMAIN out /\ k < proxy.pos + 1
      /\ m \in MsgType
  BY <1>1, Elements
<1>4. CASE master' = master /\ (m.kind # "testcase" \/ link = "down")
  <2>1. at \in [DOMAIN master' -> 1..proxy'.pos]
    BY <1>2, <1>3, <1>4
  <2>2. Copied(at)'
    BY <1>2, <1>4 DEF Copied
  <2>3. link' # "down" =>
          \A k \in 1..proxy'.pos :
            out'[k].kind = "testcase" => \E i \in DOMAIN at : at[i] = k
    BY <1>2, <1>3, <1>4
  <2> QED
    BY <2>1, <2>2, <2>3 DEF MasterOK
<1>5. CASE master' = Append(master, m) /\ link # "down" /\ m.kind = "testcase"
  <2> DEFINE n == Len(master) + 1
  <2>0. PICK bt : bt = [i \in DOMAIN master' |-> IF i \in DOMAIN master THEN at[i]
                                                  ELSE proxy.pos + 1]
    OBVIOUS
  <2>1. /\ \A i \in DOMAIN master' :
             \/ i \in DOMAIN master /\ master'[i] = master[i]
             \/ i = n /\ master'[i] = m
        /\ DOMAIN master' = 1..n /\ n \notin DOMAIN master
        /\ DOMAIN master \subseteq DOMAIN master'
    <3>0. master \in Seq(MsgType) /\ m \in MsgType /\ master' = Append(master, m)
      BY <1>1, <1>3, <1>5
    <3>1. ASSUME NEW i \in DOMAIN master'
          PROVE  \/ i \in DOMAIN master /\ master'[i] = master[i]
                 \/ i = n /\ master'[i] = m
      BY <3>0, Appended
    <3>2. DOMAIN master' = 1..n
      BY <3>0, AppendIs
    <3> QED
      BY <1>1, <3>1, <3>2
  <2>2. /\ \A i \in DOMAIN master : bt[i] = at[i] /\ at[i] \in 1..proxy.pos
        /\ bt[n] = proxy.pos + 1
        /\ DOMAIN bt = DOMAIN master' /\ DOMAIN at = DOMAIN master
    BY <1>1, <1>2, <2>0, <2>1
  <2>3. bt \in [DOMAIN master' -> 1..proxy'.pos]
    <3>1. ASSUME NEW i \in DOMAIN master' PROVE bt[i] \in 1..proxy'.pos
      BY <1>3, <2>1, <2>2
    <3> QED
      BY <2>0, <3>1
  <2>4. ASSUME NEW i \in DOMAIN bt
        PROVE  out[bt[i]] = master'[i] /\ out[bt[i]].kind = "testcase"
    BY <1>2, <1>5, <2>1, <2>2, <2>4 DEF Copied
  <2>5. ASSUME NEW i \in DOMAIN bt, NEW j \in DOMAIN bt, i < j PROVE bt[i] < bt[j]
    <3>1. i \in DOMAIN master
      BY <1>1, <2>1, <2>2, <2>5
    <3>2. CASE j \in DOMAIN master
      BY <1>2, <2>2, <2>5, <3>1, <3>2 DEF Copied
    <3>3. CASE j \notin DOMAIN master
      BY <1>3, <2>1, <2>2, <3>1, <3>3
    <3> QED
      BY <3>2, <3>3
  <2>6. ASSUME NEW k \in 1..proxy'.pos, out[k].kind = "testcase"
        PROVE  \E i \in DOMAIN bt : bt[i] = k
    <3>1. CASE k \in 1..proxy.pos
      BY <1>2, <1>5, <2>1, <2>2, <2>6, <3>1
    <3>2. CASE k = proxy.pos + 1
      <4>1. n \in DOMAIN bt
        BY <1>1, <2>1, <2>2
      <4> QED
        BY <2>2, <3>2, <4>1
    <3> QED
      BY <1>3, <3>1, <3>2
  <2>7. \A j \in DOMAIN bt, k \in DOMAIN out : k < bt[j] => k \in 1..proxy'.pos
    BY <1>1, <1>3, <2>3
  <2>8. Copied(bt)'
    BY <2>4, <2>5, <2>6, <2>7 DEF Copied
  <2> QED
    BY <2>3, <2>6, <2>8 DEF MasterOK
<1> QED
  BY <1>4, <1>5

LEMMA ProxyInv ==
  ASSUME LlmpInv, ProxyStep \/ MasterSpeaks \/ MasterLeaves
  PROVE  LlmpInv'
<1>1. UNCHANGED <<broker, page, current_client_id, client>>
  BY DEF ProxyStep, ProxySends, ProxyReceives, MasterSpeaks, MasterLeaves
<1>2. Types'
  BY ProxyTypes DEF LlmpInv
<1>3. /\ UNCHANGED <<llmp_clients, num_clients_total, out, loop, page, current_client_id,
                     client>>
  BY <1>1 DEF broker
<1>4. IdsOK' /\ CountsOK' /\ PagesOK' /\ OutOK' /\ OrderOK' /\ ReceiversOK' /\ LoopOK'
  <2>1. IdsOK' /\ CountsOK' /\ ReceiversOK'
    BY <1>3 DEF LlmpInv, IdsOK, CountsOK, ReceiversOK, Attached
  <2>2. PagesOK' /\ OutOK' /\ OrderOK'
    BY <1>3 DEF LlmpInv, PagesOK, OnPage, FromClient, Attached, OutOK, OrderOK
  <2>3. LoopOK'
    BY <1>3 DEF LlmpInv, LoopOK, GivenUp, ShadowedAt
  <2> QED
    BY <2>1, <2>2, <2>3
<1>5. proxy \in Proxies(Len(out)) /\ out \in Seq(MsgType) /\ Len(out) \in Nat
  BY Elements DEF LlmpInv, Types
<1>6. CASE master' = master /\ proxy'.pos = proxy.pos /\ (link' # "down" => link # "down")
  <2>1. MasterOK'
    BY <1>3, <1>6 DEF LlmpInv, MasterOK, Copied
  <2> QED
    BY <1>2, <1>4, <2>1 DEF LlmpInv
<1>7. CASE ProxySends
  <2>1. PICK m : m = out[proxy.pos + 1]
    OBVIOUS
  <2>2. /\ proxy.pos < Len(out) /\ UNCHANGED link
        /\ \/ proxy' = [proxy EXCEPT !.alive = FALSE] /\ master' = master
           \/ /\ proxy' \in {[proxy EXCEPT !.pos = @ + 1, !.row = @ + 1],
                             [proxy EXCEPT !.pos = @ + 1, !.row = SendLimit]}
              /\ \/ master' = master /\ (~Wanted(m) \/ link = "down")
                 \/ master' = Append(master, m) /\ link # "down" /\ Wanted(m)
    BY <1>7, <2>1 DEF ProxySends, ProxyEnds
  <2>3. CASE proxy' = [proxy EXCEPT !.alive = FALSE] /\ master' = master
    BY <1>5, <1>6, <2>2, <2>3 DEF Proxies
  <2>4. CASE /\ proxy' \in {[proxy EXCEPT !.pos = @ + 1, !.row = @ + 1],
                            [proxy EXCEPT !.pos = @ + 1, !.row = SendLimit]}
             /\ \/ master' = master /\ (~Wanted(m) \/ link = "down")
                \/ master' = Append(master, m) /\ link # "down" /\ Wanted(m)
    <3>1. proxy'.pos = proxy.pos + 1
      BY <1>5, <2>4 DEF Proxies
    <3>2. proxy.pos + 1 \in DOMAIN out
      BY <1>5, <2>2, Elements DEF Proxies
    <3>3. Wanted(m) <=> m.kind = "testcase"
      BY <2>1, <3>2, TestcaseWanted DEF Wanted
    <3>4. MasterOK'
      BY <1>2, <1>3, <2>1, <2>2, <2>4, <3>1, <3>3, ProxyReads
    <3> QED
      BY <1>2, <1>4, <3>4 DEF LlmpInv
  <2> QED
    BY <2>2, <2>3, <2>4
<1>8. CASE ProxyReceives
  <2>1. master' = master /\ link' = link
        /\ proxy' \in {[proxy EXCEPT !.alive = FALSE], [proxy EXCEPT !.row = 0]}
    BY <1>8 DEF ProxyReceives, ProxyEnds
  <2>2. proxy'.pos = proxy.pos
    BY <1>5, <2>1 DEF Proxies
  <2> QED
    BY <1>6, <2>1, <2>2
<1>9. CASE MasterSpeaks \/ MasterLeaves
  BY <1>6, <1>9 DEF MasterSpeaks, MasterLeaves
<1> QED
  BY <1>2, <1>4, <1>6, <1>7, <1>8, <1>9 DEF LlmpInv, ProxyStep

-----------------------------------------------------------------------------
(* The theorems *)

LEMMA InitInv == Init => LlmpInv
<1> SUFFICES ASSUME Init PROVE LlmpInv
  OBVIOUS
<1> USE DEF Init
<1>1. Types
  BY InitTypes
<1>2. Attached = {} /\ \A c \in Client : client[c].id = 0
  BY DEF Attached
<1>3. \A p \in Page : page[p] = <<>> /\ DOMAIN page[p] = {}
  OBVIOUS
<1>4. DOMAIN out = {} /\ DOMAIN master = {} /\ proxy.pos = 0
  OBVIOUS
<1>5. IdsOK
  BY <1>2 DEF IdsOK
<1>6. CountsOK
  <2>1. Cardinality(Attached) = 0
    BY <1>2, FS_EmptySet
  <2>2. Len(page[Listener]) = 0
    BY DEF Page
  <2> QED
    BY <2>1, <2>2 DEF CountsOK
<1>7. PagesOK /\ OutOK /\ OrderOK
  <2>1. PagesOK
    BY <1>3 DEF PagesOK
  <2>2. OutOK
    BY <1>4 DEF OutOK
  <2>3. OrderOK
    BY <1>3, <1>4 DEF OrderOK, Ascending, Page
  <2> QED
    BY <2>1, <2>2, <2>3
<1>8. ReceiversOK
  <2>1. Len(llmp_clients) = 2 /\ llmp_clients[2].page = Proxy
    OBVIOUS
  <2> QED
    BY <2>1 DEF ReceiversOK
<1>9. LoopOK
  BY DEF LoopOK, Start
<1>10. MasterOK
  <2> DEFINE at == [i \in DOMAIN master |-> 1]
  <2>1. at \in [DOMAIN master -> 1..proxy.pos] /\ DOMAIN at = {}
    BY <1>4
  <2>2. Copied(at)
    BY <2>1 DEF Copied
  <2>3. 1..proxy.pos = {}
    BY <1>4
  <2> QED
    BY <2>1, <2>2, <2>3 DEF MasterOK
<1> QED
  BY <1>1, <1>5, <1>6, <1>7, <1>8, <1>9, <1>10 DEF LlmpInv

LEMMA NextInv ==
  ASSUME LlmpInv, [Next]_vars
  PROVE  LlmpInv'
<1>1. CASE UNCHANGED vars
  <2>1. UNCHANGED <<llmp_clients, num_clients_total, page, out, loop, current_client_id,
                    client, proxy, link, master>>
    BY <1>1 DEF vars, broker
  <2>2. Types'
    BY <2>1 DEF LlmpInv, Types
  <2>3. ReceiversOK' /\ LoopOK'
    BY <2>1 DEF LlmpInv, ReceiversOK, LoopOK, GivenUp, ShadowedAt, Attached
  <2> QED
    BY <2>1, <2>2, <2>3, LoopOnly DEF LlmpInv
<1>2. CASE Next
  BY <1>2, ClientInv, BrokerInv, ProxyInv DEF Next
<1> QED
  BY <1>1, <1>2

\* The invariant of the broker, its clients and the link to the master.
THEOREM LlmpInvariant == Spec => []LlmpInv
<1>1. Init => LlmpInv
  BY InitInv
<1>2. LlmpInv /\ [Next]_vars => LlmpInv'
  BY NextInv
<1> QED
  BY <1>1, <1>2, PTL DEF Spec

\* The bounds of the counts: as many clients are expected, get an id and are
\* counted as attached (create_attach_to_tcp, handle_new_msgs).
LEMMA InvTypeOK == LlmpInv => TypeOK
<1> SUFFICES ASSUME LlmpInv PROVE TypeOK
  OBVIOUS
<1> USE DEF LlmpInv
<1>1. /\ Cardinality(Attached) \in Nat /\ Cardinality(Client) \in Nat
      /\ Cardinality(Attached) <= Cardinality(Client)
  <2>1. Attached \subseteq Client
    BY DEF Attached
  <2> QED
    BY <2>1, LlmpAssumption, FS_Subset, FS_CardinalityType
<1>2. Len(page[Listener]) \in Nat
  BY Elements DEF Types, Page
<1>3. /\ num_clients_total \in 2..(2 + Cardinality(Client))
      /\ current_client_id \in 1..(1 + Cardinality(Client))
  BY <1>1, <1>2 DEF Types, CountsOK
<1> QED
  BY <1>3 DEF Types, TypeOK, Receivers, Loops, Clients, Proxies

\* What went out of a client comes before what waits of it.
LEMMA InvBroadcastOnce == LlmpInv => BroadcastOnce
<1> SUFFICES ASSUME LlmpInv PROVE BroadcastOnce
  OBVIOUS
<1> SUFFICES ASSUME NEW c \in Client PROVE Ascending(out \o page[c], c)
  BY InvTypeOK DEF BroadcastOnce
<1>1. PICK b : b = page[c]
  OBVIOUS
<1>2. /\ out \in Seq(MsgType) /\ b \in Seq(MsgType)
      /\ Len(out) \in Nat /\ DOMAIN out = 1..Len(out)
      /\ Len(b) \in Nat /\ DOMAIN b = 1..Len(b)
  BY <1>1, Elements DEF LlmpInv, Types, Page
<1>3. PICK s : s = out \o b
  OBVIOUS
<1>4. /\ DOMAIN s = 1..(Len(out) + Len(b))
      /\ \A i \in DOMAIN s : s[i] = IF i <= Len(out) THEN out[i] ELSE b[i - Len(out)]
  BY <1>2, <1>3, ConcatProperties
<1>5. ASSUME NEW i \in DOMAIN s
      PROVE  \/ i \in DOMAIN out /\ s[i] = out[i]
             \/ i > Len(out) /\ i - Len(out) \in DOMAIN b /\ s[i] = b[i - Len(out)]
  BY <1>2, <1>4
<1>6. /\ Ascending(out, c) /\ Ascending(b, c)
      /\ \A i \in DOMAIN out, j \in DOMAIN b :
           out[i].kind = "testcase" /\ b[j].kind = "testcase" /\ out[i].from = c
             => out[i].n < b[j].n
  BY <1>1 DEF LlmpInv, OrderOK
<1>7. ASSUME NEW i \in DOMAIN s, NEW j \in DOMAIN s, i < j,
             s[i].kind = "testcase", s[i].from = c, s[j].kind = "testcase", s[j].from = c
      PROVE  s[i].n < s[j].n
  <2>1. i \in Int /\ j \in Int
    BY <1>2, <1>4
  <2>2. CASE j \in DOMAIN out /\ s[j] = out[j]
    <3>1. i \in DOMAIN out /\ s[i] = out[i]
      BY <1>2, <1>5, <1>7, <2>1, <2>2
    <3> QED
      BY <1>6, <1>7, <2>2, <3>1 DEF Ascending
  <2>3. CASE j > Len(out) /\ j - Len(out) \in DOMAIN b /\ s[j] = b[j - Len(out)]
    <3>1. CASE i \in DOMAIN out /\ s[i] = out[i]
      BY <1>6, <1>7, <2>3, <3>1
    <3>2. CASE i > Len(out) /\ i - Len(out) \in DOMAIN b /\ s[i] = b[i - Len(out)]
      <4>1. i - Len(out) < j - Len(out)
        BY <1>2, <1>7, <2>1
      <4> QED
        BY <1>6, <1>7, <2>3, <3>2, <4>1 DEF Ascending
    <3> QED
      BY <1>5, <3>1, <3>2
  <2> QED
    BY <1>5, <2>2, <2>3
<1>8. Ascending(s, c)
  BY <1>7 DEF Ascending
<1> QED
  BY <1>1, <1>3, <1>8

\* A testcase is broadcast once, those of a client in the order it found them:
\* handle_new_msgs takes a message off the page for good.
THEOREM LlmpBroadcastOnce == Spec => []BroadcastOnce
BY LlmpInvariant, InvBroadcastOnce, PTL

\* What the proxy hands over is a prefix of what it was to hand over, up to where
\* the link broke.
LEMMA InvMasterGetsAll == LlmpInv => MasterGetsAll
<1> SUFFICES ASSUME LlmpInv PROVE MasterGetsAll
  OBVIOUS
<1>1. PICK at \in [DOMAIN master -> 1..proxy.pos] : Copied(at)
  BY DEF LlmpInv, MasterOK
<1>2. 1..proxy.pos \subseteq DOMAIN out
  BY Elements DEF LlmpInv, Types, Proxies
<1>3. at \in [DOMAIN master -> DOMAIN out]
  BY <1>1, <1>2
<1> QED
  BY <1>1, <1>3 DEF MasterGetsAll

\* The master gets every testcase that was broadcast, in order, up to where the
\* link broke (the sending direction of the proxy thread).
THEOREM LlmpMasterGetsAll == Spec => []MasterGetsAll
BY LlmpInvariant, InvMasterGetsAll, PTL

LEMMA InvFiltersOwnOnly == LlmpInv => FiltersOwnOnly
<1> SUFFICES ASSUME LlmpInv, NEW c \in Client, NEW i \in DOMAIN out,
                    client[c].id # 0, out[i].kind = "testcase"
             PROVE  out[i].sender = client[c].id <=> out[i].from = c
  BY DEF FiltersOwnOnly
<1>1. PICK m : m = out[i]
  OBVIOUS
<1>2. m.from \in Attached /\ m.sender = client[m.from].id
  BY <1>1 DEF LlmpInv, OutOK, FromClient
<1>3. c \in Attached /\ \A d \in Attached : client[c].id = client[d].id => c = d
  BY DEF LlmpInv, IdsOK
<1> QED
  BY <1>1, <1>2, <1>3

\* The ids that the listener gives are distinct, so that a client that filters
\* out what carries its id filters out its own messages (llmp.rs:3405).
THEOREM LlmpFiltersOwnOnly == Spec => []FiltersOwnOnly
BY LlmpInvariant, InvFiltersOwnOnly, PTL

\* A step of the broker does not remove who is not shadowed and whose page was
\* neither at its end nor silent.
LEMMA StepKeeps ==
  ASSUME LlmpInv, [Next]_vars, NEW c \in Client,
         EntriesOf(c) # {}, c \notin loop.over, ~Shadowed(c)
  PROVE  EntriesOf(c)' # {}
<1>1. PICK i \in DOMAIN llmp_clients : llmp_clients[i].page = c /\ ~ShadowedAt(i)
  BY DEF EntriesOf, Shadowed
<1>2. /\ llmp_clients \in Seq(Receivers) /\ Len(llmp_clients) \in Nat
      /\ DOMAIN llmp_clients = 1..Len(llmp_clients)
  BY Elements DEF LlmpInv, Types
<1>3. CASE llmp_clients' = llmp_clients
  BY <1>1, <1>3 DEF EntriesOf
<1>4. CASE HandleMsg
  <2>1. PICK x : llmp_clients' = llmp_clients \/ llmp_clients' = Append(llmp_clients, x)
    BY <1>4 DEF HandleMsg
  <2>2. i \in DOMAIN llmp_clients' /\ llmp_clients'[i] = llmp_clients[i]
    BY <1>2, <2>1
  <2> QED
    BY <1>1, <2>2 DEF EntriesOf
<1>5. CASE \E k \in DOMAIN llmp_clients : GiveUp(k)
  <2>1. PICK k \in DOMAIN llmp_clients : GiveUp(k)
    BY <1>5
  <2>2. k \in loop.gone /\ llmp_clients' = RemoveAt(llmp_clients, k)
    BY <2>1 DEF GiveUp, LastGone
  <2>3. k # i
    <3>1. GivenUp(k)
      BY <2>2 DEF LlmpInv, LoopOK
    <3> QED
      BY <1>1, <3>1 DEF GivenUp
  <2>4. /\ Len(llmp_clients') = Len(llmp_clients) - 1
        /\ \A j \in 1..(Len(llmp_clients) - 1) :
             llmp_clients'[j] = IF j < k THEN llmp_clients[j] ELSE llmp_clients[j + 1]
        /\ DOMAIN llmp_clients' = 1..(Len(llmp_clients) - 1)
    <3>1. k \in 1..Len(llmp_clients)
      BY <1>2
    <3> QED
      BY <1>2, <2>2, <3>1, RemoveAtIs, Elements
  <2>5. \E j \in DOMAIN llmp_clients' : llmp_clients'[j] = llmp_clients[i]
    <3>1. CASE i < k
      <4>1. i \in 1..(Len(llmp_clients) - 1)
        BY <1>2, <3>1
      <4> QED
        BY <2>4, <3>1, <4>1
    <3>2. CASE i > k
      <4>1. i - 1 \in 1..(Len(llmp_clients) - 1) /\ ~(i - 1 < k) /\ (i - 1) + 1 = i
        BY <1>2, <3>2
      <4> QED
        BY <2>4, <4>1
    <3> QED
      BY <1>2, <2>3, <3>1, <3>2
  <2> QED
    BY <1>1, <2>5 DEF EntriesOf
<1>6. \/ llmp_clients' = llmp_clients
      \/ HandleMsg
      \/ \E k \in DOMAIN llmp_clients : GiveUp(k)
  <2>1. \A d \in Client : Attach(d) \/ Fire(d) \/ Leave(d) \/ Crash(d)
          => llmp_clients' = llmp_clients
    BY DEF Attach, Fire, Leave, Crash, broker
  <2>2. BrokerStep => \/ llmp_clients' = llmp_clients
                      \/ HandleMsg
                      \/ \E k \in DOMAIN llmp_clients : GiveUp(k)
    BY DEF BrokerStep, HandleExit, NoMoreMsgs, Turn
  <2>3. ProxyStep \/ MasterSpeaks \/ MasterLeaves \/ UNCHANGED vars
          => llmp_clients' = llmp_clients
    BY DEF ProxyStep, ProxySends, ProxyReceives, MasterSpeaks, MasterLeaves, vars, broker
  <2> QED
    BY <2>1, <2>2, <2>3 DEF Next
<1> QED
  BY <1>3, <1>4, <1>5, <1>6

\* clients_to_remove holds positions and is gone through from its end, so that the
\* clients removed are those that left or were silent in the round, whichever
\* others are removed with them (llmp.rs:2274).
THEOREM LlmpOnlyTheSilentLeave == Spec => OnlyTheSilentLeave
<1>1. LlmpInv /\ [Next]_vars =>
        \A c \in Client :
          (EntriesOf(c) # {} /\ EntriesOf(c)' = {} /\ ~Shadowed(c)) => c \in loop.over
  BY StepKeeps
<1> QED
  BY <1>1, LlmpInvariant, PTL DEF Spec, OnlyTheSilentLeave

=============================================================================
