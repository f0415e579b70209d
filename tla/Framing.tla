------------------------------ MODULE Framing -------------------------------
(***************************************************************************)
(* How a message travels over TCP: its length as a big-endian number of    *)
(* fixed width, then its bytes (SendMessage and RecvMessage in             *)
(* infra/conn/tcp/connection.go; send_tcp_msg and recv_tcp_msg in          *)
(* forkserver_simple/src/main.rs).  TCP keeps the order of the bytes and   *)
(* nothing else: a read returns any number of the bytes that are there.    *)
(*                                                                         *)
(* The two receivers differ in how they read the length.  The node's       *)
(* read_exact goes on until it has every byte of it; the master's Read     *)
(* takes what one read returns and ignores how much that was, so that a    *)
(* length that arrives in pieces is completed with zeros.                  *)
(***************************************************************************)
EXTENDS Integers, Sequences

CONSTANTS
  Base,         \* values of a byte
  HdrLen,       \* bytes of the length
  Message,      \* messages, sequences of bytes
  MaxSent       \* bound: messages sent

Byte == 0 .. Base - 1

\* What a digit counts with i digits after it; Weight[HdrLen] is the number of
\* lengths there are.
Weight[i \in 0..HdrLen] == IF i = 0 THEN 1 ELSE Base * Weight[i - 1]

ASSUME FramingAssumption ==
  /\ Base \in Nat /\ Base > 1
  /\ HdrLen \in Nat \ {0}
  /\ \A m \in Message : m \in Seq(Byte) /\ Len(m) < Weight[HdrLen]
  /\ MaxSent \in Nat

VARIABLES
  handed,    \* messages SendMessage was called with
  unwritten, \* the rest of the message being sent: after its length
  stream,    \* bytes written and not yet read
  ended,     \* the sender closed the connection
  exact,     \* the receiver's read of the length: read_exact or one Read
  reader,    \* RecvMessage: what it reads, what it has, how much it wants
  received,  \* messages RecvMessage returned
  cut        \* history: one Read returned less than a whole length

framevars == <<handed, unwritten, stream, ended, exact, reader, received, cut>>

WantsHeader == [pc |-> "header", buf |-> <<>>, want |-> HdrLen]

Nothing == <<-1>>

FrameInit ==
  /\ handed = <<>>
  /\ unwritten = Nothing
  /\ stream = <<>>
  /\ ended = FALSE
  /\ exact \in BOOLEAN
  /\ reader = WantsHeader
  /\ received = <<>>
  /\ cut = FALSE

-----------------------------------------------------------------------------
(* Big-endian numbers of HdrLen digits *)

Encode(n) == [i \in 1..HdrLen |-> (n \div Weight[HdrLen - i]) % Base]

\* The number with these digits: there is exactly one.
Decode(digits) == CHOOSE n \in 0 .. Weight[HdrLen] - 1 : Encode(n) = digits

-----------------------------------------------------------------------------
(* SendMessage: two writes *)

WriteLength(m) ==
  /\ ~ended
  /\ unwritten = Nothing
  /\ Len(handed) < MaxSent
  /\ handed' = Append(handed, m)
  /\ stream' = stream \o Encode(Len(m))
  /\ unwritten' = m
  /\ UNCHANGED <<ended, exact, reader, received, cut>>

WriteBody ==
  /\ ~ended
  /\ unwritten # Nothing
  /\ stream' = stream \o unwritten
  /\ unwritten' = Nothing
  /\ UNCHANGED <<handed, ended, exact, reader, received, cut>>

\* The sender goes away, perhaps between its two writes.
SenderEnds ==
  /\ ~ended
  /\ ended' = TRUE
  /\ UNCHANGED <<handed, unwritten, stream, exact, reader, received, cut>>

-----------------------------------------------------------------------------
(* RecvMessage *)

\* What a read may return: between one byte and as many as there is room for.
ReadSizes(room) == 1 .. (IF Len(stream) < room THEN Len(stream) ELSE room)

Taken(n) == SubSeq(stream, 1, n)

\* One read of the length.  Digits that one Read left out stay zero.
HeaderAfter(n) ==
  LET got == reader.buf \o Taken(n)
  IN IF exact THEN got
     ELSE got \o [i \in 1 .. HdrLen - Len(got) |-> 0]

\* With the length complete, or taken for complete, a body of that many bytes is
\* read; an empty one is returned at once.
ReadHeader(n) ==
  LET hdr == HeaderAfter(n)
  IN /\ reader.pc = "header"
     /\ stream' = SubSeq(stream, n + 1, Len(stream))
     /\ IF Len(hdr) < HdrLen
        THEN /\ reader' = [reader EXCEPT !.buf = hdr]
             /\ UNCHANGED received
        ELSE IF Decode(hdr) = 0
        THEN /\ reader' = WantsHeader
             /\ received' = Append(received, <<>>)
        ELSE /\ reader' = [pc |-> "body", buf |-> <<>>, want |-> Decode(hdr)]
             /\ UNCHANGED received
     /\ cut' = (cut \/ (~exact /\ n < HdrLen))
     /\ UNCHANGED <<handed, unwritten, ended, exact>>

ReadBody_Once(n) ==
  /\ reader.pc = "body"
  /\ stream' = SubSeq(stream, n + 1, Len(stream))
  /\ reader' = WantsHeader
  /\ received' = Append(received, Taken(n))
  /\ UNCHANGED <<handed, unwritten, ended, exact, cut>>

ReadBody_OffByOne(n) ==
  LET got == reader.buf \o Taken(n)
  IN /\ reader.pc = "body"
     /\ stream' = SubSeq(stream, n + 1, Len(stream))
     /\ IF Len(got) <= reader.want
        THEN /\ reader' = [reader EXCEPT !.buf = got]
             /\ UNCHANGED received
        ELSE /\ reader' = WantsHeader
             /\ received' = Append(received, got)
     /\ UNCHANGED <<handed, unwritten, ended, exact, cut>>

\* The loop over the body: msgBytes[i:].
ReadBody(n) ==
  LET got == reader.buf \o Taken(n)
  IN /\ reader.pc = "body"
     /\ stream' = SubSeq(stream, n + 1, Len(stream))
     /\ IF Len(got) < reader.want
        THEN /\ reader' = [reader EXCEPT !.buf = got]
             /\ UNCHANGED received
        ELSE /\ reader' = WantsHeader
             /\ received' = Append(received, got)
     /\ UNCHANGED <<handed, unwritten, ended, exact, cut>>

\* EOF: whatever was read of a message is dropped.
ReadEnd ==
  /\ reader.pc # "closed"
  /\ stream = <<>>
  /\ ended
  /\ reader' = [pc |-> "closed", buf |-> <<>>, want |-> 0]
  /\ UNCHANGED <<handed, unwritten, stream, ended, exact, received, cut>>

Read ==
  \/ \E n \in ReadSizes(reader.want - Len(reader.buf)) : ReadHeader(n) \/ ReadBody(n)
  \/ ReadEnd

FrameNext == (\E m \in Message : WriteLength(m)) \/ WriteBody \/ SenderEnds \/ Read

\* A reader with bytes to read reads them, and a writer finishes what it began
\* unless the connection ends.
FrameFairness == WF_framevars(Read) /\ WF_framevars(WriteBody)

FrameSpec == FrameInit /\ [][FrameNext]_framevars /\ FrameFairness

-----------------------------------------------------------------------------
(* Properties *)

Queue == INSTANCE MsgQueue WITH sent <- handed, open <- reader.pc # "closed"

\* However TCP cuts the bytes, the receiver gets the messages that were sent,
\* whole and in order, until it has seen the end: "[DONE] 15. check how much I
\* read from the socket (n from read)" (src/orchestration/todo:18).
ImplementsQueue == Queue!Spec

\* That is so of the node's receiver always, and of the master's until one Read
\* returns less than a whole length (connection.go:61).
QueueUntilCut ==
  /\ Queue!Init
  /\ [][Queue!Next \/ (~exact /\ cut')]_(Queue!vars)

\* Every message of a sender that finishes it arrives, unless the master has cut
\* a length.
Delivered ==
  \A n \in 1..MaxSent :
    Len(handed) >= n /\ unwritten = Nothing ~> Len(received) >= n \/ cut

=============================================================================
