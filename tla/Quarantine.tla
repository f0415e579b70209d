----------------------------- MODULE Quarantine -----------------------------
(***************************************************************************)
(* The allocator of the QEMU AddressSanitizer runtime                      *)
(* (libafl_qemu/libqasan/malloc.c): freed chunks are poisoned and kept in  *)
(* a quarantine, a doubly linked list behind a lock that is only tried.    *)
(* Threads of the target interleave inside malloc and free.                *)
(*                                                                         *)
(* The program is one that uses its memory correctly: it frees and         *)
(* reallocates only what it holds.                                         *)
(***************************************************************************)
EXTENDS Integers, FiniteSets
LOCAL INSTANCE FiniteSetsExt

CONSTANTS
  Thread,
  Chunk,      \* the blocks the backend can hand out
  Null,
  Size,       \* requested sizes
  MaxBytes    \* QUARANTINE_MAX_BYTES

ASSUME QuarantineAssumption ==
  /\ Null \notin Chunk \cup Thread
  /\ IsFiniteSet(Chunk) /\ IsFiniteSet(Thread)
  /\ Size \subseteq Nat \ {0}
  /\ MaxBytes \in Nat \ {0}

Link == Chunk \cup {Null}

VARIABLES
  chunk,     \* the blocks: where they are, their header and their shadow
  top, end,  \* quarantine_top, quarantine_end
  bytes,     \* quarantine_bytes
  lock,      \* quarantine_lock
  thr        \* the threads inside the allocator

vars == <<chunk, top, end, bytes, lock, thr>>

Idle == [pc |-> "idle", ck |-> Null, old |-> Null]

\* A thread the target never starts.
Absent == [Idle EXCEPT !.pc = "absent"]

Init ==
  /\ chunk = [c \in Chunk |-> [mem |-> "backend", size |-> 0, next |-> Null,
                               prev |-> Null, poisoned |-> FALSE]]
  /\ top = Null
  /\ end = Null
  /\ bytes = 0
  /\ lock = Null
  /\ \E started \in SUBSET Thread \ {{}} :
       thr = [t \in Thread |-> IF t \in started THEN Idle ELSE Absent]

-----------------------------------------------------------------------------
(* malloc, posix_memalign and realloc *)

\* A live chunk that no realloc is working on.
Held(c) == chunk[c].mem = "live" /\ \A t \in Thread : thr[t].old # c

\* backend_malloc; for realloc, old is the chunk to free afterwards.
BackendMalloc(t, c, old) ==
  /\ thr[t] = Idle
  /\ chunk[c].mem = "backend"
  /\ old # Null => Held(old)
  /\ chunk' = [chunk EXCEPT ![c].mem = "fresh"]
  /\ thr' = [thr EXCEPT ![t] = [pc |-> "malloc", ck |-> c, old |-> old]]
  /\ UNCHANGED <<top, end, bytes, lock>>

\* The header's links: malloc clears them, posix_memalign leaves what was there.
Header(c, size, next, prev) ==
  [mem |-> "live", size |-> size, next |-> next, prev |-> prev, poisoned |-> FALSE]

\* The rest of malloc (next = prev = Null) or posix_memalign; realloc goes on
\* to free the old chunk.
Return(t, size, next, prev) ==
  LET c == thr[t].ck
      old == thr[t].old
      new == [chunk EXCEPT ![c] = Header(c, size, next, prev)]
  IN /\ thr[t].pc = "malloc"
     /\ IF old = Null
        THEN /\ chunk' = new
             /\ thr' = [thr EXCEPT ![t] = Idle]
        ELSE /\ chunk' = [new EXCEPT ![old].mem = "freeing"]
             /\ thr' = [thr EXCEPT ![t] = [pc |-> "push", ck |-> old, old |-> Null]]
     /\ UNCHANGED <<top, end, bytes, lock>>

Malloc(t, size) == Return(t, size, Null, Null)

Memalign(t, size, stale) == thr[t].old = Null /\ Return(t, size, stale, stale)

-----------------------------------------------------------------------------
(* free *)

Free(t, c) ==
  /\ thr[t] = Idle
  /\ Held(c)
  /\ chunk' = [chunk EXCEPT ![c].mem = "freeing"]
  /\ thr' = [thr EXCEPT ![t] = [Idle EXCEPT !.pc = "push", !.ck = c]]
  /\ UNCHANGED <<top, end, bytes, lock>>

MayPush_IgnoresLock(c) == chunk[c].size < MaxBytes

\* Too large a chunk, or a lock that is taken, and the push fails.
MayPush(c) == chunk[c].size < MaxBytes /\ lock = Null

TryPush(t) ==
  /\ thr[t].pc = "push"
  /\ IF MayPush(thr[t].ck)
     THEN /\ lock' = t
          /\ thr' = [thr EXCEPT ![t].pc = "locked"]
     ELSE /\ thr' = [thr EXCEPT ![t].pc = "direct"]
          /\ UNCHANGED lock
  /\ UNCHANGED <<chunk, top, end, bytes>>

\* One round of the loop that makes room.
EvictLast ==
  /\ chunk' = [chunk EXCEPT ![end].mem = "backend"]
  /\ end' = chunk[end].prev
  /\ bytes' = bytes - chunk[end].size
  /\ UNCHANGED <<top, lock, thr>>

Linked_ForgetsNext(c) ==
  LET new == [chunk EXCEPT ![c].mem = "quarantined"]
  IN IF top = Null THEN new ELSE [new EXCEPT ![top].prev = c]

\* c in front of the list.
Linked(c) ==
  LET new == [chunk EXCEPT ![c] = [@ EXCEPT !.mem = "quarantined", !.next = top]]
  IN IF top = Null THEN new ELSE [new EXCEPT ![top] = [@ EXCEPT !.prev = c]]

\* The section under the lock.  It neither counts the chunk's bytes nor sets
\* quarantine_end.
Push(t) ==
  LET c == thr[t].ck
  IN /\ thr[t].pc = "locked"
     /\ IF chunk[c].size + bytes >= MaxBytes THEN EvictLast
        ELSE /\ chunk' = Linked(c)
             /\ top' = c
             /\ lock' = Null
             /\ thr' = [thr EXCEPT ![t].pc = "poison"]
             /\ UNCHANGED <<end, bytes>>

\* backend_free of a chunk that is not quarantined.
DirectFree(t) ==
  /\ thr[t].pc = "direct"
  /\ chunk' = [chunk EXCEPT ![thr[t].ck].mem = "backend"]
  /\ thr' = [thr EXCEPT ![t].pc = "poison"]
  /\ UNCHANGED <<top, end, bytes, lock>>

Poison_Skips(t) ==
  /\ thr[t].pc = "poison"
  /\ thr' = [thr EXCEPT ![t] = Idle]
  /\ UNCHANGED <<chunk, top, end, bytes, lock>>

\* The memory is poisoned last, whoever has it by now.
Poison(t) ==
  /\ thr[t].pc = "poison"
  /\ chunk' = [chunk EXCEPT ![thr[t].ck].poisoned = TRUE]
  /\ thr' = [thr EXCEPT ![t] = Idle]
  /\ UNCHANGED <<top, end, bytes, lock>>

-----------------------------------------------------------------------------
Next ==
  \E t \in Thread :
    \/ \E c \in Chunk, old \in Link : BackendMalloc(t, c, old)
    \/ \E size \in Size : Malloc(t, size)
    \/ \E size \in Size, stale \in Link : Memalign(t, size, stale)
    \/ \E c \in Chunk : Free(t, c)
    \/ TryPush(t)
    \/ Push(t)
    \/ DirectFree(t)
    \/ Poison(t)

Spec == Init /\ [][Next]_vars

-----------------------------------------------------------------------------
(* Properties *)

Quarantined == {c \in Chunk : chunk[c].mem = "quarantined"}

Block ==
  [mem : {"backend", "fresh", "live", "freeing", "quarantined"},
   size : Size \cup {0}, next : Link, prev : Link, poisoned : BOOLEAN]

Inside ==
  [pc : {"idle", "absent", "malloc", "push", "locked", "direct", "poison"},
   ck : Link, old : Link]

\* Every variable keeps its type.
TypeOK ==
  /\ chunk \in [Chunk -> Block]
  /\ top \in Link
  /\ end \in Link
  /\ bytes \in Nat
  /\ lock \in Thread \cup {Null}
  /\ thr \in [Thread -> Inside]

\* The list from quarantine_top holds exactly the quarantined chunks, in both
\* directions, whatever the headers held before and however many threads free:
\* none of them is in the backend or in the program's hands at the same time.
ListWellFormed ==
  LET n == Cardinality(Quarantined)
  IN IF n = 0 THEN top = Null
     ELSE \E list \in [1..n -> Quarantined] :
            /\ list[1] = top
            /\ chunk[list[n]].next = Null
            /\ \A i \in 1..(n - 1) : /\ chunk[list[i]].next = list[i + 1]
                                     /\ chunk[list[i + 1]].prev = list[i]

\* A quarantined chunk is poisoned once the free that put it there is over: a
\* use after free is seen, also when another thread had the chunk in between.
QuarantineIsPoisoned ==
  \A c \in Quarantined :
    (\A t \in Thread : thr[t].ck # c) => chunk[c].poisoned

\* Two threads never work on the list at the same time, although nobody waits for
\* the lock: who does not get it frees directly and unlocks nothing (malloc.c:107
\* and 125), and who has it keeps it through the loop that makes room.
OneInside == \A t \in Thread : thr[t].pc = "locked" <=> lock = t

\* What a program with one thread holds is not poisoned: no correct access is
\* reported, also after a direct free.  With several threads a direct free may
\* be overtaken by a malloc of the same block (malloc.c:225 and 233).
LiveIsClean ==
  Cardinality({t \in Thread : thr[t].pc # "absent"}) = 1 =>
    \A c \in Chunk : chunk[c].mem = "live" => ~chunk[c].poisoned

\* What the quarantine keeps from the program stays below its size ("50 mb
\* quarantine", malloc.c:34).  The loop that makes room (malloc.c:109) compares with
\* quarantine_bytes, which nothing raises: it is never entered.
LimitKept == MapThenSumSet(LAMBDA c : chunk[c].size, Quarantined) < MaxBytes

=============================================================================
