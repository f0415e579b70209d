---------------------------- MODULE TargetProofs ----------------------------
(***************************************************************************)
(* Theorems about the two runtimes that run inside the target: the         *)
(* quarantine of QASan and the comparison log.                             *)
(*                                                                         *)
(* The quarantine, for any number of threads and blocks and any sizes: the *)
(* inductive invariant says which block a thread inside the allocator      *)
(* owns: as long as it works on a block nobody else does, so that what     *)
(* another thread pushes, frees or poisons is not this one.                *)
(*                                                                         *)
(* The comparison log, for every height of the map, every width of the     *)
(* counter that is a multiple of it, and any number of runs: the inductive *)
(* invariant says what each row the observer may read holds.  With r the   *)
(* row the next comparison goes to, the rows below r hold the last r       *)
(* comparisons in order, and the rows from r on, once the counter has      *)
(* passed the height, the ones before those.                               *)
(***************************************************************************)
EXTENDS Quarantine, CmpLog, FiniteSetTheorems, TLAPS

-----------------------------------------------------------------------------
(* The quarantine *)

\* The room is never made: nothing is counted, and what is pushed is small.
NothingEvicted ==
  /\ end = Null
  /\ bytes = 0
  /\ \A t \in Thread : thr[t].pc = "locked" => chunk[thr[t].ck].size < MaxBytes

Freeing(t) == thr[t].pc \in {"push", "locked", "direct"}

\* The block a thread works on, in malloc and in free.
Owns ==
  \A t \in Thread :
    /\ Freeing(t) => thr[t].ck \in Chunk /\ chunk[thr[t].ck].mem = "freeing"
    /\ thr[t].pc = "malloc" => thr[t].ck \in Chunk /\ chunk[thr[t].ck].mem = "fresh"
    /\ thr[t].pc = "poison" => thr[t].ck \in Chunk
    /\ thr[t].pc \in {"idle", "absent"} => thr[t].ck = Null
    /\ thr[t].old # Null => thr[t].pc = "malloc" /\ chunk[thr[t].old].mem = "live"

\* No two threads work on one block, nor reallocate one.
Alone ==
  \A t, u \in Thread :
    t # u =>
      /\ Freeing(t) /\ Freeing(u) => thr[t].ck # thr[u].ck
      /\ thr[t].pc = "malloc" /\ thr[u].pc = "malloc" => thr[t].ck # thr[u].ck
      /\ thr[t].old # Null => thr[t].old # thr[u].old

\* A block in the quarantine is poisoned or about to be.
PoisonDue ==
  \A c \in Chunk :
    chunk[c].mem = "quarantined" /\ ~chunk[c].poisoned =>
      \E t \in Thread : thr[t].pc = "poison" /\ thr[t].ck = c

IInv ==
  /\ TypeOK
  /\ OneInside
  /\ NothingEvicted
  /\ Owns
  /\ Alone
  /\ PoisonDue

-----------------------------------------------------------------------------
\* A block stays one when its place, its links or its shadow change.
LEMMA BlockUpdates ==
  ASSUME NEW b \in Block
  PROVE  /\ \A m \in {"backend", "fresh", "live", "freeing", "quarantined"} :
              [b EXCEPT !.mem = m] \in Block
         /\ [b EXCEPT !.poisoned = TRUE] \in Block
         /\ \A d \in Link : [b EXCEPT !.mem = "quarantined", !.next = d] \in Block
         /\ \A d \in Link : [b EXCEPT !.prev = d] \in Block
  BY DEF Block

\* A thread's state stays one when it goes on to another place.
LEMMA InsideUpdates ==
  ASSUME NEW w \in Inside,
         NEW p \in {"idle", "absent", "malloc", "push", "locked", "direct", "poison"}
  PROVE  [w EXCEPT !.pc = p] \in Inside
  BY DEF Inside

\* The empty quarantine, with any threads started, satisfies the invariant.
LEMMA InitInv == Init => IInv
  <1> SUFFICES ASSUME Init PROVE IInv
    OBVIOUS
  <1> USE QuarantineAssumption
  <1>1. PICK started \in SUBSET Thread \ {{}} :
          thr = [t \in Thread |-> IF t \in started THEN Idle ELSE Absent]
    BY DEF Init
  <1>2. \A t \in Thread : thr[t] \in {Idle, Absent}
    BY <1>1
  <1>3. TypeOK
    BY <1>1 DEF Init, TypeOK, Block, Inside, Idle, Absent, Link
  <1>4. OneInside /\ NothingEvicted /\ Owns /\ Alone
    BY <1>2 DEF Init, OneInside, NothingEvicted, Owns, Alone, Freeing, Idle, Absent
  <1>5. PoisonDue
    BY DEF Init, PoisonDue
  <1> QED BY <1>3, <1>4, <1>5 DEF IInv

\* backend_malloc gives a thread a block of its own.
LEMMA BackendMallocInv ==
  ASSUME IInv, NEW t \in Thread, NEW c \in Chunk, NEW old \in Link,
         BackendMalloc(t, c, old)
  PROVE  IInv'
  <1> USE QuarantineAssumption DEF IInv, BackendMalloc, Idle, Link
  <1>1. TypeOK'
    <2>1. chunk[c] \in Block /\ [chunk[c] EXCEPT !.mem = "fresh"] \in Block
      BY BlockUpdates DEF TypeOK
    <2>2. chunk' \in [Chunk -> Block]
      BY <2>1 DEF TypeOK
    <2>3. [pc |-> "malloc", ck |-> c, old |-> old] \in Inside
      BY DEF Inside
    <2>4. thr' \in [Thread -> Inside]
      BY <2>3 DEF TypeOK
    <2> QED BY <2>2, <2>4 DEF TypeOK
  <1>2. OneInside'
    BY DEF TypeOK, Block, Inside, OneInside
  <1>3. NothingEvicted'
    BY DEF TypeOK, Block, Inside, NothingEvicted
  <1>4. Owns'
    BY DEF TypeOK, Block, Inside, Owns, Freeing, Held
  <1>5. Alone'
    BY DEF TypeOK, Block, Inside, Owns, Alone, Freeing, Held
  <1>6. PoisonDue'
    BY DEF TypeOK, Block, Inside, PoisonDue
  <1> QED BY <1>1, <1>2, <1>3, <1>4, <1>5, <1>6

\* The end of malloc and posix_memalign cleans the block and hands it out; a
\* realloc goes on to free the old one.
LEMMA ReturnInv ==
  ASSUME IInv, NEW t \in Thread, NEW size \in Size, NEW next \in Link, NEW prev \in Link,
         Return(t, size, next, prev)
  PROVE  IInv'
  <1> USE QuarantineAssumption DEF IInv, Link
  <1> DEFINE c == thr[t].ck
             old == thr[t].old
  <1>1. /\ thr[t].pc = "malloc" /\ c \in Chunk /\ old \in Chunk \cup {Null}
        /\ chunk[c].mem = "fresh"
        /\ old # Null => chunk[old].mem = "live" /\ c # old
        /\ UNCHANGED <<top, end, bytes, lock>>
    BY DEF TypeOK, Block, Inside, Owns, Return
  <1>2. CASE old = Null
    <2>1. /\ chunk' = [chunk EXCEPT ![c] = Header(c, size, next, prev)]
          /\ thr' = [thr EXCEPT ![t] = Idle]
      BY <1>2 DEF Return
    <2> HIDE DEF c, old
    <2>2. TypeOK'
      BY <1>1, <2>1 DEF TypeOK, Block, Inside, Header, Idle
    <2>3. OneInside' /\ NothingEvicted'
      BY <1>1, <2>1, c = thr[t].ck DEF TypeOK, Block, Inside, OneInside, NothingEvicted, Header, Idle, c,
           Owns, Freeing
    <2>4. Owns' /\ Alone'
      BY <1>1, <2>1 DEF TypeOK, Block, Inside, Owns, Alone, Freeing, Header, Idle, c
    <2>5. PoisonDue'
      BY <1>1, <2>1 DEF TypeOK, Block, Inside, PoisonDue, Header, Idle, c
    <2> QED BY <2>2, <2>3, <2>4, <2>5
  <1>3. CASE old # Null
    <2>1. /\ chunk' = [[chunk EXCEPT ![c] = Header(c, size, next, prev)]
                         EXCEPT ![old].mem = "freeing"]
          /\ thr' = [thr EXCEPT ![t] = [pc |-> "push", ck |-> old, old |-> Null]]
      BY <1>3 DEF Return
    <2> HIDE DEF c, old
    <2>2. TypeOK'
      <3>1. Header(c, size, next, prev) \in Block
        BY <1>1 DEF Header, Block
      <3>2. [pc |-> "push", ck |-> old, old |-> Null] \in Inside
        BY <1>1 DEF Inside
      <3>3. chunk' = [chunk EXCEPT ![c] = Header(c, size, next, prev),
                                   ![old] = [chunk[old] EXCEPT !.mem = "freeing"]]
        BY <1>1, <1>3, <2>1 DEF TypeOK
      <3>4. [chunk[old] EXCEPT !.mem = "freeing"] \in Block
        BY <1>1, <1>3, BlockUpdates DEF TypeOK
      <3> QED BY <1>1, <1>3, <2>1, <3>1, <3>2, <3>3, <3>4 DEF TypeOK
    <2>3. OneInside' /\ NothingEvicted'
      BY <1>1, <1>3, <2>1 DEF TypeOK, Block, Inside, OneInside, NothingEvicted, Header, c, Owns, Freeing
    <2>4. Owns'
      BY <1>1, <1>3, <2>1 DEF TypeOK, Block, Inside, Owns, Alone, Freeing, Header, c, old
    <2>5. Alone'
      BY <1>1, <1>3, <2>1 DEF TypeOK, Block, Inside, Owns, Alone, Freeing, Header, c, old
    <2>6. PoisonDue'
      BY <1>1, <1>3, <2>1 DEF TypeOK, Block, Inside, PoisonDue, Header, c
    <2> QED BY <2>2, <2>3, <2>4, <2>5, <2>6
  <1> QED BY <1>2, <1>3

\* The program frees a block that it holds and that no realloc works on.
LEMMA FreeInv ==
  ASSUME IInv, NEW t \in Thread, NEW c \in Chunk, Free(t, c)
  PROVE  IInv'
  <1> USE QuarantineAssumption DEF IInv, Free, Idle, Link
  <1>1. TypeOK'
    <2>1. [chunk[c] EXCEPT !.mem = "freeing"] \in Block
      BY BlockUpdates DEF TypeOK
    <2>2. [Idle EXCEPT !.pc = "push", !.ck = c] \in Inside
      BY DEF Inside
    <2> QED BY <2>1, <2>2 DEF TypeOK
  <1>2. OneInside' /\ NothingEvicted'
    BY DEF TypeOK, Block, Inside, OneInside, NothingEvicted
  <1>3. Owns'
    BY DEF TypeOK, Block, Inside, Owns, Freeing, Held
  <1>4. Alone'
    BY DEF TypeOK, Block, Inside, Owns, Alone, Freeing, Held
  <1>5. PoisonDue'
    BY DEF TypeOK, Block, Inside, PoisonDue
  <1> QED BY <1>1, <1>2, <1>3, <1>4, <1>5

\* The lock is tried.
LEMMA TryPushInv ==
  ASSUME IInv, NEW t \in Thread, TryPush(t)
  PROVE  IInv'
  <1> USE QuarantineAssumption DEF IInv, TryPush, MayPush
  <1>1. TypeOK'
    <2>1. [thr[t] EXCEPT !.pc = "locked"] \in Inside /\ [thr[t] EXCEPT !.pc = "direct"] \in Inside
      BY InsideUpdates DEF TypeOK
    <2> QED BY <2>1 DEF TypeOK
  <1>2. OneInside' /\ NothingEvicted'
    <2>1. CASE MayPush(thr[t].ck)
      BY <2>1 DEF TypeOK, Inside, OneInside, NothingEvicted
    <2>2. CASE ~MayPush(thr[t].ck)
      BY <2>2 DEF TypeOK, Inside, OneInside, NothingEvicted
    <2> QED BY <2>1, <2>2
  <1>3. Owns' /\ Alone'
    BY DEF TypeOK, Block, Inside, Owns, Alone, Freeing
  <1>4. PoisonDue'
    BY DEF TypeOK, Block, Inside, PoisonDue
  <1> QED BY <1>1, <1>2, <1>3, <1>4

\* The section under the lock: only the push itself, never the eviction.
LEMMA PushInv ==
  ASSUME IInv, NEW t \in Thread, Push(t)
  PROVE  IInv'
  <1> USE QuarantineAssumption DEF IInv, Link
  <1> DEFINE c == thr[t].ck
  <1>1. /\ thr[t].pc = "locked" /\ c \in Chunk /\ chunk[c].mem = "freeing"
        /\ ~(chunk[c].size + bytes >= MaxBytes)
    BY DEF Push, TypeOK, Block, Inside, Owns, Freeing, NothingEvicted
  <1>2. /\ chunk' = Linked(c)
        /\ top' = c
        /\ lock' = Null
        /\ thr' = [thr EXCEPT ![t].pc = "poison"]
        /\ UNCHANGED <<end, bytes>>
    BY <1>1 DEF Push
  <1>3. /\ chunk' \in [Chunk -> Block]
        /\ \A d \in Chunk : /\ chunk'[d].mem = IF d = c THEN "quarantined" ELSE chunk[d].mem
                            /\ chunk'[d].size = chunk[d].size
                            /\ chunk'[d].poisoned = chunk[d].poisoned
    <2> DEFINE b == [chunk[c] EXCEPT !.mem = "quarantined", !.next = top]
               new == [chunk EXCEPT ![c] = b]
    <2>1. b \in Block /\ b.mem = "quarantined" /\ b.size = chunk[c].size
          /\ b.poisoned = chunk[c].poisoned
      <3>1. chunk[c] \in Block
        BY <1>1 DEF TypeOK
      <3>2. b \in Block
        BY <3>1, BlockUpdates DEF TypeOK
      <3>3. b.mem = "quarantined" /\ b.size = chunk[c].size
            /\ b.poisoned = chunk[c].poisoned
        BY <3>1 DEF Block
      <3> QED BY <3>2, <3>3
    <2>2. new \in [Chunk -> Block] /\ new[c] = b
          /\ \A d \in Chunk : d # c => new[d] = chunk[d]
      BY <1>1, <2>1 DEF TypeOK
    <2>3. chunk' = IF top = Null THEN new
                   ELSE [new EXCEPT ![top] = [new[top] EXCEPT !.prev = c]]
      BY <1>2 DEF Linked
    <2>4. c \in Link
      BY <1>1
    <2> HIDE DEF b, new, c
    <2>5. CASE top = Null
      BY <2>1, <2>2, <2>3, <2>5
    <2>6. CASE top # Null
      <3>1. /\ [new[top] EXCEPT !.prev = c] \in Block
            /\ [new[top] EXCEPT !.prev = c].mem = new[top].mem
            /\ [new[top] EXCEPT !.prev = c].size = new[top].size
            /\ [new[top] EXCEPT !.prev = c].poisoned = new[top].poisoned
        BY <2>2, <2>4, <2>6 DEF TypeOK, Block
      <3> QED BY <2>1, <2>2, <2>3, <2>6, <3>1 DEF TypeOK
    <2> QED BY <2>5, <2>6
  <1> HIDE DEF c
  <1>4. TypeOK'
    <2>1. [thr[t] EXCEPT !.pc = "poison"] \in Inside
      BY InsideUpdates DEF TypeOK
    <2> QED BY <1>1, <1>2, <1>3, <2>1 DEF TypeOK
  <1>5. OneInside' /\ NothingEvicted'
    BY <1>1, <1>2, <1>3 DEF TypeOK, Block, Inside, OneInside, NothingEvicted, c, Owns, Freeing
  <1>6. Owns'
    <2> SUFFICES ASSUME NEW u \in Thread
                 PROVE  /\ Freeing(u)' => thr'[u].ck \in Chunk
                                           /\ chunk'[thr'[u].ck].mem = "freeing"
                        /\ thr'[u].pc = "malloc" => thr'[u].ck \in Chunk
                                           /\ chunk'[thr'[u].ck].mem = "fresh"
                        /\ thr'[u].pc = "poison" => thr'[u].ck \in Chunk
                        /\ thr'[u].pc \in {"idle", "absent"} => thr'[u].ck = Null
                        /\ thr'[u].old # Null => thr'[u].pc = "malloc"
                                           /\ chunk'[thr'[u].old].mem = "live"
      BY DEF Owns
    <2>1. CASE u = t
      BY <1>1, <1>2, <2>1 DEF TypeOK, Inside, Owns, Freeing, c
    <2>2. CASE u # t
      <3>1. thr'[u] = thr[u] /\ (Freeing(u) => thr[u].ck # c)
        BY <1>1, <1>2, <2>2 DEF TypeOK, Inside, Alone, Freeing, c
      <3>2. thr[u].old \in Link
        BY DEF TypeOK, Inside
      <3> QED BY <1>1, <1>3, <3>1, <3>2 DEF Owns, Freeing
    <2> QED BY <2>1, <2>2
  <1>7. Alone'
    BY <1>1, <1>2, <1>3 DEF TypeOK, Block, Inside, Owns, Alone, Freeing, c
  <1>8. PoisonDue'
    BY <1>1, <1>2, <1>3 DEF TypeOK, Block, Inside, PoisonDue, c
  <1> QED BY <1>4, <1>5, <1>6, <1>7, <1>8

\* backend_free.
LEMMA DirectFreeInv ==
  ASSUME IInv, NEW t \in Thread, DirectFree(t)
  PROVE  IInv'
  <1> USE QuarantineAssumption DEF IInv, DirectFree
  <1>1. TypeOK'
    <2>1. thr[t].ck \in Chunk
      BY DEF Owns, Freeing
    <2> QED BY <2>1, BlockUpdates, InsideUpdates DEF TypeOK
  <1>2. OneInside' /\ NothingEvicted'
    BY DEF TypeOK, Block, Inside, OneInside, NothingEvicted, Owns, Freeing
  <1>3. Owns' /\ Alone'
    BY DEF TypeOK, Block, Inside, Owns, Alone, Freeing
  <1>4. PoisonDue'
    BY DEF TypeOK, Block, Inside, PoisonDue
  <1> QED BY <1>1, <1>2, <1>3, <1>4

\* The block of the thread is poisoned, whoever has it.
LEMMA PoisonInv ==
  ASSUME IInv, NEW t \in Thread, Poison(t)
  PROVE  IInv'
  <1> USE QuarantineAssumption DEF IInv, Poison, Idle
  <1>1. TypeOK'
    <2>1. thr[t].ck \in Chunk
      BY DEF Owns
    <2>2. Idle \in Inside
      BY DEF Inside, Link
    <2> QED BY <2>1, <2>2, BlockUpdates DEF TypeOK
  <1>2. OneInside' /\ NothingEvicted'
    BY DEF TypeOK, Block, Inside, OneInside, NothingEvicted, Owns
  <1>3. Owns' /\ Alone'
    BY DEF TypeOK, Block, Inside, Owns, Alone, Freeing
  <1>4. PoisonDue'
    BY DEF TypeOK, Block, Inside, PoisonDue, Owns
  <1> QED BY <1>1, <1>2, <1>3, <1>4

\* No step of any thread breaks the invariant.
LEMMA NextInv == IInv /\ [Next]_vars => IInv'
  <1> SUFFICES ASSUME IInv, [Next]_vars PROVE IInv'
    OBVIOUS
  <1>1. CASE UNCHANGED vars
    BY <1>1 DEF vars, IInv, TypeOK, Block, Inside, OneInside, NothingEvicted, Owns, Alone, PoisonDue,
         Freeing
  <1>2. CASE Next
    <2>1. PICK t \in Thread :
            \/ \E c \in Chunk, old \in Link : BackendMalloc(t, c, old)
            \/ \E size \in Size : Malloc(t, size)
            \/ \E size \in Size, stale \in Link : Memalign(t, size, stale)
            \/ \E c \in Chunk : Free(t, c)
            \/ TryPush(t)
            \/ Push(t)
            \/ DirectFree(t)
            \/ Poison(t)
      BY <1>2 DEF Next
    <2>2. CASE \E size \in Size : Malloc(t, size)
      BY <2>2, ReturnInv DEF Malloc, Link
    <2>3. CASE \E size \in Size, stale \in Link : Memalign(t, size, stale)
      BY <2>3, ReturnInv DEF Memalign
    <2> QED BY <2>1, <2>2, <2>3, BackendMallocInv, FreeInv, TryPushInv, PushInv,
               DirectFreeInv, PoisonInv
  <1> QED BY <1>1, <1>2

-----------------------------------------------------------------------------
\* Any threads, any blocks, any sizes: each thread works on a block of its own,
\* and nothing leaves the quarantine.
THEOREM QuarantineInvariant == Spec => []IInv
  BY InitInv, NextInv, PTL DEF Spec

\* The allocator's state keeps its type (malloc.c:50-101).
THEOREM QuarantineTypeOK == Spec => []TypeOK
  <1>1. IInv => TypeOK
    BY DEF IInv
  <1> QED BY <1>1, QuarantineInvariant, PTL

\* quarantine_lock, which is only tried, admits one thread to the list
\* (malloc.c:107-128).
THEOREM OneThreadInside == Spec => []OneInside
  <1>1. IInv => OneInside
    BY DEF IInv
  <1> QED BY <1>1, QuarantineInvariant, PTL

\* What is in the quarantine and no longer being freed is poisoned
\* (malloc.c:228-234): no other thread's malloc or free undoes it.
THEOREM QuarantineStaysPoisoned == Spec => []QuarantineIsPoisoned
  <1>1. IInv => QuarantineIsPoisoned
    BY DEF IInv, PoisonDue, QuarantineIsPoisoned, Quarantined, TypeOK, Block, Inside
  <1> QED BY <1>1, QuarantineInvariant, PTL

-----------------------------------------------------------------------------
(* One thread *)

Started(t) == thr[t].pc # "absent"

\* With one thread, what the program holds is clean, and the block the thread
\* still has to poison is not in the program's hands.
SoloClean ==
  (\A t, u \in Thread : Started(t) /\ Started(u) => t = u) =>
    /\ \A c \in Chunk : chunk[c].mem = "live" => ~chunk[c].poisoned
    /\ \A t \in Thread : thr[t].pc = "poison" =>
         chunk[thr[t].ck].mem \in {"backend", "quarantined"}

\* The section under the lock only links the block, it never evicts one.
LEMMA PushLinks ==
  ASSUME IInv, NEW t \in Thread, Push(t)
  PROVE  /\ thr[t].ck \in Chunk /\ chunk[thr[t].ck].mem = "freeing"
         /\ chunk' = Linked(thr[t].ck)
         /\ top' = thr[t].ck
         /\ thr' = [thr EXCEPT ![t].pc = "poison"]
<1>1. /\ thr[t].pc = "locked" /\ thr[t].ck \in Chunk
      /\ chunk[thr[t].ck].mem = "freeing"
      /\ ~(chunk[thr[t].ck].size + bytes >= MaxBytes)
  BY QuarantineAssumption
     DEF Push, IInv, TypeOK, Block, Inside, Owns, Freeing, NothingEvicted, Link
<1> QED
  BY <1>1 DEF Push

\* What linking block c changes of each block.
LEMMA LinkedBlocks ==
  ASSUME TypeOK, NEW c \in Chunk, NEW d \in Chunk
  PROVE  /\ Linked(c)[d].mem = IF d = c THEN "quarantined" ELSE chunk[d].mem
         /\ Linked(c)[d].poisoned = chunk[d].poisoned
         /\ Linked(c)[d].next = IF d = c THEN top ELSE chunk[d].next
         /\ d # c => Linked(c)[d].prev = IF d = top THEN c ELSE chunk[d].prev
<1> DEFINE b == [chunk[c] EXCEPT !.mem = "quarantined", !.next = top]
           new == [chunk EXCEPT ![c] = b]
<1>1. chunk[c] \in Block /\ chunk[d] \in Block /\ chunk \in [Chunk -> Block]
      /\ top \in Link /\ Null \notin Chunk
  BY QuarantineAssumption DEF TypeOK
<1>2. b \in Block /\ b.mem = "quarantined" /\ b.next = top
      /\ b.poisoned = chunk[c].poisoned
  <2>1. b \in Block
    BY <1>1, BlockUpdates
  <2> QED
    BY <2>1, <1>1 DEF Block
<1>3. new[d] = IF d = c THEN b ELSE chunk[d]
  BY <1>1
<1>4. DOMAIN new = Chunk
  BY <1>1
<1>5. Linked(c) = IF top = Null THEN new
                  ELSE [new EXCEPT ![top] = [new[top] EXCEPT !.prev = c]]
  BY DEF Linked
<1> HIDE DEF b, new
<1>6. CASE d = top
  <2>1. Linked(c)[d] = [new[d] EXCEPT !.prev = c]
    BY <1>1, <1>4, <1>5, <1>6
  <2>2. new[d] \in Block
    BY <1>1, <1>2, <1>3
  <2>3. /\ Linked(c)[d].mem = new[d].mem
        /\ Linked(c)[d].poisoned = new[d].poisoned
        /\ Linked(c)[d].next = new[d].next
        /\ Linked(c)[d].prev = c
    BY <2>1, <2>2 DEF Block
  <2> QED
    BY <2>3, <1>2, <1>3, <1>6
<1>7. CASE d # top
  <2>1. Linked(c)[d] = new[d]
    BY <1>4, <1>5, <1>7
  <2> QED
    BY <2>1, <1>2, <1>3, <1>7
<1> QED
  BY <1>6, <1>7

\* One step changes one thread, which is a started one before and after.
LEMMA OneThreadSteps ==
  ASSUME IInv, NEW t \in Thread,
         \/ \E c \in Chunk, old \in Link : BackendMalloc(t, c, old)
         \/ \E size \in Size : Malloc(t, size)
         \/ \E size \in Size, stale \in Link : Memalign(t, size, stale)
         \/ \E c \in Chunk : Free(t, c)
         \/ TryPush(t)
         \/ Push(t)
         \/ DirectFree(t)
         \/ Poison(t)
  PROVE  Started(t) /\ Started(t)' /\ \A u \in Thread : u # t => thr'[u] = thr[u]
<1>1. thr \in [Thread -> Inside]
  BY DEF IInv, TypeOK
<1>2. CASE \E c \in Chunk, old \in Link : BackendMalloc(t, c, old)
  BY <1>1, <1>2 DEF BackendMalloc, Started, Idle
<1>3. CASE (\E size \in Size : Malloc(t, size))
           \/ (\E size \in Size, stale \in Link : Memalign(t, size, stale))
  <2>1. PICK size \in Size, next \in Link, prev \in Link : Return(t, size, next, prev)
    BY <1>3 DEF Malloc, Memalign, Link
  <2>2. thr[t].pc = "malloc"
    BY <2>1 DEF Return
  <2>3. PICK w : thr' = [thr EXCEPT ![t] = w] /\ w.pc \in {"idle", "push"}
    <3>1. CASE thr[t].old = Null
      <4>1. thr' = [thr EXCEPT ![t] = Idle] /\ Idle.pc = "idle"
        BY <2>1, <3>1 DEF Return, Idle
      <4> QED
        BY <4>1
    <3>2. CASE thr[t].old # Null
      <4> DEFINE pushing == [pc |-> "push", ck |-> thr[t].old, old |-> Null]
      <4>1. thr' = [thr EXCEPT ![t] = pushing] /\ pushing.pc = "push"
        BY <2>1, <3>2 DEF Return
      <4> HIDE DEF pushing
      <4> QED
        BY <4>1
    <3> QED
      BY <3>1, <3>2
  <2> QED
    BY <1>1, <2>2, <2>3 DEF Started
<1>4. CASE \E c \in Chunk : Free(t, c)
  <2>1. PICK w : thr' = [thr EXCEPT ![t] = w] /\ w.pc = "push"
    <3>1. PICK c \in Chunk : Free(t, c)
      BY <1>4
    <3> DEFINE next == [Idle EXCEPT !.pc = "push", !.ck = c]
    <3>2. thr' = [thr EXCEPT ![t] = next]
      BY <3>1 DEF Free
    <3>3. next.pc = "push"
      BY DEF Idle
    <3> HIDE DEF next
    <3> QED
      BY <3>2, <3>3
  <2>2. thr[t].pc = "idle"
    <3>1. thr[t] = Idle
      BY <1>4 DEF Free
    <3> QED
      BY <3>1 DEF Idle
  <2> QED
    BY <1>1, <2>1, <2>2 DEF Started
<1>5. CASE TryPush(t)
  BY <1>1, <1>5 DEF TryPush, Started, Inside
<1>6. CASE Push(t)
  BY <1>1, <1>6, PushLinks DEF Push, Started, Inside
<1>7. CASE DirectFree(t) \/ Poison(t)
  BY <1>1, <1>7 DEF DirectFree, Poison, Started, Inside, Idle
<1> QED
  BY <1>2, <1>3, <1>4, <1>5, <1>6, <1>7

LEMMA SoloNext ==
  ASSUME IInv, SoloClean, [Next]_vars
  PROVE  SoloClean'
<1>1. CASE UNCHANGED vars
  BY <1>1 DEF vars, SoloClean, Started
<1>2. ASSUME NEW t \in Thread,
             \/ \E c \in Chunk, old \in Link : BackendMalloc(t, c, old)
             \/ \E size \in Size : Malloc(t, size)
             \/ \E size \in Size, stale \in Link : Memalign(t, size, stale)
             \/ \E c \in Chunk : Free(t, c)
             \/ TryPush(t)
             \/ Push(t)
             \/ DirectFree(t)
             \/ Poison(t)
      PROVE  SoloClean'
  <2>1. Started(t) /\ Started(t)' /\ \A u \in Thread : u # t => thr'[u] = thr[u]
    BY <1>2, OneThreadSteps
  <2>2. SUFFICES ASSUME \A u \in Thread : Started(u) => u = t
                 PROVE  /\ \A c \in Chunk : chunk'[c].mem = "live" => ~chunk'[c].poisoned
                        /\ thr'[t].pc = "poison" =>
                             chunk'[thr'[t].ck].mem \in {"backend", "quarantined"}
    <3>1. ASSUME \A v, w \in Thread : Started(v)' /\ Started(w)' => v = w
          PROVE  \A u \in Thread : Started(u) => u = t
      BY <2>1, <3>1 DEF Started
    <3>2. ASSUME \A v, w \in Thread : Started(v)' /\ Started(w)' => v = w,
                 NEW u \in Thread, thr'[u].pc = "poison"
          PROVE  u = t
      BY <2>1, <3>2 DEF Started
    <3> QED
      BY <3>1, <3>2 DEF SoloClean
  <2>3. /\ \A c \in Chunk : chunk[c].mem = "live" => ~chunk[c].poisoned
        /\ thr[t].pc = "poison" => chunk[thr[t].ck].mem \in {"backend", "quarantined"}
    BY <2>2 DEF SoloClean
  <2>4. chunk \in [Chunk -> Block] /\ thr \in [Thread -> Inside] /\ thr[t] \in Inside
    BY DEF IInv, TypeOK
  <2>5. CASE \E c \in Chunk, old \in Link : BackendMalloc(t, c, old)
    BY <2>3, <2>4, <2>5 DEF BackendMalloc, Block
  <2>6. CASE (\E size \in Size : Malloc(t, size))
             \/ (\E size \in Size, stale \in Link : Memalign(t, size, stale))
    <3>1. PICK size \in Size, next \in Link, prev \in Link : Return(t, size, next, prev)
      BY <2>6 DEF Malloc, Memalign, Link
    <3>2. thr'[t].pc # "poison"
      BY <3>1, <2>4 DEF Return, Idle
    <3>3. thr[t].ck \in Chunk /\ (thr[t].old # Null => thr[t].old \in Chunk)
      BY <3>1, <2>4 DEF Return, IInv, Owns, Inside, Link
    <3>4. \A c \in Chunk : chunk'[c].mem = "live" => ~chunk'[c].poisoned
      <4>1. CASE thr[t].old = Null
        BY <4>1, <3>1, <3>3, <2>3, <2>4 DEF Return, Header, Block
      <4>2. CASE thr[t].old # Null
        BY <4>2, <3>1, <3>3, <2>3, <2>4 DEF Return, Header, Block
      <4> QED
        BY <4>1, <4>2
    <3> QED
      BY <3>2, <3>4
  <2>7. CASE \E c \in Chunk : Free(t, c)
    BY <2>3, <2>4, <2>7 DEF Free, Block, Idle
  <2>8. CASE TryPush(t)
    BY <2>3, <2>4, <2>8 DEF TryPush, Inside
  <2>9. CASE Push(t)
    <3>1. /\ thr[t].ck \in Chunk
          /\ chunk' = Linked(thr[t].ck)
          /\ thr' = [thr EXCEPT ![t].pc = "poison"]
      BY <2>9, PushLinks
    <3>2. thr'[t].ck = thr[t].ck
      BY <3>1, <2>4 DEF Inside
    <3>3. \A d \in Chunk :
            /\ chunk'[d].mem = IF d = thr[t].ck THEN "quarantined" ELSE chunk[d].mem
            /\ chunk'[d].poisoned = chunk[d].poisoned
      BY <3>1, LinkedBlocks DEF IInv
    <3> QED
      BY <3>1, <3>2, <3>3, <2>3
  <2>10. CASE DirectFree(t)
    <3>1. thr[t].ck \in Chunk
      BY <2>10 DEF DirectFree, IInv, Owns, Freeing
    <3> QED
      BY <3>1, <2>3, <2>4, <2>10 DEF DirectFree, Block, Inside
  <2>11. CASE Poison(t)
    <3>1. thr[t].ck \in Chunk
      BY <2>11 DEF Poison, IInv, Owns
    <3> QED
      BY <3>1, <2>3, <2>4, <2>11 DEF Poison, Block, Idle
  <2> QED
    BY <1>2, <2>5, <2>6, <2>7, <2>8, <2>9, <2>10, <2>11
<1> QED
  BY <1>1, <1>2 DEF Next

\* A program with one thread never holds a poisoned block, whatever it allocates
\* and frees (malloc.c:225, 233).
THEOREM OneThreadIsClean == Spec => []LiveIsClean
<1>1. Init => SoloClean
  <2> SUFFICES ASSUME Init PROVE SoloClean
    OBVIOUS
  <2>1. \A t \in Thread : thr[t].pc # "poison"
    BY DEF Init, Idle, Absent
  <2>2. \A c \in Chunk : chunk[c].mem = "backend"
    BY DEF Init
  <2> QED
    BY <2>1, <2>2 DEF SoloClean
<1>2. IInv /\ SoloClean /\ [Next]_vars => SoloClean'
  BY SoloNext
<1>3. SoloClean => LiveIsClean
  <2> SUFFICES ASSUME SoloClean,
                      Cardinality({t \in Thread : thr[t].pc # "absent"}) = 1
               PROVE  \A c \in Chunk : chunk[c].mem = "live" => ~chunk[c].poisoned
    BY DEF LiveIsClean
  <2> DEFINE S == {t \in Thread : thr[t].pc # "absent"}
  <2>1. IsFiniteSet(S)
    BY QuarantineAssumption, FS_Subset
  <2>2. \E x : S = {x}
    BY <2>1, FS_Singleton
  <2>3. \A t, u \in Thread : Started(t) /\ Started(u) => t = u
    BY <2>2 DEF Started
  <2> QED
    BY <2>3 DEF SoloClean
<1> QED
  BY <1>1, <1>2, <1>3, QuarantineInvariant, PTL DEF Spec

-----------------------------------------------------------------------------
(* The list *)

\* list runs through n different blocks from quarantine_top, linked both ways.
Chain(list, n) ==
  /\ list[1] = top
  /\ chunk[list[n]].next = Null
  /\ \A i \in 1..(n - 1) : /\ chunk[list[i]].next = list[i + 1]
                           /\ chunk[list[i + 1]].prev = list[i]
  /\ \A i, j \in 1..n : list[i] = list[j] => i = j

\* ListWellFormed with blocks that are all different, without which a push could
\* overwrite the link of a block further down.
ListInv ==
  LET n == Cardinality(Quarantined)
  IN IF n = 0 THEN top = Null
     ELSE \E list \in [1..n -> Quarantined] : Chain(list, n)

\* A step that leaves the quarantined blocks and their links alone.
LEMMA ListFrame ==
  ASSUME ListInv, UNCHANGED <<top, Quarantined>>,
         \A q \in Quarantined : /\ chunk'[q].next = chunk[q].next
                                /\ chunk'[q].prev = chunk[q].prev
  PROVE  ListInv'
<1> DEFINE n == Cardinality(Quarantined)
<1>1. n' = n
  OBVIOUS
<1>2. n \in Nat
  <2>1. IsFiniteSet(Quarantined)
    BY QuarantineAssumption, FS_Subset DEF Quarantined
  <2> QED
    BY <2>1, FS_CardinalityType
<1> HIDE DEF n
<1>3. CASE n = 0
  BY <1>1, <1>3 DEF ListInv, n
<1>4. CASE n # 0
  <2>1. PICK list \in [1..n -> Quarantined] : Chain(list, n)
    BY <1>4 DEF ListInv, n
  <2>2. \A i \in 1..n : list[i] \in Quarantined
    BY <2>1
  <2>3. n \in 1..n /\ \A i \in 1..(n - 1) : i \in 1..n /\ i + 1 \in 1..n
    BY <1>2, <1>4
  <2>4. Chain(list, n)'
    BY <1>1, <2>1, <2>2, <2>3 DEF Chain
  <2> QED
    BY <1>1, <1>4, <2>1, <2>4 DEF ListInv, n
<1> QED
  BY <1>3, <1>4

\* A list that is there after a step.
LEMMA ListAfter ==
  ASSUME NEW m \in Nat \ {0}, m = Cardinality(Quarantined'),
         NEW l \in [1..m -> Quarantined'],
         l[1] = top', chunk'[l[m]].next = Null,
         \A i \in 1..(m - 1) : /\ chunk'[l[i]].next = l[i + 1]
                               /\ chunk'[l[i + 1]].prev = l[i],
         \A i, j \in 1..m : l[i] = l[j] => i = j
  PROVE  ListInv'
<1>1. Chain(l, m)'
  BY DEF Chain
<1> QED
  BY <1>1 DEF ListInv

\* A push puts its block in front.
LEMMA PushKeepsList ==
  ASSUME IInv, ListInv, NEW t \in Thread, Push(t)
  PROVE  ListInv'
<1> DEFINE c == thr[t].ck
           n == Cardinality(Quarantined)
<1>1. c \in Chunk /\ chunk[c].mem = "freeing" /\ chunk' = Linked(c) /\ top' = c
  BY PushLinks
<1>2. \A d \in Chunk :
        /\ chunk'[d].mem = IF d = c THEN "quarantined" ELSE chunk[d].mem
        /\ chunk'[d].next = IF d = c THEN top ELSE chunk[d].next
        /\ d # c => chunk'[d].prev = IF d = top THEN c ELSE chunk[d].prev
  BY <1>1, LinkedBlocks DEF IInv
<1> HIDE DEF c
<1>3. c \notin Quarantined /\ Quarantined' = Quarantined \cup {c} /\ Quarantined \subseteq Chunk
  BY <1>1, <1>2 DEF Quarantined
<1>4. IsFiniteSet(Quarantined) /\ n \in Nat
  <2>1. IsFiniteSet(Quarantined)
    BY QuarantineAssumption, FS_Subset DEF Quarantined
  <2> QED
    BY <2>1, FS_CardinalityType
<1>5. n' = n + 1
  BY <1>3, <1>4, FS_AddElement
<1> HIDE DEF n
<1>6. CASE n = 0
  <2> DEFINE list == [i \in 1..1 |-> c]
  <2>1. list \in [1..1 -> Quarantined'] /\ list[1] = c
    BY <1>3
  <2>2. top = Null
    BY <1>6 DEF ListInv, n
  <2> HIDE DEF list
  <2>3. 1 = Cardinality(Quarantined')
    BY <1>5, <1>6 DEF n
  <2>4. chunk'[list[1]].next = Null
    BY <1>1, <1>2, <2>1, <2>2
  <2>5. \A l : l = list => ListInv'
    <3>1. SUFFICES ASSUME NEW l, l = list PROVE ListInv'
      OBVIOUS
    <3>2. l \in [1..1 -> Quarantined'] /\ l[1] = top' /\ chunk'[l[1]].next = Null
      BY <3>1, <2>1, <2>4, <1>1
    <3>3. \A i, j \in 1..1 : i = j
      OBVIOUS
    <3>4. 1 \in Nat \ {0} /\ 1..(1 - 1) = {}
      OBVIOUS
    <3> QED
      BY <3>2, <3>3, <3>4, <2>3, ListAfter
  <2> QED
    BY <2>5
<1>7. CASE n # 0
  <2>1. PICK old \in [1..n -> Quarantined] : Chain(old, n)
    BY <1>7 DEF ListInv, n
  <2>2. /\ old[1] = top
        /\ chunk[old[n]].next = Null
        /\ \A i \in 1..(n - 1) : /\ chunk[old[i]].next = old[i + 1]
                                 /\ chunk[old[i + 1]].prev = old[i]
        /\ \A i, j \in 1..n : old[i] = old[j] => i = j
    BY <2>1 DEF Chain
  <2>3. ASSUME NEW i \in 1..n
        PROVE  /\ old[i] \in Chunk /\ old[i] # c /\ old[i] \in Quarantined
               /\ chunk'[old[i]].next = chunk[old[i]].next
               /\ i # 1 => chunk'[old[i]].prev = chunk[old[i]].prev
               /\ i = 1 => chunk'[old[i]].prev = c
    <3>1. old[i] \in Quarantined /\ old[i] \in Chunk /\ old[i] # c
      BY <2>1, <1>3
    <3>2. 1 \in 1..n
      BY <1>4, <1>7
    <3>3. old[i] = top <=> i = 1
      BY <2>2, <3>2
    <3> QED
      BY <3>1, <3>3, <1>2
  <2> DEFINE list == [i \in 1..(n + 1) |-> IF i = 1 THEN c ELSE old[i - 1]]
  <2>4. list[1] = c /\ list \in [1..(n + 1) -> Quarantined']
        /\ \A i \in 1..n : list[i + 1] = old[i]
    <3>1. \A i \in 1..(n + 1) : i # 1 => i - 1 \in 1..n
      BY <1>4
    <3>2. 1 \in 1..(n + 1) /\ \A i \in 1..n : i + 1 \in 1..(n + 1) /\ i + 1 # 1 /\ (i + 1) - 1 = i
      BY <1>4
    <3>3. list \in [1..(n + 1) -> Quarantined']
      BY <3>1, <1>3, <2>3
    <3> QED
      BY <3>2, <3>3
  <2> HIDE DEF list
  <2>5. chunk'[list[n + 1]].next = Null
    <3>1. n \in 1..n
      BY <1>4, <1>7
    <3> QED
      BY <3>1, <2>2, <2>3, <2>4
  <2>6. ASSUME NEW i \in 1..n
        PROVE  /\ chunk'[list[i]].next = list[i + 1]
               /\ chunk'[list[i + 1]].prev = list[i]
    <3>1. CASE i = 1
      <4>1. list[i] = c /\ list[i + 1] = old[1] /\ old[1] = top /\ 1 \in 1..n
        BY <3>1, <2>2, <2>4
      <4>2. chunk'[c].next = top
        BY <1>1, <1>2
      <4> QED
        BY <4>1, <4>2, <2>3
    <3>2. CASE i # 1
      <4> DEFINE k == i - 1
      <4>1. k \in 1..n /\ k \in 1..(n - 1) /\ k + 1 = i
        BY <3>2, <1>4
      <4> HIDE DEF k
      <4>2. list[i] = old[k] /\ list[i + 1] = old[i] /\ old[i] = old[k + 1]
        BY <4>1, <2>4
      <4>3. chunk[old[k]].next = old[k + 1] /\ chunk[old[k + 1]].prev = old[k]
        BY <4>1, <2>2
      <4> QED
        BY <4>1, <4>2, <4>3, <2>3, <3>2
    <3> QED
      BY <3>1, <3>2
  <2>7. ASSUME NEW i \in 1..(n + 1), NEW j \in 1..(n + 1), list[i] = list[j]
        PROVE  i = j
    <3>1. \A k \in 1..(n + 1) : k = 1 \/ (k - 1 \in 1..n /\ list[k] = old[k - 1])
      <4>1. \A k \in 1..(n + 1) : k = 1 \/ (k - 1 \in 1..n /\ (k - 1) + 1 = k)
        BY <1>4
      <4> QED
        BY <4>1, <2>4
    <3>2. CASE i = 1 \/ j = 1
      BY <3>1, <3>2, <2>3, <2>4, <2>7
    <3>3. CASE i # 1 /\ j # 1
      <4>1. i - 1 \in 1..n /\ j - 1 \in 1..n /\ old[i - 1] = old[j - 1]
        BY <3>1, <3>3, <2>7
      <4>2. i - 1 = j - 1
        BY <4>1, <2>2
      <4> QED
        BY <4>2
    <3> QED
      BY <3>2, <3>3
  <2>8. ASSUME NEW m, m = n + 1, NEW l, l = list
        PROVE  ListInv'
    <3>1. m \in Nat \ {0} /\ m - 1 = n
      BY <1>4, <2>8
    <3>2. m = Cardinality(Quarantined')
      BY <1>5, <2>8 DEF n
    <3>3. l \in [1..m -> Quarantined'] /\ l[1] = top' /\ chunk'[l[m]].next = Null
      BY <2>4, <2>5, <2>8, <1>1
    <3>4. \A i \in 1..(m - 1) : /\ chunk'[l[i]].next = l[i + 1]
                                /\ chunk'[l[i + 1]].prev = l[i]
      BY <2>6, <2>8, <3>1
    <3>5. \A i, j \in 1..m : l[i] = l[j] => i = j
      BY <2>7, <2>8
    <3> QED
      BY <3>1, <3>2, <3>3, <3>4, <3>5, ListAfter
  <2> QED
    BY <2>8
<1> QED
  BY <1>6, <1>7

LEMMA ListNext ==
  ASSUME IInv, ListInv, [Next]_vars
  PROVE  ListInv'
<1>0. chunk \in [Chunk -> Block] /\ thr \in [Thread -> Inside]
  BY DEF IInv, TypeOK
<1>1. ASSUME top' = top, chunk' \in [Chunk -> Block],
             \A d \in Chunk :
               /\ chunk[d].mem = "quarantined" <=> chunk'[d].mem = "quarantined"
               /\ chunk[d].mem = "quarantined" => /\ chunk'[d].next = chunk[d].next
                                                  /\ chunk'[d].prev = chunk[d].prev
      PROVE  ListInv'
  <2>1. Quarantined' = Quarantined
    BY <1>1 DEF Quarantined
  <2>2. \A q \in Quarantined : chunk'[q].next = chunk[q].next /\ chunk'[q].prev = chunk[q].prev
    BY <1>1 DEF Quarantined
  <2> QED
    BY <1>1, <2>1, <2>2, ListFrame
<1>2. chunk' \in [Chunk -> Block]
  BY NextInv DEF IInv, TypeOK
<1>3. CASE UNCHANGED vars
  BY <1>1, <1>2, <1>3 DEF vars
<1>4. ASSUME NEW t \in Thread, NEW c \in Chunk, NEW old \in Link, BackendMalloc(t, c, old)
      PROVE  ListInv'
  BY <1>0, <1>1, <1>2, <1>4 DEF BackendMalloc, Block
<1>5. ASSUME NEW t \in Thread, NEW size \in Size, NEW next \in Link, NEW prev \in Link,
             Return(t, size, next, prev)
      PROVE  ListInv'
  <2> DEFINE c == thr[t].ck
             old == thr[t].old
  <2>1. /\ c \in Chunk /\ chunk[c].mem = "fresh"
        /\ old # Null => old \in Chunk /\ chunk[old].mem = "live"
    BY <1>0, <1>5 DEF Return, IInv, Owns, Inside, Link
  <2>2. top' = top /\ (\/ chunk' = [chunk EXCEPT ![c] = Header(c, size, next, prev)]
                       \/ /\ old # Null
                          /\ chunk' = [[chunk EXCEPT ![c] = Header(c, size, next, prev)]
                                         EXCEPT ![old].mem = "freeing"])
    BY <1>5 DEF Return
  <2>3. Header(c, size, next, prev).mem = "live"
    BY DEF Header
  <2> HIDE DEF c, old
  <2>4. CASE chunk' = [chunk EXCEPT ![c] = Header(c, size, next, prev)]
    BY <2>1, <2>2, <2>3, <2>4, <1>0, <1>1, <1>2
  <2>5. CASE /\ old # Null
             /\ chunk' = [[chunk EXCEPT ![c] = Header(c, size, next, prev)]
                            EXCEPT ![old].mem = "freeing"]
    <3>1. \A d \in Chunk : d # c /\ d # old => chunk'[d] = chunk[d]
      BY <2>5, <1>0
    <3>2. chunk'[c].mem # "quarantined" /\ chunk'[old].mem # "quarantined"
      BY <2>1, <2>3, <2>5, <1>0 DEF Block
    <3> QED
      BY <2>1, <2>2, <3>1, <3>2, <1>1, <1>2
  <2> QED
    BY <2>2, <2>4, <2>5
<1>6. ASSUME NEW t \in Thread, NEW c \in Chunk, Free(t, c)
      PROVE  ListInv'
  BY <1>0, <1>1, <1>2, <1>6 DEF Free, Held, Block
<1>7. ASSUME NEW t \in Thread, TryPush(t)
      PROVE  ListInv'
  BY <1>1, <1>2, <1>7 DEF TryPush
<1>8. ASSUME NEW t \in Thread, DirectFree(t)
      PROVE  ListInv'
  <2>1. thr[t].ck \in Chunk /\ chunk[thr[t].ck].mem = "freeing"
    BY <1>8 DEF DirectFree, IInv, Owns, Freeing
  <2> QED
    BY <2>1, <1>0, <1>1, <1>2, <1>8 DEF DirectFree, Block
<1>9. ASSUME NEW t \in Thread, Poison(t)
      PROVE  ListInv'
  <2>1. thr[t].ck \in Chunk
    BY <1>9 DEF Poison, IInv, Owns
  <2> QED
    BY <2>1, <1>0, <1>1, <1>2, <1>9 DEF Poison, Block
<1> QED
  BY <1>3, <1>4, <1>5, <1>6, <1>7, <1>8, <1>9, PushKeepsList
     DEF Next, Malloc, Memalign, Link

\* However many threads free at the same time, the quarantine is one list that
\* holds each quarantined block once (malloc.c:107-168).
THEOREM QuarantineListWellFormed == Spec => []ListWellFormed
<1>1. Init => ListInv
  <2>1. Init => Quarantined = {}
    BY DEF Init, Quarantined
  <2>2. Cardinality({}) = 0
    BY FS_EmptySet
  <2> QED
    BY <2>1, <2>2 DEF Init, ListInv
<1>2. IInv /\ ListInv /\ [Next]_vars => ListInv'
  BY ListNext
<1>3. ListInv => ListWellFormed
  BY DEF ListInv, ListWellFormed, Chain
<1> QED
  BY <1>1, <1>2, <1>3, QuarantineInvariant, PTL DEF Spec

-----------------------------------------------------------------------------
(* The comparison log: remainders *)

\* A number is determined by its quotient and its remainder.
LEMMA DivMod ==
  ASSUME NEW d \in Nat \ {0}, NEW a \in Nat
  PROVE  /\ a = d * (a \div d) + (a % d)
         /\ a \div d \in Nat
         /\ a % d \in 0..(d - 1)
  BY SMT

\* The remainder of a number given by quotient and remainder.
LEMMA ModUnique ==
  ASSUME NEW d \in Nat \ {0}, NEW q \in Int, NEW r \in 0..(d - 1)
  PROVE  (d * q + r) % d = r
  BY SMT

\* Small numbers are their own remainders.
LEMMA ModSmall ==
  ASSUME NEW d \in Nat \ {0}, NEW a \in 0..(d - 1)
  PROVE  a % d = a
  BY SMT

\* Counting on moves the remainder by one, or back to zero.
LEMMA ModSucc ==
  ASSUME NEW d \in Nat \ {0}, NEW a \in Nat
  PROVE  (a + 1) % d = IF (a % d) + 1 = d THEN 0 ELSE (a % d) + 1
<1> DEFINE q == a \div d
           r == a % d
<1>1. a = d * q + r /\ q \in Nat /\ r \in 0..(d - 1)
  BY DivMod
<1> HIDE DEF q, r
<1>2. CASE r + 1 = d
  <2>1. a + 1 = d * (q + 1) + 0
    BY <1>1, <1>2
  <2>2. (d * (q + 1) + 0) % d = 0
    BY <1>1, ModUnique
  <2> QED
    BY <2>1, <2>2, <1>2 DEF r
<1>3. CASE r + 1 # d
  <2>1. a + 1 = d * q + (r + 1)
    BY <1>1
  <2>2. r + 1 \in 0..(d - 1) /\ q \in Int
    BY <1>1, <1>3
  <2>3. (d * q + (r + 1)) % d = r + 1
    BY <2>2, ModUnique
  <2> QED
    BY <2>1, <2>3, <1>3 DEF r
<1> QED
  BY <1>2, <1>3

\* A routine takes two slots, and the counter can count one comparison.
LEMMA Heights ==
  /\ H \in Nat \ {0} /\ RtnH \in Nat \ {0}
  /\ H = 2 * RtnH
  /\ HitsMod \in Nat \ {0} /\ HitsMod # 1
<1>1. H \in Nat \ {0} /\ HitsMod \in Nat \ {0} /\ H % 2 = 0 /\ HitsMod % H = 0
  BY CmpLogAssumption
<1>2. H = 2 * RtnH /\ RtnH \in Nat \ {0}
  BY <1>1 DEF RtnH
<1>3. HitsMod # 1
  BY <1>1, <1>2, ModSmall
<1> QED
  BY <1>1, <1>2, <1>3

\* The remainder as an operator, for lemmas with a remainder in a hypothesis.
Rem(a, d) == a % d

-----------------------------------------------------------------------------
(* The rows *)

\* Whether row i holds a comparison since the counter last was zero, with the
\* counter at h and the height ht.
Holds(i, h, ht) == i < h % ht \/ h >= ht

\* The comparison it holds, when t of them were logged.
Logged(i, h, ht, t) ==
  IF i < h % ht THEN t - (h % ht) + 1 + i ELSE t - (h % ht) - ht + 1 + i

\* The counter h goes on to g and the row from r to the next one; when it wraps
\* to zero no row holds anything.
LEMMA NextPosition ==
  ASSUME NEW ht \in Nat \ {0}, HitsMod \in Nat \ {0},
         NEW h \in 0..(HitsMod - 1), NEW i \in 0..(ht - 1),
         NEW g, g = Rem(h + 1, HitsMod), NEW r, r = Rem(h, ht),
         Holds(i, g, ht)
  PROVE  /\ r \in 0..(ht - 1) /\ (h < ht => r = h)
         /\ g = h + 1
         /\ g % ht = IF r + 1 = ht THEN 0 ELSE r + 1
         /\ i < g % ht \/ g >= ht
<1> USE DEF Rem
<1>0. h \in Nat
  OBVIOUS
<1>1. r \in 0..(ht - 1) /\ (h < ht => r = h)
  <2>1. r \in 0..(ht - 1)
    BY <1>0, DivMod
  <2>2. h < ht => h \in 0..(ht - 1)
    BY <1>0
  <2> QED
    BY <2>1, <2>2, ModSmall
<1>2. h + 1 # HitsMod
  <2>1. SUFFICES ASSUME h + 1 = HitsMod PROVE FALSE
    OBVIOUS
  <2>2. g = 0
    BY <2>1
  <2>3. g % ht = 0
    BY <2>2, ModSmall
  <2> QED
    BY <2>2, <2>3 DEF Holds
<1>3. g = h + 1
  BY <1>2, ModSmall
<1>4. g % ht = IF r + 1 = ht THEN 0 ELSE r + 1
  <2>1. (h + 1) % ht = IF (h % ht) + 1 = ht THEN 0 ELSE (h % ht) + 1
    BY <1>0, ModSucc
  <2> QED
    BY <2>1, <1>3
<1> QED
  BY <1>1, <1>3, <1>4 DEF Holds

\* A comparison of the header's kind goes to row r ...
LEMMA RowWritten ==
  ASSUME NEW ht \in Nat \ {0}, HitsMod \in Nat \ {0},
         NEW h \in 0..(HitsMod - 1), NEW i \in 0..(ht - 1),
         NEW g, g = Rem(h + 1, HitsMod), NEW r, r = Rem(h, ht),
         Holds(i, g, ht), i = r, NEW u \in Nat
  PROVE  Logged(i, g, ht, u) = u
<1> DEFINE s == g % ht
<1>1. /\ r \in 0..(ht - 1)
      /\ g = h + 1
      /\ s = IF r + 1 = ht THEN 0 ELSE r + 1
  BY NextPosition
<1>2. Logged(i, g, ht, u) = IF i < s THEN u - s + 1 + i ELSE u - s - ht + 1 + i
  BY DEF Logged
<1> HIDE DEF s
<1> QED
  BY <1>1, <1>2

\* ... and leaves the other rows as they should be.
LEMMA RowKept ==
  ASSUME NEW ht \in Nat \ {0}, HitsMod \in Nat \ {0},
         NEW h \in 0..(HitsMod - 1), NEW i \in 0..(ht - 1),
         NEW g, g = Rem(h + 1, HitsMod), NEW r, r = Rem(h, ht),
         Holds(i, g, ht), i # r, NEW t \in Nat, NEW u, u = t + 1
  PROVE  Holds(i, h, ht) /\ Logged(i, g, ht, u) = Logged(i, h, ht, t)
<1> DEFINE s == g % ht
<1>1. /\ r \in 0..(ht - 1) /\ (h < ht => r = h)
      /\ g = h + 1
      /\ s = IF r + 1 = ht THEN 0 ELSE r + 1
      /\ i < s \/ g >= ht
  BY NextPosition
<1>2. Logged(i, g, ht, u) = IF i < s THEN u - s + 1 + i ELSE u - s - ht + 1 + i
  BY DEF Logged
<1>3. Logged(i, h, ht, t) = IF i < r THEN t - r + 1 + i ELSE t - r - ht + 1 + i
  BY DEF Logged, Rem
<1> HIDE DEF s
<1>4. i < r \/ h >= ht
  BY <1>1
<1>5. Logged(i, g, ht, u) = Logged(i, h, ht, t)
  <2>1. CASE r + 1 = ht
    <3>1. s = 0 /\ ~(i < s) /\ i < r
      BY <1>1, <2>1
    <3> QED
      BY <3>1, <1>1, <1>2, <1>3, <2>1
  <2>2. CASE r + 1 # ht
    <3>1. s = r + 1 /\ (i < s <=> i < r)
      BY <1>1, <2>2
    <3> QED
      BY <3>1, <1>1, <1>2, <1>3
  <2> QED
    BY <2>1, <2>2
<1> QED
  BY <1>4, <1>5 DEF Holds, Rem

\* The first comparison of another kind is in row 0 and only there.
LEMMA FirstRow ==
  ASSUME NEW ht \in Nat \ {0}, NEW t \in Nat, NEW i \in 0..(ht - 1), Holds(i, 1, ht)
  PROVE  i = 0 /\ Logged(i, 1, ht, t + 1) = t + 1
<1>1. CASE ht = 1
  <2>1. 1 % ht = 0
    BY <1>1
  <2> QED
    BY <1>1, <2>1 DEF Logged
<1>2. CASE ht # 1
  <2>1. 1 % ht = 1
    BY <1>2, ModSmall
  <2> QED
    BY <1>2, <2>1 DEF Holds, Logged
<1> QED
  BY <1>1, <1>2

\* No row holds anything after a reset.
LEMMA NoRow ==
  ASSUME NEW ht \in Nat \ {0}, NEW i \in 0..(ht - 1)
  PROVE  ~Holds(i, 0, ht)
<1>1. 0 % ht = 0
  BY ModSmall
<1> QED
  BY <1>1 DEF Holds

-----------------------------------------------------------------------------
(* The inductive invariant *)

\* What the slots of row i should hold.
RowOK(i) ==
  Holds(i, hits, Height) =>
    \A j \in SlotsOf(i) : /\ slot[j].run = run
                          /\ slot[j].kind = kind
                          /\ slot[j].n = Logged(i, hits, Height, total)
                          /\ slot[j].whole => slot[j].tail = <<run, slot[j].n>>

LogIInv ==
  /\ LogTypeOK
  /\ \A i \in 0..(Height - 1) : RowOK(i)

LEMMA LogInitInv == LogInit => LogIInv
<1> SUFFICES ASSUME LogInit PROVE LogIInv
  OBVIOUS
<1>1. LogTypeOK
  <2>1. 0 \in 0..(HitsMod - 1) /\ 0 \in 0..MaxRuns /\ 0 \in 0..MaxLogs
    BY Heights, CmpLogAssumption
  <2>2. slot \in [0..(H - 1) -> [run : 0..MaxRuns, n : 0..MaxLogs,
                                 kind : {Ins, Rtn}, whole : BOOLEAN,
                                 tail : (0..MaxRuns) \X (0..MaxLogs)]]
    BY <2>1 DEF LogInit
  <2>3. hits \in 0..(HitsMod - 1) /\ run \in 0..MaxRuns /\ total \in 0..MaxLogs
    BY <2>1 DEF LogInit
  <2>4. shape \in 0..2 /\ kind \in {Ins, Rtn}
    BY DEF LogInit
  <2>5. enabled \in BOOLEAN
    BY DEF LogInit
  <2> QED
    BY <2>2, <2>3, <2>4, <2>5 DEF LogTypeOK
<1>2. ASSUME NEW i \in 0..(Height - 1) PROVE RowOK(i)
  BY <1>2, Heights, NoRow DEF LogInit, RowOK, Height
<1> QED
  BY <1>1, <1>2 DEF LogIInv

\* The slots of a row are in the map.
LEMMA SlotsInMap ==
  ASSUME kind \in {Ins, Rtn}, NEW i \in 0..(Height - 1), NEW j \in SlotsOf(i)
  PROVE  j \in 0..(H - 1)
  BY Heights DEF SlotsOf, Height, Ins, Rtn

\* The counter keeps its width.
LEMMA HitsInRange ==
  ASSUME hits \in Nat, NEW k, NEW s, NewHeader(k, s)
  PROVE  hits' \in 0..(HitsMod - 1)
<1>1. (hits + 1) % HitsMod \in 0..(HitsMod - 1)
  BY Heights, DivMod
<1>2. 1 \in 0..(HitsMod - 1)
  BY Heights
<1> QED
  BY <1>1, <1>2 DEF NewHeader

\* An instruction writes one row.
LEMMA InstructionKeeps ==
  ASSUME LogIInv, NEW s \in {1, 2}, LogInstruction(s)
  PROVE  LogIInv'
<1> USE DEF LogInstruction, NewHeader, LogIInv
<1> DEFINE h == IF kind # Ins THEN 0 ELSE hits
           r == h % H
<1>0. h \in Nat /\ hits \in Nat
  BY Heights DEF LogTypeOK
<1>1. r \in 0..(H - 1)
  <2> HIDE DEF h
  <2> QED
    BY <1>0, Heights, DivMod
<1>2. Row(Ins, H) = r
  BY DEF Row
<1>3. hits' \in 0..(HitsMod - 1)
  BY <1>0, HitsInRange
<1>4. LogTypeOK'
  <2>1. shape' \in 0..2 /\ kind' \in {Ins, Rtn} /\ enabled' \in BOOLEAN
        /\ run' \in 0..MaxRuns
    BY DEF LogTypeOK, Ins
  <2>2. total' \in 0..MaxLogs
    BY CmpLogAssumption DEF LogTypeOK
  <2>3. slot' \in [0..(H - 1) -> [run : 0..MaxRuns, n : 0..MaxLogs,
                                  kind : {Ins, Rtn}, whole : BOOLEAN,
                                  tail : (0..MaxRuns) \X (0..MaxLogs)]]
    BY <2>2, <1>1, <1>2 DEF LogTypeOK
  <2> QED
    BY <1>3, <2>1, <2>2, <2>3 DEF LogTypeOK
<1>5. ASSUME NEW i \in 0..(H - 1), Holds(i, hits', H)
      PROVE  /\ slot'[i].run = run
             /\ slot'[i].kind = Ins
             /\ slot'[i].n = Logged(i, hits', H, total + 1)
             /\ slot'[i].whole => slot'[i].tail = <<run, slot'[i].n>>
  <2> HIDE DEF r
  <2>1. slot' = [slot EXCEPT ![r] = [run |-> run, n |-> total + 1, kind |-> Ins,
                                     whole |-> TRUE, tail |-> <<run, total + 1>>]]
    BY <1>2
  <2>2. slot'[i] = IF i = r THEN [run |-> run, n |-> total + 1, kind |-> Ins,
                                  whole |-> TRUE, tail |-> <<run, total + 1>>]
                   ELSE slot[i]
    BY <2>1, <1>1 DEF LogTypeOK
  <2>3. total \in Nat
    BY CmpLogAssumption DEF LogTypeOK
  <2>4. CASE kind # Ins
    <3>1. hits' = 1 /\ r = 0
      BY <2>4, Heights, ModSmall DEF r
    <3>2. i = 0 /\ Logged(i, 1, H, total + 1) = total + 1
      BY <1>5, <3>1, <2>3, Heights, FirstRow
    <3> QED
      BY <2>2, <3>1, <3>2
  <2>5. CASE kind = Ins
    <3>1. hits' = (hits + 1) % HitsMod /\ r = hits % H /\ hits \in 0..(HitsMod - 1)
      BY <2>5 DEF r, LogTypeOK
    <3>2. /\ i = r => Logged(i, hits', H, total + 1) = total + 1
          /\ i # r => /\ Holds(i, hits, H)
                      /\ Logged(i, hits', H, total + 1) = Logged(i, hits, H, total)
      <4>1. hits' = Rem(hits + 1, HitsMod) /\ r = Rem(hits, H)
        BY <3>1 DEF Rem
      <4>2. hits \in 0..(HitsMod - 1) /\ H \in Nat \ {0} /\ HitsMod \in Nat \ {0}
        BY <3>1, Heights
      <4> HIDE DEF LogInstruction, LogRoutine, NewHeader, LogIInv
      <4>3. ASSUME i = r PROVE Logged(i, hits', H, total + 1) = total + 1
        <5>1. total + 1 \in Nat
          BY <2>3
        <5> QED
          BY <5>1, <4>1, <4>2, <4>3, <1>5, RowWritten
      <4>4. ASSUME i # r
            PROVE  Holds(i, hits, H)
                   /\ Logged(i, hits', H, total + 1) = Logged(i, hits, H, total)
        <5>1. \A u : u = total + 1 =>
                Holds(i, hits, H) /\ Logged(i, hits', H, u) = Logged(i, hits, H, total)
          BY <4>1, <4>2, <4>4, <1>5, <2>3, RowKept
        <5> QED
          BY <5>1
      <4> QED
        BY <4>3, <4>4
    <3>3. i # r => /\ slot[i].run = run
                   /\ slot[i].kind = kind
                   /\ slot[i].n = Logged(i, hits, H, total)
                   /\ slot[i].whole => slot[i].tail = <<run, slot[i].n>>
      BY <3>2, <2>5 DEF RowOK, SlotsOf, Height
    <3> QED
      BY <2>2, <3>2, <3>3, <2>5
  <2> QED
    BY <2>4, <2>5
<1>6. ASSUME NEW i \in 0..(Height' - 1) PROVE RowOK(i)'
  <2>1. kind' = Ins /\ Height' = H /\ SlotsOf(i)' = {i} /\ run' = run
        /\ total' = total + 1
    BY DEF Height, SlotsOf
  <2> QED
    BY <2>1, <1>5 DEF RowOK
<1> QED
  BY <1>4, <1>6

\* A routine writes the two slots of one row.
LEMMA RoutineKeeps ==
  ASSUME LogIInv, NEW s \in {1, 2}, LogRoutine(s)
  PROVE  LogIInv'
<1> USE DEF LogRoutine, NewHeader, LogIInv
<1> DEFINE h == IF kind # Rtn THEN 0 ELSE hits
           r == h % RtnH
           Written(old) == [run |-> run, n |-> total + 1, kind |-> Rtn, whole |-> s = 2,
                            tail |-> IF s = 2 THEN <<run, total + 1>> ELSE old.tail]
<1>0. h \in Nat /\ hits \in Nat
  BY Heights DEF LogTypeOK
<1>1. r \in 0..(RtnH - 1) /\ 2 * r \in 0..(H - 1) /\ 2 * r + 1 \in 0..(H - 1)
  <2> HIDE DEF h
  <2>1. r \in 0..(RtnH - 1)
    BY <1>0, Heights, DivMod
  <2> HIDE DEF r
  <2> QED
    BY <2>1, Heights
<1>2. slot' = [slot EXCEPT ![2 * r] = Written(@), ![2 * r + 1] = Written(@)]
  BY DEF Row
<1>3. hits' \in 0..(HitsMod - 1)
  BY <1>0, HitsInRange
<1>3a. ASSUME NEW j \in 0..(H - 1)
       PROVE  slot'[j] = IF j \in {2 * r, 2 * r + 1} THEN Written(slot[j]) ELSE slot[j]
  <2> HIDE DEF r
  <2> QED
    BY <1>1, <1>2 DEF LogTypeOK
<1>4. LogTypeOK'
  <2>1. shape' \in 0..2 /\ kind' \in {Ins, Rtn} /\ enabled' \in BOOLEAN
        /\ run' \in 0..MaxRuns
    BY DEF LogTypeOK, Rtn
  <2>2. total' \in 0..MaxLogs
    BY CmpLogAssumption DEF LogTypeOK
  <2>3. DOMAIN slot' = 0..(H - 1) /\ slot' = [j \in 0..(H - 1) |-> slot'[j]]
    BY <1>2 DEF LogTypeOK
  <2>4. ASSUME NEW j \in 0..(H - 1)
        PROVE  slot'[j] \in [run : 0..MaxRuns, n : 0..MaxLogs,
                             kind : {Ins, Rtn}, whole : BOOLEAN,
                             tail : (0..MaxRuns) \X (0..MaxLogs)]
    <3>1. slot[j] \in [run : 0..MaxRuns, n : 0..MaxLogs,
                       kind : {Ins, Rtn}, whole : BOOLEAN,
                       tail : (0..MaxRuns) \X (0..MaxLogs)]
      BY DEF LogTypeOK
    <3>2. run \in 0..MaxRuns /\ total + 1 \in 0..MaxLogs
      BY <2>2 DEF LogTypeOK
    <3>3. Written(slot[j]) \in [run : 0..MaxRuns, n : 0..MaxLogs,
                                kind : {Ins, Rtn}, whole : BOOLEAN,
                                tail : (0..MaxRuns) \X (0..MaxLogs)]
      BY <3>1, <3>2
    <3> QED
      BY <3>1, <3>3, <1>3a
  <2>5. slot' \in [0..(H - 1) -> [run : 0..MaxRuns, n : 0..MaxLogs,
                                  kind : {Ins, Rtn}, whole : BOOLEAN,
                                  tail : (0..MaxRuns) \X (0..MaxLogs)]]
    BY <2>3, <2>4
  <2> QED
    BY <1>3, <2>1, <2>2, <2>5 DEF LogTypeOK
<1>5. ASSUME NEW i \in 0..(RtnH - 1), Holds(i, hits', RtnH), NEW j \in {2 * i, 2 * i + 1}
      PROVE  /\ slot'[j].run = run
             /\ slot'[j].kind = Rtn
             /\ slot'[j].n = Logged(i, hits', RtnH, total + 1)
             /\ slot'[j].whole => slot'[j].tail = <<run, slot'[j].n>>
  <2> HIDE DEF r
  <2>1. j \in 0..(H - 1)
    BY Heights
  <2>2. /\ i = r => slot'[j] = Written(slot[j])
        /\ i # r => slot'[j] = slot[j]
    <3>1. i = r <=> j \in {2 * r, 2 * r + 1}
      BY <1>1
    <3> QED
      BY <3>1, <2>1, <1>3a
  <2>2a. /\ Written(slot[j]).run = run
         /\ Written(slot[j]).kind = Rtn
         /\ Written(slot[j]).n = total + 1
         /\ Written(slot[j]).whole => Written(slot[j]).tail = <<run, total + 1>>
    OBVIOUS
  <2> HIDE DEF Written
  <2>3. total \in Nat
    BY CmpLogAssumption DEF LogTypeOK
  <2>4. CASE kind # Rtn
    <3>1. hits' = 1 /\ r = 0
      BY <2>4, Heights, ModSmall DEF r
    <3>2. i = 0 /\ Logged(i, 1, RtnH, total + 1) = total + 1
      BY <1>5, <3>1, <2>3, Heights, FirstRow
    <3> QED
      BY <2>2, <2>2a, <3>1, <3>2
  <2>5. CASE kind = Rtn
    <3>1. hits' = (hits + 1) % HitsMod /\ r = hits % RtnH /\ hits \in 0..(HitsMod - 1)
      BY <2>5 DEF r, LogTypeOK
    <3>2. /\ i = r => Logged(i, hits', RtnH, total + 1) = total + 1
          /\ i # r => /\ Holds(i, hits, RtnH)
                      /\ Logged(i, hits', RtnH, total + 1) = Logged(i, hits, RtnH, total)
      <4>1. hits' = Rem(hits + 1, HitsMod) /\ r = Rem(hits, RtnH)
        BY <3>1 DEF Rem
      <4>2. hits \in 0..(HitsMod - 1) /\ RtnH \in Nat \ {0} /\ HitsMod \in Nat \ {0}
        BY <3>1, Heights
      <4> HIDE DEF LogInstruction, LogRoutine, NewHeader, LogIInv
      <4>3. ASSUME i = r PROVE Logged(i, hits', RtnH, total + 1) = total + 1
        <5>1. total + 1 \in Nat
          BY <2>3
        <5> QED
          BY <5>1, <4>1, <4>2, <4>3, <1>5, RowWritten
      <4>4. ASSUME i # r
            PROVE  Holds(i, hits, RtnH)
                   /\ Logged(i, hits', RtnH, total + 1) = Logged(i, hits, RtnH, total)
        <5>1. \A u : u = total + 1 =>
                Holds(i, hits, RtnH) /\ Logged(i, hits', RtnH, u) = Logged(i, hits, RtnH, total)
          BY <4>1, <4>2, <4>4, <1>5, <2>3, RowKept
        <5> QED
          BY <5>1
      <4> QED
        BY <4>3, <4>4
    <3>3. i # r => /\ slot[j].run = run
                   /\ slot[j].kind = kind
                   /\ slot[j].n = Logged(i, hits, RtnH, total)
                   /\ slot[j].whole => slot[j].tail = <<run, slot[j].n>>
      BY <3>2, <2>5 DEF RowOK, SlotsOf, Height, Ins, Rtn
    <3> QED
      BY <2>2, <2>2a, <3>2, <3>3, <2>5
  <2> QED
    BY <2>4, <2>5
<1>6. ASSUME NEW i \in 0..(Height' - 1) PROVE RowOK(i)'
  <2>1. kind' = Rtn /\ Height' = RtnH /\ SlotsOf(i)' = {2 * i, 2 * i + 1}
        /\ run' = run /\ total' = total + 1
    BY DEF Height, SlotsOf, Ins, Rtn
  <2> QED
    BY <2>1, <1>5 DEF RowOK
<1> QED
  BY <1>4, <1>6

LEMMA LogNextInv == LogIInv /\ [LogNext]_logvars => LogIInv'
<1> SUFFICES ASSUME LogIInv, [LogNext]_logvars PROVE LogIInv'
  OBVIOUS
<1>1. CASE \E s \in {1, 2} : LogInstruction(s) \/ LogRoutine(s)
  BY <1>1, InstructionKeeps, RoutineKeeps
<1>2. CASE PreExec
  <2> USE <1>2 DEF PreExec
  <2>1. LogTypeOK'
    <3>1. /\ shape' \in 0..2 /\ kind' \in {Ins, Rtn} /\ enabled' \in BOOLEAN
          /\ slot' = slot
      BY DEF Ins
    <3>2. hits' \in 0..(HitsMod - 1)
      BY CmpLogAssumption
    <3>3. run' \in 0..MaxRuns /\ total' \in 0..MaxLogs
      BY CmpLogAssumption DEF LogIInv, LogTypeOK
    <3> QED
      BY <3>1, <3>2, <3>3 DEF LogIInv, LogTypeOK
  <2>2. ASSUME NEW i \in 0..(Height' - 1) PROVE RowOK(i)'
    <3>1. hits' = 0 /\ Height' = H
      BY DEF Height
    <3>2. ~Holds(i, hits', Height')
      BY <3>1, Heights, NoRow
    <3> QED
      BY <3>2 DEF RowOK
  <2> QED
    BY <2>1, <2>2 DEF LogIInv
<1>3. CASE PostExec
  <2> USE <1>3 DEF PostExec
  <2>1. LogTypeOK'
    BY DEF LogIInv, LogTypeOK
  <2>2. Height' = Height /\ \A i : RowOK(i)' = RowOK(i)
    BY DEF Height, RowOK, SlotsOf
  <2> QED
    BY <2>1, <2>2 DEF LogIInv
<1>4. CASE UNCHANGED logvars
  <2> USE <1>4 DEF logvars
  <2>1. LogTypeOK'
    BY DEF LogIInv, LogTypeOK
  <2>2. Height' = Height /\ \A i : RowOK(i)' = RowOK(i)
    BY DEF Height, RowOK, SlotsOf
  <2> QED
    BY <2>1, <2>2 DEF LogIInv
<1> QED
  BY <1>1, <1>2, <1>3, <1>4 DEF LogNext

\* The inductive invariant holds in every reachable state.
THEOREM CmpLogInvariant == LogSpec => []LogIInv
<1> QED
  BY LogInitInv, LogNextInv, PTL DEF LogSpec

-----------------------------------------------------------------------------
(* The properties *)

\* The rows the observer reads are rows of the map and hold something.
LEMMA UsableRows ==
  ASSUME LogTypeOK, NEW i \in 0..(usable_executions_for - 1)
  PROVE  i \in 0..(Height - 1) /\ Holds(i, hits, Height)
<1>1. Height \in Nat \ {0} /\ hits \in Nat
  BY Heights DEF Height, LogTypeOK
<1>2. hits < Height => hits % Height = hits
  <2>1. hits < Height => hits \in 0..(Height - 1)
    BY <1>1
  <2> QED
    BY <2>1, <1>1, ModSmall
<1> QED
  BY <1>1, <1>2 DEF usable_executions_for, Holds

\* What the observer reads begins with what a comparison of this run and of the
\* header's kind wrote, and the rest is of the same comparison, unless that was a
\* routine with arguments shorter than a slot.
THEOREM CmpLogFreshValues == LogSpec => []FreshValues
<1>1. LogIInv => FreshValues
  BY UsableRows DEF LogIInv, FreshValues, RowOK, Read
<1> QED
  BY <1>1, CmpLogInvariant, PTL

\* The comparisons the rows below the usable ones hold are the last ones: each of
\* them is found, at the row below.
LEMMA Newest ==
  ASSUME LogIInv
  PROVE  {slot[j].n : j \in UNION {SlotsOf(i) : i \in 0..(usable_executions_for - 1)}}
           = (total - usable_executions_for + 1)..total
<1> DEFINE U == usable_executions_for
           r == hits % Height
           S == {slot[j].n : j \in UNION {SlotsOf(i) : i \in 0..(U - 1)}}
<1>1. Height \in Nat \ {0} /\ hits \in Nat /\ total \in Nat /\ kind \in {Ins, Rtn}
  BY Heights, CmpLogAssumption DEF Height, LogTypeOK, LogIInv
<1>2. U \in 0..Height /\ (U # Height => U = r) /\ (U # Height => hits < Height)
      /\ (hits >= Height => U = Height)
  <2>1. hits < Height => hits \in 0..(Height - 1)
    BY <1>1
  <2>2. hits < Height => r = hits
    BY <2>1, <1>1, ModSmall
  <2> HIDE DEF r
  <2> QED
    BY <1>1, <2>2 DEF usable_executions_for
<1>3. r \in 0..(Height - 1)
  BY <1>1, DivMod
<1>4. ASSUME NEW i \in 0..(U - 1), NEW j \in SlotsOf(i)
      PROVE  slot[j].n = IF i < r THEN total - r + 1 + i
                         ELSE total - r - Height + 1 + i
  <2>1. i \in 0..(Height - 1) /\ Holds(i, hits, Height)
    BY UsableRows DEF LogIInv
  <2>2. slot[j].n = Logged(i, hits, Height, total)
    BY <2>1 DEF LogIInv, RowOK
  <2> QED
    BY <2>2 DEF Logged
<1>5. \A i : SlotsOf(i) # {}
  BY DEF SlotsOf
<1> HIDE DEF U, r
<1>6. ASSUME NEW n \in S PROVE n \in (total - U + 1)..total
  <2>0. PICK j \in UNION {SlotsOf(k) : k \in 0..(U - 1)} : n = slot[j].n
    OBVIOUS
  <2>1. PICK i \in 0..(U - 1) : j \in SlotsOf(i)
    OBVIOUS
  <2>2. n = IF i < r THEN total - r + 1 + i ELSE total - r - Height + 1 + i
    BY <2>0, <2>1, <1>4
  <2> QED
    BY <2>2, <1>1, <1>2, <1>3
<1>7. ASSUME NEW n \in (total - U + 1)..total PROVE n \in S
  <2> DEFINE i == IF n >= total - r + 1 THEN n - total + r - 1
                  ELSE n - total + r + Height - 1
  <2>1. i \in 0..(U - 1)
        /\ n = IF i < r THEN total - r + 1 + i ELSE total - r - Height + 1 + i
    <3>1. CASE n >= total - r + 1
      BY <3>1, <1>1, <1>2, <1>3
    <3>2. CASE ~(n >= total - r + 1)
      <4>1. U = Height
        BY <3>2, <1>1, <1>2, <1>3
      <4> QED
        BY <3>2, <4>1, <1>1, <1>2, <1>3
    <3> QED
      BY <3>1, <3>2
  <2> HIDE DEF i
  <2>2. PICK j \in SlotsOf(i) : TRUE
    BY <1>5
  <2>3. slot[j].n = n
    BY <2>1, <2>2, <1>4
  <2> QED
    BY <2>1, <2>2, <2>3
<1> QED
  BY <1>6, <1>7 DEF U

\* However often the counter wraps and the two kinds take turns, the observer
\* reads the last comparisons of the run, one per row.
THEOREM CmpLogNewestKept == LogSpec => []NewestKept
<1>1. LogIInv => NewestKept
  BY Newest DEF LogIInv, NewestKept, Read
<1> QED
  BY <1>1, CmpLogInvariant, PTL

=============================================================================
