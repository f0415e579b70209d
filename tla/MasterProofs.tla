---------------------------- MODULE MasterProofs ----------------------------
(* Proofs about Master for any nodes, connections and buffer sizes. *)
EXTENDS Master, TLAPS

-----------------------------------------------------------------------------
(* Slices *)

\* append: the node keeps its shape, the new last element is el, and a slot
\* of an older slice keeps its content or holds el.
Appended(nd, el, r) ==
  /\ r \in Node
  /\ r.cores = nd.cores
  /\ r.fuzzerByAllTime = nd.fuzzerByAllTime
  /\ r.len = nd.len + 1
  /\ Len(r.gens) >= Len(nd.gens)
  /\ r.len <= Len(Backing(r))
  /\ Backing(r)[r.len] = el
  /\ \A i \in 1..nd.len : Backing(r)[i] = Backing(nd)[i]
  /\ \A g \in 1..Len(nd.gens) :
       /\ Len(r.gens[g]) = Len(nd.gens[g])
       /\ \A i \in 1..Len(nd.gens[g]) : r.gens[g][i] \in {nd.gens[g][i], el}

\* AppendElement does what Appended says.
LEMMA AppendFacts ==
  ASSUME NEW nd \in Node, NEW el \in Element, nd.cores # 0,
         Len(nd.gens) > 0, Len(Backing(nd)) > 0, nd.len <= Len(Backing(nd)),
         NEW r, r = AppendElement(nd, el)
  PROVE  Appended(nd, el, r)
<1> DEFINE G == nd.gens
           m == Len(G)
           n == nd.len
<1>1. G \in Seq(Seq(Slot)) /\ m \in Nat /\ m \in 1..m /\ n \in Nat
  BY DEF Node
<1>2. G[m] \in Seq(Slot) /\ Len(G[m]) \in Nat
  BY <1>1
<1>5. el \in Slot /\ ZeroElement \in Slot
  BY DEF Slot
<1>3. CASE n < Len(Backing(nd))
  <2> DEFINE arr == [G[m] EXCEPT ![n + 1] = el]
             H == [G EXCEPT ![m] = arr]
  <2>1. arr \in Seq(Slot) /\ Len(arr) = Len(G[m])
    BY <1>1, <1>2, <1>3, <1>5 DEF Backing
  <2>2. H \in Seq(Seq(Slot)) /\ Len(H) = m /\ H[m] = arr
    BY <1>1, <2>1
  <2>3. r = [nd EXCEPT !.gens = H, !.len = n + 1]
    BY <1>3, <1>1 DEF AppendElement, Node, Backing
  <2> HIDE DEF arr, H
  <2>4. r \in Node /\ r.gens = H /\ r.len = n + 1 /\ r.cores = nd.cores
        /\ r.fuzzerByAllTime = nd.fuzzerByAllTime
    <3>1. n + 1 \in Nat
      BY <1>1
    <3> QED
      BY ONLY <2>2, <2>3, <3>1, nd \in Node DEF Node
  <2>5. \A i \in 1..n : arr[i] = G[m][i]
    BY <1>1, <1>2, <1>3 DEF Backing, arr
  <2>6. arr[n + 1] = el
    BY <1>1, <1>2, <1>3 DEF Backing, arr
  <2>7. \A g \in 1..m : g # m => H[g] = G[g]
    BY <1>1 DEF H
  <2>8. \A i \in 1..Len(G[m]) : arr[i] \in {G[m][i], el}
    BY <1>1, <1>2 DEF arr
  <2>10. Backing(r) = arr /\ Backing(nd) = G[m]
    BY <2>2, <2>4 DEF Backing
  <2>11. \A g \in 1..m : /\ Len(H[g]) = Len(G[g])
                         /\ \A i \in 1..Len(G[g]) : H[g][i] \in {G[g][i], el}
    BY <2>1, <2>2, <2>7, <2>8
  <2> QED
    BY <2>1, <2>2, <2>4, <2>5, <2>6, <2>10, <2>11, <1>1, <1>3 DEF Appended
<1>4. CASE ~(n < Len(Backing(nd)))
  <2> DEFINE arr == [i \in 1..2*n |-> IF i <= n THEN Backing(nd)[i]
                                      ELSE IF i = n + 1 THEN el ELSE ZeroElement]
             H == Append(G, arr)
  <2>1. n = Len(G[m]) /\ n > 0
    BY <1>1, <1>2, <1>4 DEF Backing
  <2>2. \A i \in 1..n : Backing(nd)[i] \in Slot
    BY <2>1, <1>2 DEF Backing
  <2>3. arr \in Seq(Slot) /\ Len(arr) = 2 * n
    BY <2>1, <2>2, <1>1, <1>5
  <2>4. H \in Seq(Seq(Slot)) /\ Len(H) = m + 1 /\ H[m + 1] = arr
    BY <1>1, <2>3
  <2>5. r = [nd EXCEPT !.gens = H, !.len = n + 1]
    BY <1>4, <1>1 DEF AppendElement, Node, Backing
  <2> HIDE DEF arr, H
  <2>6. r \in Node /\ r.gens = H /\ r.len = n + 1 /\ r.cores = nd.cores
        /\ r.fuzzerByAllTime = nd.fuzzerByAllTime
    <3>1. n + 1 \in Nat
      BY <1>1
    <3> QED
      BY ONLY <2>4, <2>5, <3>1, nd \in Node DEF Node
  <2>7. \A g \in 1..m : H[g] = G[g]
    BY <1>1, <2>3 DEF H
  <2>8. arr[n + 1] = el /\ \A i \in 1..n : arr[i] = G[m][i]
    BY <1>1, <2>1 DEF Backing, arr
  <2>10. Backing(r) = arr /\ Backing(nd) = G[m]
    BY <2>4, <2>6 DEF Backing
  <2>11. \A g \in 1..m : /\ Len(r.gens[g]) = Len(G[g])
                         /\ \A i \in 1..Len(G[g]) : r.gens[g][i] \in {G[g][i], el}
    BY <2>6, <2>7
  <2>12. r.len <= Len(Backing(r)) /\ Backing(r)[r.len] = el
    BY <2>1, <2>3, <2>6, <2>8, <2>10, <1>1
  <2>13. \A i \in 1..nd.len : Backing(r)[i] = Backing(nd)[i]
    BY <2>8, <2>10
  <2> QED
    BY <2>4, <2>6, <2>11, <2>12, <2>13, <1>1 DEF Appended
<1> QED
  BY <1>3, <1>4

\* DeleteFunc: every slot keeps its content or, below the length, takes that
\* of its right neighbour; older arrays are left alone.
LEMMA DeleteFacts ==
  ASSUME NEW nd \in Node, NEW el, nd.cores # 0,
         Len(nd.gens) > 0, nd.len <= Len(Backing(nd)),
         NEW r, r = DeleteElement(nd, el)
  PROVE  /\ r \in Node
         /\ r.cores = nd.cores
         /\ r.fuzzerByAllTime = nd.fuzzerByAllTime
         /\ r.len <= nd.len
         /\ Len(r.gens) = Len(nd.gens)
         /\ \A g \in 1..Len(nd.gens) : g # Len(nd.gens) => r.gens[g] = nd.gens[g]
         /\ Len(Backing(r)) = Len(Backing(nd))
         /\ \A i \in 1..Len(Backing(nd)) :
              \/ Backing(r)[i] = Backing(nd)[i]
              \/ i < nd.len /\ Backing(r)[i] = Backing(nd)[i + 1]
<1> DEFINE G == nd.gens
           m == Len(G)
           arr == G[m]
           n == nd.len
           at == CHOOSE i \in 1..n : arr[i] = el
           shifted == [i \in DOMAIN arr |->
                         IF at <= i /\ i < n THEN arr[i + 1] ELSE arr[i]]
           H == [G EXCEPT ![m] = shifted]
<1>1. G \in Seq(Seq(Slot)) /\ m \in Nat /\ m \in 1..m /\ n \in Nat
  BY DEF Node
<1>2. arr \in Seq(Slot) /\ Len(arr) \in Nat /\ Backing(nd) = arr
  BY <1>1 DEF Backing
<1>3. CASE \E i \in 1..n : arr[i] = el
  <2>1. at \in 1..n
    BY <1>3
  <2>2. n <= Len(arr) /\ n > 0
    BY <1>1, <1>2, <1>3
  <2> HIDE DEF at
  <2>3. shifted \in Seq(Slot) /\ Len(shifted) = Len(arr)
    <3>1. DOMAIN arr = 1..Len(arr) /\ \A i \in 1..Len(arr) : arr[i] \in Slot
      BY <1>2
    <3>2. \A i \in 1..Len(arr) : shifted[i] \in Slot
      BY <3>1, <2>2, <2>1, <1>1, <1>2
    <3>3. shifted \in [1..Len(arr) -> Slot]
      BY <3>1, <3>2
    <3> HIDE DEF shifted
    <3> QED
      BY <3>3, <1>2
  <2>4. \A i \in 1..Len(arr) :
          \/ shifted[i] = arr[i]
          \/ i < n /\ shifted[i] = arr[i + 1]
    <3>1. DOMAIN arr = 1..Len(arr)
      BY <1>2
    <3> HIDE DEF arr, n
    <3> QED
      BY <3>1, <1>1, <2>1
  <2>5. r = [nd EXCEPT !.gens = H, !.len = n - 1]
    BY <1>3, <1>1 DEF DeleteElement, Node, Backing, at
  <2> HIDE DEF shifted
  <2>6. H \in Seq(Seq(Slot)) /\ Len(H) = m /\ H[m] = shifted
        /\ \A g \in 1..m : g # m => H[g] = G[g]
    BY <1>1, <2>3
  <2>7. n - 1 \in Nat
    BY <2>2, <1>1
  <2> HIDE DEF H
  <2>8. r \in Node /\ r.gens = H /\ r.len = n - 1 /\ r.cores = nd.cores
        /\ r.fuzzerByAllTime = nd.fuzzerByAllTime
    BY ONLY <2>5, <2>6, <2>7, nd \in Node DEF Node
  <2>9. Backing(r) = shifted
    BY <2>6, <2>8 DEF Backing
  <2> QED
    BY <2>3, <2>4, <2>6, <2>7, <2>8, <2>9, <1>1, <1>2
<1>4. CASE ~(\E i \in 1..n : arr[i] = el)
  <2>1. r = nd
    BY <1>4, <1>2 DEF DeleteElement
  <2> QED
    BY <2>1, <1>1, <1>2
<1> QED
  BY <1>3, <1>4

-----------------------------------------------------------------------------
(* How a node evolves under Master.mu *)

\* r is a later state of node nd: slices taken from nd are still good.
Evolves(nd, r, drawn, drawn2) ==
  /\ r \in Node
  /\ r.cores = nd.cores
  /\ r.fuzzerByAllTime >= nd.fuzzerByAllTime
  /\ NodeOK(r, drawn2)
  /\ \A v \in View : ViewOK(nd, v, drawn) => ViewOK(r, v, drawn2)

\* Registration is for good.
LEMMA RegisteredMonotone ==
  ASSUME NEW el, NEW k \in Nat, NEW k2 \in Nat, k <= k2,
         NEW U, NEW U2, U \subseteq U2, Registered(el, k, U)
  PROVE  Registered(el, k2, U2)
BY DEF Registered

\* The counter of a node's fuzzers and the set of drawn identifiers only grow.
LEMMA GrowEvolves ==
  ASSUME NEW nd \in Node, NEW U, NEW U2, U \subseteq U2, NodeOK(nd, U),
         nd.cores # 0, NEW k \in Nat, nd.fuzzerByAllTime <= k,
         NEW r, r = [nd EXCEPT !.fuzzerByAllTime = k]
  PROVE  Evolves(nd, r, U, U2)
<1>1. /\ r \in Node /\ r.cores = nd.cores /\ r.fuzzerByAllTime = k
      /\ r.gens = nd.gens /\ r.len = nd.len
  BY DEF Node
<1>2. \A el : Registered(el, nd.fuzzerByAllTime, U) => Registered(el, k, U2)
  BY RegisteredMonotone DEF Node
<1>3. NodeOK(r, U2)
  BY <1>1, <1>2 DEF NodeOK, Backing
<1>4. \A v \in View : ViewOK(nd, v, U) => ViewOK(r, v, U2)
  BY <1>1, <1>2 DEF ViewOK
<1> QED
  BY <1>1, <1>3, <1>4 DEF Evolves, Node

\* Appending a registered element.
LEMMA AppendEvolves ==
  ASSUME NEW nd \in Node, NEW el \in Element, NEW U, NodeOK(nd, U),
         nd.cores # 0, Registered(el, nd.fuzzerByAllTime, U),
         NEW r, r = AppendElement(nd, el)
  PROVE  Evolves(nd, r, U, U)
<1>1. Len(nd.gens) > 0 /\ Len(Backing(nd)) > 0 /\ nd.len <= Len(Backing(nd))
      /\ \A i \in 1..nd.len : Registered(Backing(nd)[i], nd.fuzzerByAllTime, U)
  BY DEF NodeOK
<1>8. Appended(nd, el, r)
  BY <1>1, AppendFacts
<1>2. /\ r \in Node
      /\ r.cores = nd.cores
      /\ r.fuzzerByAllTime = nd.fuzzerByAllTime
      /\ r.len = nd.len + 1
      /\ Len(r.gens) >= Len(nd.gens)
      /\ r.len <= Len(Backing(r))
      /\ Backing(r)[r.len] = el
      /\ \A i \in 1..nd.len : Backing(r)[i] = Backing(nd)[i]
      /\ \A g \in 1..Len(nd.gens) :
           /\ Len(r.gens[g]) = Len(nd.gens[g])
           /\ \A i \in 1..Len(nd.gens[g]) : r.gens[g][i] \in {nd.gens[g][i], el}
  BY <1>8 DEF Appended
<1>3. nd.len \in Nat /\ nd.gens \in Seq(Seq(Slot)) /\ r.gens \in Seq(Seq(Slot))
  BY <1>2 DEF Node
<1>4. Len(r.gens) > 0 /\ Len(Backing(r)) > 0
  <2>1. Backing(r) \in Seq(Slot)
    BY <1>1, <1>2, <1>3 DEF Backing
  <2>2. Len(Backing(r)) \in Nat /\ Len(r.gens) \in Nat /\ Len(nd.gens) \in Nat
    BY ONLY <2>1, <1>3
  <2>3. r.len = nd.len + 1 /\ r.len <= Len(Backing(r)) /\ Len(r.gens) >= Len(nd.gens)
    BY <1>2
  <2> QED
    BY ONLY <2>2, <2>3, <1>1, <1>3
<1>5. \A i \in 1..r.len : Registered(Backing(r)[i], r.fuzzerByAllTime, U)
  <2> TAKE i \in 1..r.len
  <2>1. i = r.len \/ i \in 1..nd.len
    BY <1>2, <1>3
  <2> QED
    BY <2>1, <1>1, <1>2
<1>6. NodeOK(r, U)
  BY <1>2, <1>4, <1>5 DEF NodeOK
<1>7. ASSUME NEW v \in View, ViewOK(nd, v, U)
      PROVE  ViewOK(r, v, U)
  <2>1. v.gen \in 1..Len(nd.gens) /\ v.hi <= Len(nd.gens[v.gen])
        /\ v.lo \in Nat /\ v.hi \in Nat
    BY <1>7 DEF ViewOK, View
  <2>2. v.gen \in 1..Len(r.gens) /\ v.hi <= Len(r.gens[v.gen])
    <3>1. Len(r.gens) \in Nat /\ Len(nd.gens) \in Nat
      BY ONLY <1>3
    <3>2. Len(r.gens) >= Len(nd.gens) /\ Len(r.gens[v.gen]) = Len(nd.gens[v.gen])
      BY <1>2, <2>1
    <3> QED
      BY ONLY <3>1, <3>2, <2>1
  <2>3. ASSUME NEW i \in v.lo+1..v.hi
        PROVE  Registered(r.gens[v.gen][i], r.fuzzerByAllTime, U)
    <3>1. i \in 1..Len(nd.gens[v.gen])
      BY <2>1, <1>3, SMTT(20)
    <3>2. r.gens[v.gen][i] \in {nd.gens[v.gen][i], el}
      BY <3>1, <2>1, <1>2
    <3>3. Registered(nd.gens[v.gen][i], nd.fuzzerByAllTime, U)
      BY <1>7 DEF ViewOK
    <3> QED
      BY <3>2, <3>3, <1>2
  <2> QED
    BY <2>2, <2>3 DEF ViewOK
<1> QED
  BY <1>2, <1>6, <1>7 DEF Evolves, Node

\* Deleting an element.
LEMMA DeleteEvolves ==
  ASSUME NEW nd \in Node, NEW el, NEW U, NodeOK(nd, U), nd.cores # 0,
         NEW r, r = DeleteElement(nd, el)
  PROVE  Evolves(nd, r, U, U)
<1>1. Len(nd.gens) > 0 /\ Len(Backing(nd)) > 0 /\ nd.len <= Len(Backing(nd))
      /\ \A i \in 1..nd.len : Registered(Backing(nd)[i], nd.fuzzerByAllTime, U)
  BY DEF NodeOK
<1>2. /\ r \in Node
      /\ r.cores = nd.cores
      /\ r.fuzzerByAllTime = nd.fuzzerByAllTime
      /\ r.len <= nd.len
      /\ Len(r.gens) = Len(nd.gens)
      /\ \A g \in 1..Len(nd.gens) : g # Len(nd.gens) => r.gens[g] = nd.gens[g]
      /\ Len(Backing(r)) = Len(Backing(nd))
      /\ \A i \in 1..Len(Backing(nd)) :
           \/ Backing(r)[i] = Backing(nd)[i]
           \/ i < nd.len /\ Backing(r)[i] = Backing(nd)[i + 1]
  BY <1>1, DeleteFacts
<1>3. nd.len \in Nat /\ r.len \in Nat /\ nd.gens \in Seq(Seq(Slot))
      /\ r.gens \in Seq(Seq(Slot)) /\ Backing(nd) \in Seq(Slot)
  BY <1>1, <1>2 DEF Node, Backing
<1>4. ASSUME NEW i \in 1..Len(Backing(nd)),
             Registered(Backing(nd)[i], nd.fuzzerByAllTime, U)
      PROVE  Registered(Backing(r)[i], r.fuzzerByAllTime, U)
  <2>1. CASE Backing(r)[i] = Backing(nd)[i]
    BY <2>1, <1>2, <1>4
  <2>2. CASE i < nd.len /\ Backing(r)[i] = Backing(nd)[i + 1]
    <3>1. i + 1 \in 1..nd.len
      BY <2>2, <1>3
    <3> QED
      BY <3>1, <2>2, <1>1, <1>2
  <2> QED
    BY <2>1, <2>2, <1>2
<1>5. \A i \in 1..r.len : Registered(Backing(r)[i], r.fuzzerByAllTime, U)
  <2> TAKE i \in 1..r.len
  <2>1. i \in 1..nd.len /\ i \in 1..Len(Backing(nd))
    BY <1>1, <1>2, <1>3
  <2> QED
    BY <2>1, <1>1, <1>4
<1>6. NodeOK(r, U)
  BY <1>1, <1>2, <1>3, <1>5 DEF NodeOK
<1>7. ASSUME NEW v \in View, ViewOK(nd, v, U)
      PROVE  ViewOK(r, v, U)
  <2>1. v.gen \in 1..Len(nd.gens) /\ v.hi <= Len(nd.gens[v.gen])
        /\ v.lo \in Nat /\ v.hi \in Nat
    BY <1>7 DEF ViewOK, View
  <2>2. \A i \in v.lo+1..v.hi :
          Registered(nd.gens[v.gen][i], nd.fuzzerByAllTime, U)
    BY <1>7 DEF ViewOK
  <2>3. CASE v.gen # Len(nd.gens)
    BY <2>1, <2>2, <2>3, <1>2 DEF ViewOK
  <2>4. CASE v.gen = Len(nd.gens)
    <3>1. nd.gens[v.gen] = Backing(nd) /\ r.gens[v.gen] = Backing(r)
      BY <2>4, <1>2 DEF Backing
    <3>2. \A i \in v.lo+1..v.hi :
            Registered(r.gens[v.gen][i], r.fuzzerByAllTime, U)
      <4> TAKE i \in v.lo+1..v.hi
      <4>1. Len(Backing(nd)) \in Nat
        BY ONLY <1>3
      <4>2. i \in 1..Len(Backing(nd))
        BY ONLY <4>1, <2>1, <3>1, i \in v.lo+1..v.hi
      <4> QED
        BY <4>2, <3>1, <2>2, <1>4
    <3> QED
      BY <3>1, <3>2, <2>1, <1>2 DEF ViewOK
  <2> QED
    BY <2>3, <2>4
<1> QED
  BY <1>2, <1>6, <1>7 DEF Evolves, Node

-----------------------------------------------------------------------------
(* The invariant *)

\* What a change of one node leaves intact for everybody else.
LEMMA NodeChange ==
  ASSUME IInv, NEW n \in NodeID, NEW r,
         nodes' = [nodes EXCEPT ![n] = r],
         usedUuid \subseteq usedUuid',
         nodes[n].cores # 0 => Evolves(nodes[n], r, usedUuid, usedUuid'),
         nodes[n].cores = 0 => r \in Node /\ r.cores # 0 /\ NodeOK(r, usedUuid')
  PROVE  /\ nodes' \in [NodeID -> Node]
         /\ NodesOK'
         /\ \A m \in NodeID :
              /\ nodes[m].cores # 0 => nodes'[m].cores # 0
              /\ nodes'[m].fuzzerByAllTime >= nodes[m].fuzzerByAllTime
              /\ \A el : WasRegistered(m, el) => WasRegistered(m, el)'
         /\ \A c \in Conn : phase[c] = "starting" =>
              /\ nodes'[NodeOf[c]].cores # 0
              /\ ViewOK(nodes'[NodeOf[c]], view[c], usedUuid')
<1>1. nodes \in [NodeID -> Node] /\ view \in [Conn -> View]
  BY DEF IInv, TypeOK
<1>2. \A m \in NodeID : NodeOK(nodes[m], usedUuid)
  BY DEF IInv, NodesOK
<1>3. r \in Node /\ NodeOK(r, usedUuid') /\ r.cores # 0
  BY <1>1 DEF Evolves
<1>4. nodes' \in [NodeID -> Node] /\ nodes'[n] = r
      /\ \A m \in NodeID : m # n => nodes'[m] = nodes[m]
  BY <1>1, <1>3
<1>5. \A m \in NodeID : m # n => NodeOK(nodes[m], usedUuid')
  <2> TAKE m \in NodeID
  <2>1. \A el : Registered(el, nodes[m].fuzzerByAllTime, usedUuid)
          => Registered(el, nodes[m].fuzzerByAllTime, usedUuid')
    BY DEF Registered
  <2> QED
    BY <2>1, <1>2 DEF NodeOK
<1>6. NodesOK'
  BY <1>3, <1>4, <1>5 DEF NodesOK
<1>7. r.fuzzerByAllTime >= nodes[n].fuzzerByAllTime
  <2>1. CASE nodes[n].cores # 0
    BY <2>1 DEF Evolves
  <2>2. CASE nodes[n].cores = 0
    <3>1. nodes[n] = NoNode
      BY <2>2, <1>2 DEF NodeOK
    <3>2. nodes[n].fuzzerByAllTime = 0
      BY <3>1 DEF NoNode
    <3>3. r.fuzzerByAllTime \in Nat
      BY <1>3 DEF Node
    <3> QED
      BY <3>2, <3>3
  <2> QED
    BY <2>1, <2>2
<1>8. ASSUME NEW m \in NodeID
      PROVE  /\ nodes[m].cores # 0 => nodes'[m].cores # 0
             /\ nodes'[m].fuzzerByAllTime >= nodes[m].fuzzerByAllTime
             /\ \A el : WasRegistered(m, el) => WasRegistered(m, el)'
  <2>1. /\ nodes[m].cores # 0 => nodes'[m].cores # 0
        /\ nodes'[m].fuzzerByAllTime >= nodes[m].fuzzerByAllTime
        /\ nodes[m].fuzzerByAllTime \in Nat /\ nodes'[m].fuzzerByAllTime \in Nat
    BY <1>1, <1>3, <1>4, <1>7 DEF Node
  <2>2. \A el : WasRegistered(m, el) => WasRegistered(m, el)'
    BY <2>1, RegisteredMonotone DEF WasRegistered
  <2> QED
    BY <2>1, <2>2
<1>9. ASSUME NEW c \in Conn, phase[c] = "starting"
      PROVE  /\ nodes'[NodeOf[c]].cores # 0
             /\ ViewOK(nodes'[NodeOf[c]], view[c], usedUuid')
  <2>1. /\ nodes[NodeOf[c]].cores # 0
        /\ ViewOK(nodes[NodeOf[c]], view[c], usedUuid)
        /\ view[c] \in View /\ NodeOf[c] \in NodeID
    BY <1>1, <1>9, MasterAssumption DEF IInv, ViewsOK
  <2>2. CASE NodeOf[c] = n
    <3>1. Evolves(nodes[n], r, usedUuid, usedUuid')
      BY <2>1, <2>2
    <3>2. ViewOK(r, view[c], usedUuid')
      BY <3>1, <2>1, <2>2 DEF Evolves
    <3> QED
      BY <3>2, <2>2, <1>3, <1>4
  <2>3. CASE NodeOf[c] # n
    <3>1. \A el : Registered(el, nodes[NodeOf[c]].fuzzerByAllTime, usedUuid)
            => Registered(el, nodes[NodeOf[c]].fuzzerByAllTime, usedUuid')
      BY DEF Registered
    <3>2. nodes'[NodeOf[c]] = nodes[NodeOf[c]]
      BY <2>1, <2>3, <1>4
    <3> QED
      BY <3>1, <3>2, <2>1 DEF ViewOK
  <2> QED
    BY <2>2, <2>3
<1> QED
  BY <1>4, <1>6, <1>8, <1>9

\* The master starts with an empty registry, which satisfies the invariant.
LEMMA InitInv == Init => IInv
<1> SUFFICES ASSUME Init PROVE IInv
  OBVIOUS
<1>1. NoNode \in Node /\ NoView \in View
  BY DEF NoNode, NoView, Node, View, Roles
<1>2. TypeOK
  <2>1. nodes \in [NodeID -> Node] /\ view \in [Conn -> View]
    BY <1>1 DEF Init
  <2>2. workers \in [Conn -> Seq(Worker)] /\ eventChan \in Seq(Deletion \cup Hint)
    BY DEF Init
  <2>3. Len(eventChan) <= EventChanBuf
    BY MasterAssumption DEF Init
  <2>4. /\ fuzzers \subseteq ElementID /\ evalers \subseteq ElementID
        /\ fuzzerMap \subseteq ElementID /\ usedUuid \subseteq Uuid
        /\ fuzzerGauge \in Int /\ evalerGauge \in Int
    BY DEF Init
  <2>6. dbMuLeaked \in BOOLEAN
    BY DEF Init
  <2>5. /\ phase \in [Conn -> {"new", "starting", "open", "closed", "rejected"}]
        /\ status \in {"running", "exited", "panic"}
    BY DEF Init
  <2> QED
    BY <2>1, <2>2, <2>3, <2>4, <2>5, <2>6 DEF TypeOK
<1>3. NodesOK
  BY DEF Init, NodesOK, NodeOK, NoNode
<1>4. ViewsOK /\ FuzzerIDsOK /\ NoPanic /\ DbMutexReleased
  BY DEF Init, ViewsOK, FuzzerIDsOK, NoPanic, DbMutexReleased
<1>5. WorkersOK /\ EventsOK
  BY DEF Init, WorkersOK, EventsOK
<1> QED
  BY <1>2, <1>3, <1>4, <1>5 DEF IInv

\* A step that changes nothing.
LEMMA StutterInv ==
  ASSUME IInv, UNCHANGED vars
  PROVE  IInv'
BY DEF IInv, vars, registry, gauges, TypeOK, NodesOK, ViewsOK, WorkersOK,
       EventsOK, FuzzerIDsOK, NoPanic, DbMutexReleased, WasRegistered

-----------------------------------------------------------------------------
(* Connections *)

\* A turn of setup's loop starts a registered element, even from a slot that
\* another connection has overwritten.
LEMMA StartElementInv ==
  ASSUME IInv, NEW c \in Conn, StartElement(c)
  PROVE  IInv'
<1> DEFINE el == ReadSlot(c)
           w == [el |-> el, st |-> "running", emits |-> 0]
           n == NodeOf[c]
<1>1. TypeOK /\ n \in NodeID /\ nodes[n] \in Node /\ view[c] \in View
      /\ workers[c] \in Seq(Worker)
  BY MasterAssumption DEF IInv, TypeOK
<1>2. nodes[n].cores # 0 /\ ViewOK(nodes[n], view[c], usedUuid)
  BY DEF StartElement, IInv, ViewsOK
<1>3. NextSlot(c) \in view[c].lo+1..view[c].hi
        /\ NextSlot(c) \in 1..Len(nodes[n].gens[view[c].gen])
  <2> DEFINE A == nodes[n].gens[view[c].gen]
  <2>1. Len(workers[c]) \in Nat
    BY <1>1
  <2>2. NextSlot(c) <= view[c].hi /\ NextSlot(c) = view[c].lo + Len(workers[c]) + 1
    BY DEF StartElement, NextSlot
  <2>3. view[c].lo \in Nat /\ view[c].hi \in Nat
    BY <1>1 DEF View
  <2>4. view[c].gen \in 1..Len(nodes[n].gens) /\ view[c].hi <= Len(A)
    BY <1>2 DEF ViewOK
  <2>5. nodes[n].gens \in Seq(Seq(Slot))
    BY <1>1 DEF Node
  <2>6. A \in Seq(Slot)
    BY ONLY <2>4, <2>5
  <2> HIDE DEF A
  <2>7. Len(A) \in Nat
    BY ONLY <2>6
  <2>8. NextSlot(c) \in view[c].lo+1..view[c].hi /\ NextSlot(c) \in 1..Len(A)
    BY ONLY <2>1, <2>2, <2>3, <2>4, <2>7, SMTT(20)
  <2> QED
    BY <2>8 DEF A
<1>4. el \in Slot
  <2>1. nodes[n].gens \in Seq(Seq(Slot)) /\ view[c].gen \in 1..Len(nodes[n].gens)
    BY <1>1, <1>2 DEF Node, ViewOK
  <2>2. nodes[n].gens[view[c].gen] \in Seq(Slot)
    BY ONLY <2>1
  <2> QED
    BY ONLY <2>2, <1>3 DEF ReadSlot
<1>5. WasRegistered(n, el)
  BY <1>2, <1>3 DEF ViewOK, WasRegistered, ReadSlot
<1>6. el \in Element
  BY <1>4, <1>5 DEF Slot, ZeroElement, WasRegistered, Registered
<1>7. <<n, el.OnNodeID>> \in ElementID
  BY <1>1, <1>6 DEF Element, ElementID
<1> HIDE DEF el
<1>8. w \in Worker
  BY <1>4 DEF Worker
<1>9. /\ workers' = [workers EXCEPT ![c] = Append(workers[c], w)]
      /\ evalers' \subseteq evalers \cup {<<n, el.OnNodeID>>}
      /\ fuzzerGauge' \in Int /\ evalerGauge' \in Int
      /\ UNCHANGED <<nodes, fuzzers, fuzzerMap, dbMuLeaked, usedUuid, phase,
                     view, eventChan, status>>
  BY <1>1 DEF StartElement, el, TypeOK
<1> HIDE DEF w
<1>10. workers' \in [Conn -> Seq(Worker)]
  BY <1>1, <1>8, <1>9 DEF TypeOK
<1>11. TypeOK'
  BY <1>1, <1>7, <1>9, <1>10 DEF TypeOK
<1>12. WorkersOK'
  <2> SUFFICES ASSUME NEW d \in Conn, NEW k \in 1..Len(workers'[d])
               PROVE  /\ nodes[NodeOf[d]].cores # 0
                      /\ WasRegistered(NodeOf[d], workers'[d][k].el)
    BY <1>9 DEF WorkersOK, WasRegistered
  <2>1. CASE d # c
    <3>1. workers'[d] = workers[d]
      BY <2>1, <1>9, <1>1 DEF TypeOK
    <3> QED
      BY <3>1 DEF IInv, WorkersOK
  <2>2. CASE d = c /\ k \in 1..Len(workers[c])
    <3>1. workers'[d][k] = workers[c][k]
      BY <2>2, <1>1, <1>8, <1>9 DEF TypeOK
    <3> QED
      BY <3>1, <2>2 DEF IInv, WorkersOK
  <2>3. CASE d = c /\ k = Len(workers[c]) + 1
    <3>1. workers'[d][k] = w
      BY <2>3, <1>1, <1>8, <1>9 DEF TypeOK
    <3>2. w.el = el
      BY DEF w
    <3> QED
      BY <3>1, <3>2, <2>3, <1>2, <1>5
  <2> QED
    BY <2>1, <2>2, <2>3, <1>1, <1>8, <1>9 DEF TypeOK
<1>13. NodesOK' /\ ViewsOK' /\ EventsOK' /\ FuzzerIDsOK' /\ NoPanic'
       /\ DbMutexReleased'
  BY <1>9 DEF IInv, NodesOK, ViewsOK, EventsOK, FuzzerIDsOK, NoPanic,
              DbMutexReleased
<1> QED
  BY <1>11, <1>12, <1>13 DEF IInv

\* Sending the configuration touches neither the registry nor the workers.
LEMMA SendConfigInv ==
  ASSUME IInv, NEW c \in Conn, NEW ok \in BOOLEAN, SendConfig(c, ok)
  PROVE  IInv'
<1>1. TypeOK'
  BY DEF IInv, TypeOK, SendConfig, registry, gauges
<1>2. \A d \in Conn : phase'[d] = "starting" => phase[d] = "starting"
  BY DEF IInv, TypeOK, SendConfig
<1>3. UNCHANGED <<nodes, view, usedUuid, workers, eventChan, fuzzerMap, dbMuLeaked>>
  BY DEF SendConfig, registry
<1>4. ViewsOK'
  BY <1>2, <1>3 DEF IInv, ViewsOK
<1>5. NodesOK' /\ WorkersOK' /\ EventsOK' /\ FuzzerIDsOK' /\ DbMutexReleased'
  BY <1>3 DEF IInv, NodesOK, WorkersOK, EventsOK, FuzzerIDsOK,
              DbMutexReleased, WasRegistered
<1>6. NoPanic'
  BY DEF IInv, NoPanic, SendConfig
<1> QED
  BY <1>1, <1>4, <1>5, <1>6 DEF IInv

\* Closing a connection touches neither the registry nor the workers.
LEMMA PeerClosesInv ==
  ASSUME IInv, NEW c \in Conn, PeerCloses(c)
  PROVE  IInv'
<1>1. TypeOK'
  BY DEF IInv, TypeOK, PeerCloses, registry, gauges
<1>2. \A d \in Conn : phase'[d] = "starting" => phase[d] = "starting"
  BY DEF IInv, TypeOK, PeerCloses
<1>3. UNCHANGED <<nodes, view, usedUuid, workers, eventChan, fuzzerMap,
                  dbMuLeaked, status>>
  BY DEF PeerCloses, registry
<1>4. ViewsOK'
  BY <1>2, <1>3 DEF IInv, ViewsOK
<1>5. NodesOK' /\ WorkersOK' /\ EventsOK' /\ FuzzerIDsOK' /\ DbMutexReleased'
      /\ NoPanic'
  BY <1>3 DEF IInv, NodesOK, WorkersOK, EventsOK, FuzzerIDsOK,
              DbMutexReleased, NoPanic, WasRegistered
<1> QED
  BY <1>1, <1>4, <1>5 DEF IInv

-----------------------------------------------------------------------------
(* Workers *)

\* A step of worker k of c that changes no element and posts at most a
\* deletion of its own element or a hint.
LEMMA WorkerInv ==
  ASSUME IInv, NEW c \in Conn, NEW k \in 1..Len(workers[c]),
         workers' \in [Conn -> Seq(Worker)],
         \A d \in Conn : /\ Len(workers'[d]) = Len(workers[d])
                         /\ \A j \in 1..Len(workers[d]) :
                              workers'[d][j].el = workers[d][j].el,
         \/ UNCHANGED eventChan
         \/ \E e \in Deletion \cup Hint :
              /\ Post(e)
              /\ e.Event = "ElementDeleted" => e.Element[1] = NodeOf[c],
         UNCHANGED <<registry, phase, view, gauges, status>>
  PROVE  IInv'
<1>1. UNCHANGED <<nodes, fuzzers, evalers, fuzzerMap, dbMuLeaked, usedUuid,
                  fuzzerGauge, evalerGauge, phase, view, status>>
  BY DEF registry, gauges
<1>2. nodes[NodeOf[c]].cores # 0
  BY DEF IInv, WorkersOK
<1>3. eventChan' \in Seq(Deletion \cup Hint) /\ Len(eventChan') <= EventChanBuf
      /\ EventsOK'
  <2>1. eventChan \in Seq(Deletion \cup Hint) /\ Len(eventChan) <= EventChanBuf
        /\ EventsOK
    BY DEF IInv, TypeOK
  <2>2. CASE UNCHANGED eventChan
    BY <2>1, <2>2, <1>1 DEF EventsOK
  <2>3. CASE \E e \in Deletion \cup Hint :
               /\ Post(e)
               /\ e.Event = "ElementDeleted" => e.Element[1] = NodeOf[c]
    <3>1. PICK e \in Deletion \cup Hint :
               /\ Post(e)
               /\ e.Event = "ElementDeleted" => e.Element[1] = NodeOf[c]
      BY <2>3
    <3>2. /\ eventChan' = Append(eventChan, e)
          /\ Len(eventChan) < EventChanBuf
      BY <3>1 DEF Post
    <3> DEFINE Ev == Deletion \cup Hint
    <3>3. eventChan \in Seq(Ev) /\ e \in Ev
      BY <2>1
    <3> HIDE DEF Ev
    <3>4. /\ eventChan' \in Seq(Ev)
          /\ Len(eventChan') = Len(eventChan) + 1
          /\ eventChan'[Len(eventChan) + 1] = e
          /\ \A i \in 1..Len(eventChan) : eventChan'[i] = eventChan[i]
          /\ Len(eventChan) \in Nat
      BY <3>2, <3>3
    <3>5. EventsOK'
      <4> SUFFICES ASSUME NEW i \in 1..Len(eventChan'),
                          eventChan'[i].Event = "ElementDeleted"
                   PROVE  nodes[eventChan'[i].Element[1]].cores # 0
        BY <1>1 DEF EventsOK
      <4>1. CASE i = Len(eventChan) + 1
        BY <4>1, <3>1, <3>4, <1>2
      <4>2. CASE i \in 1..Len(eventChan)
        BY <4>2, <3>4, <2>1 DEF EventsOK
      <4> QED
        BY <4>1, <4>2, <3>4
    <3>6. Len(eventChan') <= EventChanBuf
      BY <3>2, <3>4, MasterAssumption
    <3> QED
      BY <3>4, <3>5, <3>6 DEF Ev
  <2> QED
    BY <2>2, <2>3
<1>4. TypeOK'
  BY <1>1, <1>3 DEF IInv, TypeOK
<1>5. WorkersOK'
  BY <1>1 DEF IInv, WorkersOK, WasRegistered
<1>6. NodesOK' /\ ViewsOK' /\ FuzzerIDsOK' /\ DbMutexReleased' /\ NoPanic'
  BY <1>1 DEF IInv, NodesOK, ViewsOK, FuzzerIDsOK, DbMutexReleased, NoPanic
<1> QED
  BY <1>3, <1>4, <1>5, <1>6 DEF IInv

\* The state of one worker changes, its element does not.
LEMMA WorkerUpdate ==
  ASSUME IInv, NEW c \in Conn, NEW k \in 1..Len(workers[c]),
         NEW w \in Worker, w.el = workers[c][k].el,
         workers' = [workers EXCEPT ![c] = [workers[c] EXCEPT ![k] = w]]
  PROVE  /\ workers' \in [Conn -> Seq(Worker)]
         /\ \A d \in Conn : /\ Len(workers'[d]) = Len(workers[d])
                            /\ \A j \in 1..Len(workers[d]) :
                                 workers'[d][j].el = workers[d][j].el
<1>1. workers \in [Conn -> Seq(Worker)] /\ workers[c] \in Seq(Worker)
  BY DEF IInv, TypeOK
<1> DEFINE W == [workers[c] EXCEPT ![k] = w]
<1>2. /\ W \in Seq(Worker) /\ Len(W) = Len(workers[c])
      /\ \A j \in 1..Len(workers[c]) : W[j].el = workers[c][j].el
  BY <1>1
<1> HIDE DEF W
<1>3. /\ workers'[c] = W
      /\ \A d \in Conn : d # c => workers'[d] = workers[d]
      /\ workers' \in [Conn -> Seq(Worker)]
  BY <1>1, <1>2 DEF W
<1> QED
  BY <1>2, <1>3

\* The deletion of a worker's element is an event about the worker's node.
LEMMA DeletionType ==
  ASSUME IInv, NEW c \in Conn, NEW k \in 1..Len(workers[c])
  PROVE  /\ DeletionOf(c, workers[c][k].el) \in Deletion
         /\ DeletionOf(c, workers[c][k].el).Element[1] = NodeOf[c]
<1>1. workers[c] \in Seq(Worker) /\ NodeOf[c] \in NodeID
  BY MasterAssumption DEF IInv, TypeOK
<1>2. workers[c][k] \in Worker
  BY <1>1
<1>3. workers[c][k].el \in Slot /\ WasRegistered(NodeOf[c], workers[c][k].el)
  BY <1>2 DEF Worker, IInv, WorkersOK
<1>4. workers[c][k].el \in Element
  BY <1>3 DEF Slot, ZeroElement, WasRegistered, Registered
<1> QED
  BY <1>1, <1>4 DEF DeletionOf, Deletion, Element, ElementID

\* A fuzzer's worker that ends posts a deletion for a node that exists.
LEMMA FuzzerStopsInv ==
  ASSUME IInv, NEW c \in Conn, NEW k \in 1..Len(workers[c]), FuzzerStops(c, k)
  PROVE  IInv'
<1>1. workers[c] \in Seq(Worker) /\ workers \in [Conn -> Seq(Worker)]
  BY DEF IInv, TypeOK
<1>2. workers[c][k] \in Worker
  BY <1>1
<1> DEFINE w == [workers[c][k] EXCEPT !.st = "done"]
<1>3. w \in Worker /\ w.el = workers[c][k].el
  BY <1>2 DEF Worker
<1>4. workers' = [workers EXCEPT ![c] = [workers[c] EXCEPT ![k] = w]]
  BY <1>1, <1>2 DEF FuzzerStops
<1> HIDE DEF w
<1>5. /\ workers' \in [Conn -> Seq(Worker)]
      /\ \A d \in Conn : /\ Len(workers'[d]) = Len(workers[d])
                         /\ \A j \in 1..Len(workers[d]) :
                              workers'[d][j].el = workers[d][j].el
  BY <1>3, <1>4, WorkerUpdate
<1>6. \E e \in Deletion \cup Hint :
        /\ Post(e)
        /\ e.Event = "ElementDeleted" => e.Element[1] = NodeOf[c]
  BY DeletionType DEF FuzzerStops
<1>7. UNCHANGED <<registry, phase, view, gauges, status>>
  BY DEF FuzzerStops
<1> QED
  BY <1>5, <1>6, <1>7, WorkerInv

\* A stopped evaler posts a deletion for a node that exists, however often.
LEMMA EvalerStopsInv ==
  ASSUME IInv, NEW c \in Conn, NEW k \in 1..Len(workers[c]), EvalerStops(c, k)
  PROVE  IInv'
<1>1. workers[c] \in Seq(Worker) /\ workers \in [Conn -> Seq(Worker)]
  BY DEF IInv, TypeOK
<1>2. workers[c][k] \in Worker
  BY <1>1
<1> DEFINE w == [workers[c][k] EXCEPT !.st = "cancelled",
                                      !.emits = workers[c][k].emits + 1]
<1>3. w \in Worker /\ w.el = workers[c][k].el
  <2>1. workers[c][k].emits + 1 \in Nat
    BY <1>2 DEF Worker
  <2> QED
    BY ONLY <1>2, <2>1 DEF Worker
<1>4. workers' = [workers EXCEPT ![c] = [workers[c] EXCEPT ![k] = w]]
  BY <1>1, <1>2 DEF EvalerStops, Worker
<1> HIDE DEF w
<1>5. /\ workers' \in [Conn -> Seq(Worker)]
      /\ \A d \in Conn : /\ Len(workers'[d]) = Len(workers[d])
                         /\ \A j \in 1..Len(workers[d]) :
                              workers'[d][j].el = workers[d][j].el
  BY <1>3, <1>4, WorkerUpdate
<1>6. \E e \in Deletion \cup Hint :
        /\ Post(e)
        /\ e.Event = "ElementDeleted" => e.Element[1] = NodeOf[c]
  BY DeletionType DEF EvalerStops
<1>7. UNCHANGED <<registry, phase, view, gauges, status>>
  BY DEF EvalerStops
<1> QED
  BY <1>5, <1>6, <1>7, WorkerInv

\* A cancelled evaler's worker that leaves its loop keeps its element.
LEMMA EvalerExitsInv ==
  ASSUME IInv, NEW c \in Conn, NEW k \in 1..Len(workers[c]), EvalerExits(c, k)
  PROVE  IInv'
<1>1. workers[c] \in Seq(Worker) /\ workers \in [Conn -> Seq(Worker)]
  BY DEF IInv, TypeOK
<1>2. workers[c][k] \in Worker
  BY <1>1
<1> DEFINE w == [workers[c][k] EXCEPT !.st = "done"]
<1>3. w \in Worker /\ w.el = workers[c][k].el
  BY <1>2 DEF Worker
<1>4. workers' = [workers EXCEPT ![c] = [workers[c] EXCEPT ![k] = w]]
  BY <1>1, <1>2 DEF EvalerExits
<1> HIDE DEF w
<1>5. /\ workers' \in [Conn -> Seq(Worker)]
      /\ \A d \in Conn : /\ Len(workers'[d]) = Len(workers[d])
                         /\ \A j \in 1..Len(workers[d]) :
                              workers'[d][j].el = workers[d][j].el
  BY <1>3, <1>4, WorkerUpdate
<1>6. UNCHANGED <<registry, phase, view, gauges, status>> /\ UNCHANGED eventChan
  BY DEF EvalerExits
<1> QED
  BY <1>5, <1>6, WorkerInv

\* The two hints name no node.
LEMMA HintsInv ==
  ASSUME IInv, NEW c \in Conn, NEW k \in 1..Len(workers[c]),
         FuzzerHints(c, k) \/ EvalerHints(c, k)
  PROVE  IInv'
<1>1. UNCHANGED <<registry, phase, view, gauges, status>> /\ UNCHANGED workers
  BY DEF FuzzerHints, EvalerHints
<1>2. workers' \in [Conn -> Seq(Worker)]
  BY <1>1 DEF IInv, TypeOK
<1>3. \E e \in Hint : Post(e)
  BY DEF FuzzerHints, EvalerHints, Hint
<1>4. \E e \in Deletion \cup Hint :
        /\ Post(e)
        /\ e.Event = "ElementDeleted" => e.Element[1] = NodeOf[c]
  BY <1>3 DEF Hint
<1> QED
  BY <1>1, <1>2, <1>4, WorkerInv

-----------------------------------------------------------------------------
(* SetupNewNode *)

\* Two changes of a node that keep what others rely on make one.
LEMMA EvolvesTransitive ==
  ASSUME NEW a, NEW b, NEW d, NEW U, NEW V, NEW W,
         a.fuzzerByAllTime \in Nat,
         Evolves(a, b, U, V), Evolves(b, d, V, W)
  PROVE  Evolves(a, d, U, W)
<1>1. b.fuzzerByAllTime \in Nat /\ d.fuzzerByAllTime \in Nat
  BY DEF Evolves, Node
<1> QED
  BY <1>1 DEF Evolves

\* Drawing one more identifier keeps everything registered.
LEMMA DrawnEvolves ==
  ASSUME NEW nd \in Node, NEW U, NEW U2, U \subseteq U2, NodeOK(nd, U)
  PROVE  Evolves(nd, nd, U, U2)
<1>1. \A el : Registered(el, nd.fuzzerByAllTime, U)
        => Registered(el, nd.fuzzerByAllTime, U2)
  BY DEF Registered
<1>2. NodeOK(nd, U2)
  BY <1>1 DEF NodeOK
<1>3. \A v \in View : ViewOK(nd, v, U) => ViewOK(nd, v, U2)
  BY <1>1 DEF ViewOK
<1> QED
  BY <1>2, <1>3 DEF Evolves, Node

\* newEvaler keeps what other slices of the node rely on.
LEMMA NewEvalerEvolves ==
  ASSUME NEW nd \in Node, NEW U, NEW u \in Nat, NodeOK(nd, U), nd.cores # 0
  PROVE  /\ Evolves(nd, newEvaler(nd, u), U, U \cup {u})
         /\ newEvaler(nd, u).fuzzerByAllTime = nd.fuzzerByAllTime
<1> DEFINE el == [OnNodeID |-> u, Type |-> "Evaler"]
           V == U \cup {u}
<1>1. Evolves(nd, nd, U, V)
  BY DrawnEvolves
<1>2. NodeOK(nd, V)
  BY <1>1 DEF Evolves
<1>3. el \in Element /\ Registered(el, nd.fuzzerByAllTime, V)
  BY DEF Element, ElementType, Registered
<1>4. newEvaler(nd, u) = AppendElement(nd, el)
  BY DEF newEvaler
<1> HIDE DEF el, V
<1>5. Evolves(nd, newEvaler(nd, u), V, V)
  BY <1>2, <1>3, <1>4, AppendEvolves
<1>6. newEvaler(nd, u).fuzzerByAllTime = nd.fuzzerByAllTime
  <2>1. Len(nd.gens) > 0 /\ Len(Backing(nd)) > 0 /\ nd.len <= Len(Backing(nd))
    BY DEF NodeOK
  <2>2. Appended(nd, el, newEvaler(nd, u))
    BY <2>1, <1>3, <1>4, AppendFacts
  <2> QED
    BY <2>2 DEF Appended
<1>7. nd.fuzzerByAllTime \in Nat
  BY DEF Node
<1> QED
  BY <1>1, <1>5, <1>6, <1>7, EvolvesTransitive DEF V

\* newFuzzer keeps what other slices of the node rely on, and its identifier
\* is above every earlier one.
LEMMA NewFuzzerEvolves ==
  ASSUME NEW nd \in Node, NEW U, NodeOK(nd, U), nd.cores # 0
  PROVE  /\ Evolves(nd, newFuzzer(nd), U, U)
         /\ newFuzzer(nd).fuzzerByAllTime = nd.fuzzerByAllTime + 1
<1> DEFINE k == nd.fuzzerByAllTime + 1
           nk == [nd EXCEPT !.fuzzerByAllTime = k]
           el == [OnNodeID |-> k, Type |-> "Fuzzer"]
<1>1. nd.fuzzerByAllTime \in Nat /\ k \in Nat /\ nd.fuzzerByAllTime <= k /\ k > 0
  BY DEF Node
<1>2. nk.fuzzerByAllTime = k /\ nk.cores = nd.cores
  BY DEF Node
<1>3. el \in Element /\ Registered(el, k, U)
  BY <1>1 DEF Element, ElementType, Registered
<1>4. newFuzzer(nd) = AppendElement(nk, el)
  BY DEF newFuzzer, NextFuzzerID, Node
<1> HIDE DEF el, k
<1>5. Evolves(nd, nk, U, U)
  BY <1>1, GrowEvolves
<1> HIDE DEF nk
<1>6. nk \in Node /\ NodeOK(nk, U) /\ nk.cores # 0
  BY <1>2, <1>5 DEF Evolves
<1>7. Evolves(nk, newFuzzer(nd), U, U)
  BY <1>2, <1>3, <1>4, <1>6, AppendEvolves
<1>8. newFuzzer(nd).fuzzerByAllTime = nk.fuzzerByAllTime
  <2>1. Len(nk.gens) > 0 /\ Len(Backing(nk)) > 0 /\ nk.len <= Len(Backing(nk))
    BY <1>6 DEF NodeOK
  <2>2. Appended(nk, el, newFuzzer(nd))
    BY <2>1, <1>3, <1>4, <1>6, AppendFacts
  <2> QED
    BY <2>2 DEF Appended
<1>9. Evolves(nd, newFuzzer(nd), U, U)
  BY <1>1, <1>5, <1>7, EvolvesTransitive
<1> QED
  BY <1>2, <1>8, <1>9 DEF k

\* The node a set-up works on.
LEMMA JoinedOK ==
  ASSUME IInv, NEW n \in NodeID, NEW cores \in CoreCounts
  PROVE  /\ Joined(n, cores) \in Node
         /\ Joined(n, cores).cores # 0
         /\ NodeOK(Joined(n, cores), usedUuid)
         /\ Joined(n, cores).fuzzerByAllTime = nodes[n].fuzzerByAllTime
         /\ nodes[n].cores # 0 => Joined(n, cores) = nodes[n]
<1>1. nodes[n] \in Node /\ NodeOK(nodes[n], usedUuid) /\ cores \in Nat
  BY MasterAssumption DEF IInv, TypeOK, NodesOK
<1>2. CASE nodes[n].cores # 0
  BY <1>1, <1>2 DEF Joined
<1>3. CASE nodes[n].cores = 0
  <2> DEFINE k == IF cores = 0 THEN 1 ELSE cores
             A == [i \in 1..k |-> ZeroElement]
             nn == NewNode(k)
  <2>1. k \in Nat /\ k > 0
    BY <1>1
  <2>2. Joined(n, cores) = nn
    BY <1>3 DEF Joined
  <2>3. nodes[n].fuzzerByAllTime = 0
    BY <1>1, <1>3 DEF NodeOK, NoNode
  <2> HIDE DEF k
  <2>4. A \in Seq(Slot) /\ Len(A) = k
    <3>1. ZeroElement \in Slot
      BY DEF Slot
    <3> QED
      BY <2>1, <3>1
  <2>5. nn = [cores |-> k, fuzzerByAllTime |-> 0, gens |-> <<A>>, len |-> 0]
    BY DEF NewNode
  <2> HIDE DEF A, nn
  <2>6. <<A>> \in Seq(Seq(Slot)) /\ Len(<<A>>) = 1 /\ <<A>>[1] = A
    BY <2>4
  <2>7. nn \in Node /\ nn.cores = k /\ nn.fuzzerByAllTime = 0
        /\ nn.gens = <<A>> /\ nn.len = 0
    BY ONLY <2>1, <2>5, <2>6 DEF Node
  <2>8. Backing(nn) = A
    BY <2>6, <2>7 DEF Backing
  <2>9. NodeOK(nn, usedUuid)
    BY <2>1, <2>4, <2>6, <2>7, <2>8 DEF NodeOK
  <2> QED
    BY <2>1, <2>2, <2>3, <2>7, <2>9, <1>3
<1> QED
  BY <1>2, <1>3

\* The slice of everything behind index lo of a good node is good.
LEMMA SliceOK ==
  ASSUME NEW nd \in Node, NEW U, NodeOK(nd, U), nd.cores # 0,
         NEW lo \in Nat, NEW role \in Roles,
         NEW v, v = [gen |-> Len(nd.gens), lo |-> lo, hi |-> nd.len, role |-> role]
  PROVE  v \in View /\ ViewOK(nd, v, U)
<1>1. nd.gens \in Seq(Seq(Slot)) /\ nd.len \in Nat
  BY DEF Node
<1>2. Len(nd.gens) \in Nat
  BY <1>1
<1>3. Len(nd.gens) > 0 /\ nd.len <= Len(Backing(nd))
      /\ \A i \in 1..nd.len : Registered(Backing(nd)[i], nd.fuzzerByAllTime, U)
  BY DEF NodeOK
<1>4. v \in View /\ v.gen = Len(nd.gens) /\ v.lo = lo /\ v.hi = nd.len
  BY <1>1, <1>2 DEF View
<1>5. nd.gens[v.gen] = Backing(nd)
  BY <1>4 DEF Backing
<1>6. \A i \in v.lo+1..v.hi : i \in 1..nd.len
  BY <1>1, <1>4
<1> QED
  BY <1>2, <1>3, <1>4, <1>5, <1>6 DEF ViewOK

\* A set-up, accepted or refused, keeps the invariant: its own slice is good
\* and the slices in use by other connections of the node stay good.
LEMMA SetupNewNodeInv ==
  ASSUME IInv, NEW c \in Conn, NEW cores \in CoreCounts, NEW role \in Roles,
         NEW congested \in BOOLEAN, NEW u \in Uuid,
         SetupNewNode(c, cores, role, congested, u)
  PROVE  IInv'
<1> DEFINE n == NodeOf[c]
           nd == Joined(n, cores)
           wantsE == WantsEvaler(role, congested)
           wantsF == WantsFuzzer(role, nd)
           ndE == IF wantsE THEN newEvaler(nd, u) ELSE nd
           ndF == IF wantsF THEN newFuzzer(ndE) ELSE ndE
           v == [gen |-> Len(ndF.gens), lo |-> nd.len, hi |-> ndF.len,
                 role |-> role]
           f == <<n, NextFuzzerID(ndE)>>
<1>1. n \in NodeID /\ u \in Nat /\ TypeOK
  BY MasterAssumption DEF IInv, TypeOK
<1>2. UNCHANGED <<workers, eventChan, fuzzerGauge, evalerGauge, status>>
  BY DEF SetupNewNode, gauges
<1>3. CASE MaxElements(nd)
  <2>1. /\ phase' = [phase EXCEPT ![c] = "rejected"]
        /\ UNCHANGED <<nodes, fuzzers, evalers, fuzzerMap, dbMuLeaked, usedUuid,
                       view>>
    BY <1>3 DEF SetupNewNode, registry
  <2>2. \A d \in Conn : phase'[d] = "starting" => phase[d] = "starting"
    BY <2>1, <1>1 DEF TypeOK
  <2>3. TypeOK'
    BY <2>1, <1>1, <1>2 DEF TypeOK
  <2>4. ViewsOK'
    BY <2>1, <2>2 DEF IInv, ViewsOK
  <2>5. NodesOK' /\ WorkersOK' /\ EventsOK' /\ FuzzerIDsOK' /\ NoPanic'
        /\ DbMutexReleased'
    BY <2>1, <1>2 DEF IInv, NodesOK, WorkersOK, EventsOK, FuzzerIDsOK, NoPanic,
                      DbMutexReleased, WasRegistered
  <2> QED
    BY <2>3, <2>4, <2>5 DEF IInv
<1>4. CASE ~MaxElements(nd)
  <2>1. /\ RegisterEvaler(n, u, wantsE)
        /\ RegisterFuzzer(n, ndE, wantsF)
        /\ nodes' = [nodes EXCEPT ![n] = ndF]
        /\ view' = [view EXCEPT ![c] = v]
        /\ phase' = [phase EXCEPT ![c] = "starting"]
    BY <1>4 DEF SetupNewNode
  <2>2. /\ nd \in Node /\ nd.cores # 0 /\ NodeOK(nd, usedUuid)
        /\ nd.fuzzerByAllTime = nodes[n].fuzzerByAllTime
        /\ nodes[n].cores # 0 => nd = nodes[n]
    BY <1>1, JoinedOK
  <2> HIDE DEF nd
  <2>3. /\ Evolves(nd, ndE, usedUuid, usedUuid')
        /\ ndE.fuzzerByAllTime = nd.fuzzerByAllTime
        /\ usedUuid \subseteq usedUuid' /\ usedUuid' \subseteq Uuid
        /\ evalers' \subseteq ElementID
    <3>1. CASE wantsE
      <4>1. usedUuid' = usedUuid \cup {u} /\ evalers' = evalers \cup {<<n, u>>}
        BY <3>1, <2>1 DEF RegisterEvaler
      <4>2. ndE = newEvaler(nd, u)
        BY <3>1
      <4>3. /\ Evolves(nd, newEvaler(nd, u), usedUuid, usedUuid \cup {u})
            /\ newEvaler(nd, u).fuzzerByAllTime = nd.fuzzerByAllTime
        BY <2>2, <1>1, NewEvalerEvolves
      <4>4. <<n, u>> \in ElementID
        BY <1>1 DEF ElementID
      <4> QED
        BY <4>1, <4>2, <4>3, <4>4, <1>1 DEF TypeOK
    <3>2. CASE ~wantsE
      <4>1. usedUuid' = usedUuid /\ evalers' = evalers /\ ndE = nd
        BY <3>2, <2>1 DEF RegisterEvaler
      <4>2. Evolves(nd, nd, usedUuid, usedUuid)
        BY <2>2, DrawnEvolves
      <4> QED
        BY <4>1, <4>2, <1>1 DEF TypeOK
    <3> QED
      BY <3>1, <3>2
  <2> HIDE DEF ndE
  <2>4. ndE \in Node /\ ndE.cores # 0 /\ NodeOK(ndE, usedUuid')
        /\ nd.fuzzerByAllTime \in Nat
    BY <2>2, <2>3 DEF Evolves, Node
  <2>5. Evolves(ndE, ndF, usedUuid', usedUuid')
    <3>1. CASE wantsF
      BY <3>1, <2>4, NewFuzzerEvolves
    <3>2. CASE ~wantsF
      BY <3>2, <2>4, DrawnEvolves
    <3> QED
      BY <3>1, <3>2
  <2>6. wantsF => ndF.fuzzerByAllTime = ndE.fuzzerByAllTime + 1
    BY <2>4, NewFuzzerEvolves
  <2> HIDE DEF ndF
  <2>7. Evolves(nd, ndF, usedUuid, usedUuid')
    BY <2>3, <2>4, <2>5, EvolvesTransitive
  <2>8. ndF \in Node /\ ndF.cores # 0 /\ NodeOK(ndF, usedUuid')
    BY <2>2, <2>7 DEF Evolves
  <2>9. /\ nodes' \in [NodeID -> Node]
        /\ NodesOK'
        /\ \A m \in NodeID :
             /\ nodes[m].cores # 0 => nodes'[m].cores # 0
             /\ nodes'[m].fuzzerByAllTime >= nodes[m].fuzzerByAllTime
             /\ \A el : WasRegistered(m, el) => WasRegistered(m, el)'
        /\ \A d \in Conn : phase[d] = "starting" =>
             /\ nodes'[NodeOf[d]].cores # 0
             /\ ViewOK(nodes'[NodeOf[d]], view[d], usedUuid')
    <3>1. nodes[n].cores # 0 => Evolves(nodes[n], ndF, usedUuid, usedUuid')
      BY <2>2, <2>7
    <3>2. nodes[n].cores = 0 =>
            ndF \in Node /\ ndF.cores # 0 /\ NodeOK(ndF, usedUuid')
      BY <2>8
    <3> HIDE DEF n
    <3> QED
      BY <1>1, <2>1, <2>3, <3>1, <3>2, NodeChange
  <2>10. v \in View /\ ViewOK(ndF, v, usedUuid')
    <3>1. nd.len \in Nat
      BY <2>2 DEF Node
    <3> QED
      BY <2>8, <3>1, SliceOK
  <2> HIDE DEF v
  <2>11. ViewsOK'
    <3> SUFFICES ASSUME NEW d \in Conn, phase'[d] = "starting"
                 PROVE  /\ nodes'[NodeOf[d]].cores # 0
                        /\ ViewOK(nodes'[NodeOf[d]], view'[d], usedUuid')
      BY DEF ViewsOK
    <3>1. CASE d = c
      <4>1. view'[d] = v /\ nodes'[NodeOf[d]] = ndF
        BY <3>1, <2>1, <1>1 DEF TypeOK
      <4> QED
        BY <4>1, <2>8, <2>10
    <3>2. CASE d # c
      <4>1. view'[d] = view[d] /\ phase[d] = "starting"
        BY <3>2, <2>1, <1>1 DEF TypeOK
      <4> QED
        BY <4>1, <2>9
    <3> QED
      BY <3>1, <3>2
  <2>12. nodes'[n] = ndF
    BY <2>1, <1>1 DEF TypeOK
  <2>13. /\ fuzzers' \subseteq ElementID /\ fuzzerMap' \subseteq ElementID
         /\ FuzzerIDsOK' /\ ~dbMuLeaked' /\ dbMuLeaked' \in BOOLEAN
    <3>1. \A g \in fuzzerMap : g[2] \in 1..nodes'[g[1]].fuzzerByAllTime
      <4> TAKE g \in fuzzerMap
      <4>1. g[1] \in NodeID /\ g[2] \in 1..nodes[g[1]].fuzzerByAllTime
        BY <1>1 DEF TypeOK, ElementID, IInv, FuzzerIDsOK
      <4>2. nodes[g[1]].fuzzerByAllTime \in Nat
            /\ nodes'[g[1]].fuzzerByAllTime \in Nat
            /\ nodes'[g[1]].fuzzerByAllTime >= nodes[g[1]].fuzzerByAllTime
        BY <4>1, <2>9, <1>1 DEF TypeOK, Node
      <4> QED
        BY <4>1, <4>2
    <3>2. CASE ~wantsF
      <4>1. UNCHANGED <<fuzzers, fuzzerMap, dbMuLeaked>>
        BY <3>2, <2>1 DEF RegisterFuzzer
      <4>2. ~dbMuLeaked /\ dbMuLeaked \in BOOLEAN
        BY <1>1 DEF IInv, DbMutexReleased, TypeOK
      <4> QED
        BY <4>1, <4>2, <3>1, <1>1 DEF TypeOK, FuzzerIDsOK
    <3>3. CASE wantsF
      <4>1. fuzzers' = fuzzers \cup {f} /\ fuzzerMap' = fuzzerMap \cup {f}
            /\ dbMuLeaked' = (f \in fuzzerMap)
        BY <3>3, <2>1 DEF RegisterFuzzer, AddFuzzer
      <4>2. f[1] = n /\ f[2] = nd.fuzzerByAllTime + 1
        BY <2>3 DEF NextFuzzerID
      <4>3. f \notin fuzzerMap
        <5> SUFFICES ASSUME f \in fuzzerMap PROVE FALSE
          OBVIOUS
        <5>1. f[2] \in 1..nodes[n].fuzzerByAllTime
          BY <4>2 DEF IInv, FuzzerIDsOK
        <5> QED
          BY <5>1, <4>2, <2>2, <2>4
      <4>4. f \in ElementID
        BY <1>1, <2>3, <2>4 DEF ElementID, NextFuzzerID
      <4>5. f[2] \in 1..nodes'[f[1]].fuzzerByAllTime
        BY <4>2, <3>3, <2>3, <2>4, <2>6, <2>12
      <4> HIDE DEF f
      <4>6. ~dbMuLeaked' /\ dbMuLeaked' \in BOOLEAN
        <5>1. dbMuLeaked' = (f \in fuzzerMap)
          BY <4>1
        <5>2. ~dbMuLeaked'
          BY <5>1, <4>3, Zenon
        <5>3. dbMuLeaked' \in BOOLEAN
          BY <5>1, SMT
        <5> QED
          BY <5>2, <5>3
      <4>7. FuzzerIDsOK'
        BY <4>1, <4>5, <3>1 DEF FuzzerIDsOK
      <4> QED
        BY <4>1, <4>4, <4>6, <4>7, <1>1 DEF TypeOK
    <3> QED
      BY <3>2, <3>3
  <2>14. TypeOK'
    <3>1. view' \in [Conn -> View] /\ dbMuLeaked' \in BOOLEAN
          /\ phase' \in [Conn -> {"new", "starting", "open", "closed", "rejected"}]
      BY <2>1, <2>10, <2>13, <1>1 DEF TypeOK
    <3> QED
      BY <3>1, <2>3, <2>9, <2>13, <1>1, <1>2 DEF TypeOK
  <2>15. WorkersOK'
    <3> SUFFICES ASSUME NEW d \in Conn, NEW k \in 1..Len(workers[d])
                 PROVE  /\ nodes'[NodeOf[d]].cores # 0
                        /\ WasRegistered(NodeOf[d], workers[d][k].el)'
      BY <1>2 DEF WorkersOK
    <3>1. NodeOf[d] \in NodeID /\ nodes[NodeOf[d]].cores # 0
          /\ WasRegistered(NodeOf[d], workers[d][k].el)
      BY MasterAssumption DEF IInv, WorkersOK
    <3>2. WasRegistered(NodeOf[d], workers[d][k].el)
            => Registered(workers[d][k].el, nodes'[NodeOf[d]].fuzzerByAllTime, usedUuid')
      BY <3>1, <2>9 DEF WasRegistered
    <3> QED
      BY <3>1, <3>2, <2>9, <1>2 DEF WasRegistered
  <2>16. EventsOK'
    <3> SUFFICES ASSUME NEW i \in 1..Len(eventChan),
                        eventChan[i].Event = "ElementDeleted"
                 PROVE  nodes'[eventChan[i].Element[1]].cores # 0
      BY <1>2 DEF EventsOK
    <3>1. eventChan[i] \in Deletion \cup Hint
      BY <1>1 DEF TypeOK
    <3>2. eventChan[i].Element[1] \in NodeID
      BY <3>1 DEF Deletion, Hint, ElementID
    <3> QED
      BY <3>2, <2>9 DEF IInv, EventsOK
  <2>17. NoPanic' /\ DbMutexReleased'
    BY <2>13, <1>2 DEF IInv, NoPanic, DbMutexReleased
  <2> QED
    BY <2>9, <2>11, <2>13, <2>14, <2>15, <2>16, <2>17 DEF IInv
<1> QED
  BY <1>3, <1>4

-----------------------------------------------------------------------------
(* The event loop *)

\* Taking the head off the event channel keeps the rest.
LEMMA TailEvents ==
  ASSUME IInv, eventChan # <<>>
  PROVE  /\ Tail(eventChan) \in Seq(Deletion \cup Hint)
         /\ Len(Tail(eventChan)) <= EventChanBuf
         /\ \A i \in 1..Len(Tail(eventChan)) :
              /\ i + 1 \in 1..Len(eventChan)
              /\ Tail(eventChan)[i] = eventChan[i + 1]
         /\ Head(eventChan) \in Deletion \cup Hint
         /\ 1 \in 1..Len(eventChan) /\ Head(eventChan) = eventChan[1]
<1> DEFINE Ev == Deletion \cup Hint
<1>1. eventChan \in Seq(Ev) /\ Len(eventChan) <= EventChanBuf
  BY DEF IInv, TypeOK
<1> HIDE DEF Ev
<1>2. Tail(eventChan) \in Seq(Ev) /\ Len(Tail(eventChan)) = Len(eventChan) - 1
      /\ Len(eventChan) \in Nat /\ Len(eventChan) > 0
  BY <1>1
<1>3. \A i \in 1..Len(Tail(eventChan)) : Tail(eventChan)[i] = eventChan[i + 1]
  BY <1>1, <1>2
<1>4. Head(eventChan) \in Ev /\ Head(eventChan) = eventChan[1]
  BY <1>1, <1>2
<1> QED
  BY <1>1, <1>2, <1>3, <1>4, MasterAssumption DEF Ev

\* A hint is taken off the event channel without effect.
LEMMA DropHintInv ==
  ASSUME IInv, DropHint
  PROVE  IInv'
<1>1. /\ eventChan # <<>> /\ eventChan' = Tail(eventChan)
      /\ UNCHANGED <<nodes, fuzzers, evalers, fuzzerMap, dbMuLeaked, usedUuid,
                     phase, view, workers, fuzzerGauge, evalerGauge, status>>
  BY DEF DropHint, registry, gauges
<1>2. TypeOK'
  BY <1>1, TailEvents DEF IInv, TypeOK
<1>3. EventsOK'
  BY <1>1, TailEvents DEF IInv, EventsOK
<1>4. NodesOK' /\ ViewsOK' /\ WorkersOK' /\ FuzzerIDsOK' /\ NoPanic'
      /\ DbMutexReleased'
  BY <1>1 DEF IInv, NodesOK, ViewsOK, WorkersOK, FuzzerIDsOK, NoPanic,
              DbMutexReleased, WasRegistered
<1> QED
  BY <1>2, <1>3, <1>4 DEF IInv

\* A deletion finds its node, and shifting the node's array leaves registered
\* elements in every slot a slice in use still covers.
LEMMA HandleDeletionInv ==
  ASSUME IInv, HandleDeletion
  PROVE  IInv'
<1> DEFINE e == Head(eventChan)
           n == e.Element[1]
           el == [OnNodeID |-> e.Element[2], Type |-> e.NodeType]
           r == DeleteElement(nodes[n], el)
<1>1. /\ eventChan # <<>> /\ e.Event = "ElementDeleted" /\ elementDeleted(e)
      /\ eventChan' = Tail(eventChan) /\ UNCHANGED <<phase, view, workers>>
  BY DEF HandleDeletion
<1>2. e \in Deletion /\ nodes[n].cores # 0
  <2>1. e \in Deletion \cup Hint /\ e = eventChan[1] /\ 1 \in 1..Len(eventChan)
    BY <1>1, TailEvents
  <2>2. e \in Deletion
    BY <2>1, <1>1 DEF Hint
  <2> QED
    BY <2>1, <2>2, <1>1 DEF IInv, EventsOK
<1>3. n \in NodeID /\ e.Element \in ElementID /\ e.NodeType \in ElementType
  BY <1>2 DEF Deletion, ElementID
<1>4. TypeOK /\ nodes[n] \in Node /\ NodeOK(nodes[n], usedUuid)
  BY <1>3 DEF IInv, TypeOK, NodesOK
<1>5. /\ nodes' = [nodes EXCEPT ![n] = r]
      /\ UNCHANGED <<dbMuLeaked, usedUuid, status>>
      /\ fuzzers' \subseteq fuzzers /\ evalers' \subseteq evalers
      /\ fuzzerMap' \subseteq fuzzerMap
      /\ fuzzerGauge' \in Int /\ evalerGauge' \in Int
  BY <1>1, <1>2, <1>4 DEF elementDeleted, DeleteFuzzer, TypeOK
<1>6. Evolves(nodes[n], r, usedUuid, usedUuid')
  BY <1>2, <1>4, <1>5, DeleteEvolves
<1> HIDE DEF r, el
<1>7. /\ nodes' \in [NodeID -> Node]
      /\ NodesOK'
      /\ \A m \in NodeID :
           /\ nodes[m].cores # 0 => nodes'[m].cores # 0
           /\ nodes'[m].fuzzerByAllTime >= nodes[m].fuzzerByAllTime
           /\ \A x : WasRegistered(m, x) => WasRegistered(m, x)'
      /\ \A d \in Conn : phase[d] = "starting" =>
           /\ nodes'[NodeOf[d]].cores # 0
           /\ ViewOK(nodes'[NodeOf[d]], view[d], usedUuid')
  <2>1. usedUuid \subseteq usedUuid'
    BY <1>5
  <2> HIDE DEF n
  <2> QED
    BY <1>2, <1>3, <1>5, <1>6, <2>1, NodeChange
<1>8. TypeOK'
  BY <1>1, <1>4, <1>5, <1>7, TailEvents DEF TypeOK
<1>9. ViewsOK'
  BY <1>1, <1>7 DEF ViewsOK
<1>10. WorkersOK'
  <2> SUFFICES ASSUME NEW d \in Conn, NEW k \in 1..Len(workers[d])
               PROVE  /\ nodes'[NodeOf[d]].cores # 0
                      /\ WasRegistered(NodeOf[d], workers[d][k].el)'
    BY <1>1 DEF WorkersOK
  <2>1. NodeOf[d] \in NodeID /\ nodes[NodeOf[d]].cores # 0
        /\ WasRegistered(NodeOf[d], workers[d][k].el)
    BY MasterAssumption DEF IInv, WorkersOK
  <2>2. Registered(workers[d][k].el, nodes'[NodeOf[d]].fuzzerByAllTime, usedUuid')
    BY <2>1, <1>7 DEF WasRegistered
  <2> QED
    BY <2>1, <2>2, <1>1, <1>7 DEF WasRegistered
<1>11. EventsOK'
  <2> SUFFICES ASSUME NEW i \in 1..Len(Tail(eventChan)),
                      Tail(eventChan)[i].Event = "ElementDeleted"
               PROVE  nodes'[Tail(eventChan)[i].Element[1]].cores # 0
    BY <1>1 DEF EventsOK
  <2>1. i + 1 \in 1..Len(eventChan) /\ Tail(eventChan)[i] = eventChan[i + 1]
    BY <1>1, TailEvents
  <2>2. eventChan[i + 1] \in Deletion \cup Hint
    BY <2>1, <1>4 DEF TypeOK
  <2>3. eventChan[i + 1].Element[1] \in NodeID
    BY <2>1, <2>2 DEF Deletion, Hint, ElementID
  <2> QED
    BY <2>1, <2>3, <1>7 DEF IInv, EventsOK
<1>12. FuzzerIDsOK'
  <2> SUFFICES ASSUME NEW g \in fuzzerMap
               PROVE  g[2] \in 1..nodes'[g[1]].fuzzerByAllTime
    BY <1>5 DEF FuzzerIDsOK
  <2>1. g[1] \in NodeID /\ g[2] \in 1..nodes[g[1]].fuzzerByAllTime
    BY <1>4 DEF TypeOK, ElementID, IInv, FuzzerIDsOK
  <2>2. nodes[g[1]].fuzzerByAllTime \in Nat
        /\ nodes'[g[1]].fuzzerByAllTime \in Nat
        /\ nodes'[g[1]].fuzzerByAllTime >= nodes[g[1]].fuzzerByAllTime
    BY <2>1, <1>4, <1>7 DEF TypeOK, Node
  <2> QED
    BY <2>1, <2>2
<1>13. NoPanic' /\ DbMutexReleased'
  BY <1>5 DEF IInv, NoPanic, DbMutexReleased
<1> QED
  BY <1>7, <1>8, <1>9, <1>10, <1>11, <1>12, <1>13 DEF IInv

-----------------------------------------------------------------------------
(* Theorems *)

\* Every step of the master keeps the invariant.
LEMMA NextInv ==
  ASSUME IInv, [Next]_vars
  PROVE  IInv'
<1>1. ASSUME NEW c \in Conn, ConnStep(c)
      PROVE  IInv'
  BY <1>1, SetupNewNodeInv, StartElementInv, SendConfigInv, PeerClosesInv
     DEF ConnStep
<1>2. ASSUME NEW c \in Conn, NEW k \in 1..Len(workers[c]), WorkerStep(c, k)
      PROVE  IInv'
  BY <1>2, FuzzerStopsInv, EvalerStopsInv, EvalerExitsInv, HintsInv
     DEF WorkerStep
<1>3. CASE HandleDeletion
  BY <1>3, HandleDeletionInv
<1>4. CASE DropHint
  BY <1>4, DropHintInv
<1>5. CASE UNCHANGED vars
  BY <1>5, StutterInv
<1> QED
  BY <1>1, <1>2, <1>3, <1>4, <1>5 DEF Next

\* The inductive invariant holds in every reachable state.
THEOREM MasterInvariant == Spec => []IInv
<1>1. Init => IInv
  BY InitInv
<1>2. IInv /\ [Next]_vars => IInv'
  BY NextInv
<1> QED
  BY <1>1, <1>2, PTL DEF Spec

\* Type correctness of the master, for every set of hosts, every pattern of
\* connections and every buffer size.
THEOREM MasterTypeOK == Spec => []TypeOK
<1>1. IInv => TypeOK
  BY DEF IInv
<1> QED
  BY <1>1, MasterInvariant, PTL

\* elementDeleted never meets a node that is not there.
THEOREM MasterNeverPanics == Spec => []NoPanic
<1>1. IInv => NoPanic
  BY DEF IInv
<1> QED
  BY <1>1, MasterInvariant, PTL

\* newFuzzer never offers AddFuzzer a duplicate, so the path that returns
\* with the database mutex held is never taken.
THEOREM DatabaseMutexIsReleased == Spec => []DbMutexReleased
<1>1. IInv => DbMutexReleased
  BY DEF IInv
<1> QED
  BY <1>1, MasterInvariant, PTL

\* Whatever the interleaving of set-ups and deletions on a shared element
\* array, a connection starts only elements registered for its node.
THEOREM OnlyRegisteredStart == Spec => []StartedWasRegistered
<1>1. IInv => StartedWasRegistered
  BY DEF IInv, WorkersOK, StartedWasRegistered
<1> QED
  BY <1>1, MasterInvariant, PTL

-----------------------------------------------------------------------------
(* The cap on elements *)

\* newEvaler and newFuzzer add one element each.
LEMMA NewElementLength ==
  ASSUME NEW nd \in Node, NEW U, NEW u \in Nat, NodeOK(nd, U), nd.cores # 0
  PROVE  /\ newEvaler(nd, u).len = nd.len + 1
         /\ newFuzzer(nd).len = nd.len + 1
<1> DEFINE k == nd.fuzzerByAllTime + 1
           nk == [nd EXCEPT !.fuzzerByAllTime = k]
           e == [OnNodeID |-> u, Type |-> "Evaler"]
           f == [OnNodeID |-> k, Type |-> "Fuzzer"]
<1>1. Len(nd.gens) > 0 /\ Len(Backing(nd)) > 0 /\ nd.len <= Len(Backing(nd))
  BY DEF NodeOK
<1>2. k \in Nat
  BY DEF Node
<1>3. nk \in Node /\ nk.cores = nd.cores /\ nk.gens = nd.gens /\ nk.len = nd.len
  BY <1>2 DEF Node
<1>4. Backing(nk) = Backing(nd)
  BY <1>3 DEF Backing
<1>5. e \in Element /\ f \in Element
  BY <1>2 DEF Element, ElementType
<1>6. newEvaler(nd, u) = AppendElement(nd, e)
  BY DEF newEvaler
<1>7. newFuzzer(nd) = AppendElement(nk, f)
  BY DEF newFuzzer, NextFuzzerID, Node
<1> HIDE DEF k, nk, e, f
<1>8. Appended(nd, e, newEvaler(nd, u))
  BY <1>1, <1>5, <1>6, AppendFacts
<1>9. Appended(nk, f, newFuzzer(nd))
  BY <1>1, <1>3, <1>4, <1>5, <1>7, AppendFacts
<1> QED
  BY <1>3, <1>8, <1>9 DEF Appended

\* A set-up that passes the test at the cap adds at most two elements.
LEMMA SetupNewNodeCap ==
  ASSUME IInv, ElementCap, NEW c \in Conn, NEW cores \in CoreCounts,
         NEW role \in Roles, NEW congested \in BOOLEAN, NEW u \in Uuid,
         SetupNewNode(c, cores, role, congested, u)
  PROVE  ElementCap'
<1> DEFINE n == NodeOf[c]
           nd == Joined(n, cores)
           wantsE == WantsEvaler(role, congested)
           wantsF == WantsFuzzer(role, nd)
           ndE == IF wantsE THEN newEvaler(nd, u) ELSE nd
           ndF == IF wantsF THEN newFuzzer(ndE) ELSE ndE
<1>1. n \in NodeID /\ u \in Nat /\ nodes \in [NodeID -> Node]
  BY MasterAssumption DEF IInv, TypeOK
<1>2. CASE MaxElements(nd)
  BY <1>2 DEF SetupNewNode, registry, ElementCap
<1>3. CASE ~MaxElements(nd)
  <2>1. nodes' = [nodes EXCEPT ![n] = ndF]
    BY <1>3 DEF SetupNewNode
  <2>2. nd \in Node /\ nd.cores # 0 /\ NodeOK(nd, usedUuid)
    BY <1>1, JoinedOK
  <2>3. nd.len \in Nat /\ nd.cores \in Nat /\ nd.len <= 2 * nd.cores
    BY <2>2, <1>3 DEF MaxElements, Node
  <2> HIDE DEF nd
  <2>4. /\ Evolves(nd, newEvaler(nd, u), usedUuid, usedUuid \cup {u})
        /\ newEvaler(nd, u).len = nd.len + 1
    BY <2>2, <1>1, NewEvalerEvolves, NewElementLength
  <2>5. Evolves(nd, nd, usedUuid, usedUuid \cup {u})
    BY <2>2, DrawnEvolves
  <2>6. /\ ndE \in Node /\ ndE.cores = nd.cores /\ NodeOK(ndE, usedUuid \cup {u})
        /\ ndE.len <= nd.len + 1
    BY <2>3, <2>4, <2>5 DEF Evolves
  <2> HIDE DEF ndE
  <2>7. /\ Evolves(ndE, newFuzzer(ndE), usedUuid \cup {u}, usedUuid \cup {u})
        /\ newFuzzer(ndE).len = ndE.len + 1
    BY <2>2, <2>6, <1>1, NewFuzzerEvolves, NewElementLength
  <2>8. ndE.len \in Nat
    BY <2>6 DEF Node
  <2>9. ndF.cores = nd.cores /\ ndF.len <= nd.len + 2
    BY <2>3, <2>6, <2>7, <2>8 DEF Evolves
  <2>10. ndF.len \in Nat
    BY <2>6, <2>7 DEF Evolves, Node
  <2> HIDE DEF ndF
  <2>11. ndF.len <= 2 * ndF.cores + 2
    BY <2>3, <2>9, <2>10
  <2> QED
    BY <2>1, <2>11, <1>1 DEF ElementCap
<1> QED
  BY <1>2, <1>3

\* A deletion lengthens no node's slice.
LEMMA HandleDeletionCap ==
  ASSUME IInv, ElementCap, HandleDeletion
  PROVE  ElementCap'
<1> DEFINE e == Head(eventChan)
           n == e.Element[1]
           el == [OnNodeID |-> e.Element[2], Type |-> e.NodeType]
           r == DeleteElement(nodes[n], el)
<1>1. eventChan # <<>> /\ e.Event = "ElementDeleted" /\ elementDeleted(e)
  BY DEF HandleDeletion
<1>2. e \in Deletion \cup Hint /\ e = eventChan[1] /\ 1 \in 1..Len(eventChan)
  BY <1>1, TailEvents
<1>3. e \in Deletion
  BY <1>1, <1>2 DEF Hint
<1>4. n \in NodeID /\ nodes[n].cores # 0
  BY <1>1, <1>2, <1>3 DEF Deletion, ElementID, IInv, EventsOK
<1>5. nodes \in [NodeID -> Node] /\ nodes[n] \in Node /\ NodeOK(nodes[n], usedUuid)
  BY <1>4 DEF IInv, TypeOK, NodesOK
<1>6. nodes' = [nodes EXCEPT ![n] = r]
  BY <1>1, <1>4 DEF elementDeleted
<1>7. r \in Node /\ r.cores = nodes[n].cores /\ r.len <= nodes[n].len
  <2>1. Len(nodes[n].gens) > 0 /\ nodes[n].len <= Len(Backing(nodes[n]))
    BY <1>4, <1>5 DEF NodeOK
  <2> QED
    BY <2>1, <1>4, <1>5, DeleteFacts
<1> HIDE DEF r, n
<1>8. r.len <= 2 * r.cores + 2
  BY <1>4, <1>5, <1>7 DEF ElementCap, Node
<1> QED
  BY <1>4, <1>5, <1>6, <1>8 DEF ElementCap

\* No sequence of set-ups and deletions gives a node more than 2*cores + 2
\* elements, which is what the test in SetupNewNode enforces.
THEOREM ElementCapHolds == Spec => []ElementCap
<1>1. Init => ElementCap
  BY DEF Init, ElementCap, NoNode
<1>2. ASSUME IInv, ElementCap, [Next]_vars
      PROVE  ElementCap'
  <2>1. ASSUME NEW c \in Conn, ConnStep(c)
        PROVE  ElementCap'
    <3>1. CASE \E cores \in CoreCounts, role \in Roles, congested \in BOOLEAN,
                  u \in Uuid : SetupNewNode(c, cores, role, congested, u)
      BY <1>2, <3>1, SetupNewNodeCap
    <3>2. CASE StartElement(c)
      BY <1>2, <3>2 DEF StartElement, ElementCap
    <3>3. CASE \E ok \in BOOLEAN : SendConfig(c, ok)
      BY <1>2, <3>3 DEF SendConfig, registry, ElementCap
    <3>4. CASE PeerCloses(c)
      BY <1>2, <3>4 DEF PeerCloses, registry, ElementCap
    <3> QED
      BY <2>1, <3>1, <3>2, <3>3, <3>4 DEF ConnStep
  <2>2. ASSUME NEW c \in Conn, NEW k \in 1..Len(workers[c]), WorkerStep(c, k)
        PROVE  ElementCap'
    <3>1. UNCHANGED nodes
      BY <2>2 DEF WorkerStep, FuzzerStops, EvalerStops, EvalerExits,
                  FuzzerHints, EvalerHints, registry
    <3> QED
      BY <1>2, <3>1 DEF ElementCap
  <2>3. CASE HandleDeletion
    BY <1>2, <2>3, HandleDeletionCap
  <2>4. CASE DropHint
    BY <1>2, <2>4 DEF DropHint, registry, ElementCap
  <2>5. CASE UNCHANGED vars
    BY <1>2, <2>5 DEF vars, registry, ElementCap
  <2> QED
    BY <1>2, <2>1, <2>2, <2>3, <2>4, <2>5 DEF Next
<1> QED
  BY <1>1, <1>2, MasterInvariant, PTL DEF Spec

-----------------------------------------------------------------------------
(* The three records of what runs *)

\* The elements of a node, and that its slice names each once.
Elems(nd) == {Backing(nd)[i] : i \in 1..nd.len}
Distinct(nd) == \A i, j \in 1..nd.len : Backing(nd)[i] = Backing(nd)[j] => i = j

FuzzerEl(id) == [OnNodeID |-> id, Type |-> "Fuzzer"]
EvalerEl(id) == [OnNodeID |-> id, Type |-> "Evaler"]

\* Node n, in state nd, agrees with the fuzzers and evalers on record.
NodeAgrees(n, nd, fz, ev) ==
  /\ Distinct(nd)
  /\ \A id \in Nat : FuzzerEl(id) \in Elems(nd) <=> <<n, id>> \in fz
  /\ \A id \in Nat : EvalerEl(id) \in Elems(nd) => <<n, id>> \in ev

\* RegistryAgrees, node by node.
Agrees ==
  /\ fuzzers = fuzzerMap
  /\ \A n \in NodeID : NodeAgrees(n, nodes[n], fuzzers, evalers)

\* The elements of a node were registered: they have one of the two types.
LEMMA ElemsAreElements ==
  ASSUME NEW nd \in Node, NEW U, NodeOK(nd, U), NEW el \in Elems(nd)
  PROVE  /\ el \in Element
         /\ Registered(el, nd.fuzzerByAllTime, U)
<1>1. CASE nd.cores = 0
  BY <1>1 DEF NodeOK, NoNode, Elems
<1>2. CASE nd.cores # 0
  <2>1. PICK i \in 1..nd.len : el = Backing(nd)[i]
    BY DEF Elems
  <2>2. Registered(el, nd.fuzzerByAllTime, U)
    BY <1>2, <2>1 DEF NodeOK
  <2>3. Backing(nd) \in Seq(Slot) /\ i \in 1..Len(Backing(nd))
    BY <1>2, <2>1 DEF NodeOK, Backing, Node
  <2>4. el \in Slot
    BY <2>1, <2>3
  <2> QED
    BY <2>2, <2>4 DEF Slot, ZeroElement, Registered
<1> QED
  BY <1>1, <1>2

\* append adds its element to the others.
LEMMA AppendedElems ==
  ASSUME NEW nd \in Node, NEW el, NEW r, Appended(nd, el, r),
         Distinct(nd), el \notin Elems(nd)
  PROVE  Elems(r) = Elems(nd) \cup {el} /\ Distinct(r)
<1>1. /\ nd.len \in Nat /\ r.len = nd.len + 1
      /\ Backing(r)[r.len] = el
      /\ \A i \in 1..nd.len : Backing(r)[i] = Backing(nd)[i]
  BY DEF Appended, Node
<1>2. \A i \in 1..r.len : i = r.len \/ i \in 1..nd.len
  BY <1>1
<1>3. r.len \in 1..r.len /\ \A i \in 1..nd.len : i \in 1..r.len
  BY <1>1
<1>4. Elems(r) = Elems(nd) \cup {el}
  BY <1>1, <1>2, <1>3 DEF Elems
<1>5. Distinct(r)
  <2> SUFFICES ASSUME NEW i \in 1..r.len, NEW j \in 1..r.len,
                      Backing(r)[i] = Backing(r)[j]
               PROVE  i = j
    BY DEF Distinct
  <2>1. CASE i \in 1..nd.len /\ j \in 1..nd.len
    BY <2>1, <1>1 DEF Distinct
  <2>2. CASE i = r.len /\ j \in 1..nd.len
    BY <2>2, <1>1 DEF Elems
  <2>3. CASE i \in 1..nd.len /\ j = r.len
    BY <2>3, <1>1 DEF Elems
  <2> QED
    BY <2>1, <2>2, <2>3, <1>2
<1> QED
  BY <1>4, <1>5

\* DeleteFunc shifts what is behind the element, or does nothing without it.
LEMMA DeleteShifts ==
  ASSUME NEW nd \in Node, NEW el, nd.cores # 0,
         Len(nd.gens) > 0, nd.len <= Len(Backing(nd)),
         NEW r, r = DeleteElement(nd, el)
  PROVE  \/ r = nd /\ el \notin Elems(nd)
         \/ \E at \in 1..nd.len :
              /\ Backing(nd)[at] = el
              /\ r.len = nd.len - 1
              /\ \A i \in 1..(nd.len - 1) :
                   Backing(r)[i] = Backing(nd)[IF i < at THEN i ELSE i + 1]
<1> DEFINE G == nd.gens
           m == Len(G)
           arr == Backing(nd)
           n == nd.len
           at == CHOOSE i \in 1..n : arr[i] = el
           shifted == [i \in DOMAIN arr |->
                         IF at <= i /\ i < n THEN arr[i + 1] ELSE arr[i]]
           H == [G EXCEPT ![m] = shifted]
<1>1. /\ G \in Seq(Seq(Slot)) /\ m \in Nat /\ m \in 1..m /\ n \in Nat
      /\ arr \in Seq(Slot) /\ Len(arr) \in Nat
  BY DEF Node, Backing
<1>2. CASE \E i \in 1..n : arr[i] = el
  <2>1. at \in 1..n /\ arr[at] = el
    BY <1>2
  <2>2. r = [nd EXCEPT !.gens = H, !.len = n - 1]
    BY <1>2, <1>1 DEF DeleteElement, Node
  <2> HIDE DEF at
  <2>3. H[m] = shifted /\ Len(H) = m
    BY <1>1
  <2> HIDE DEF H
  <2>4. r.gens = H /\ r.len = n - 1
    BY <2>2 DEF Node
  <2>5. Backing(r) = shifted
    BY <2>3, <2>4 DEF Backing
  <2>6. ASSUME NEW i \in 1..(n - 1)
        PROVE  shifted[i] = arr[IF i < at THEN i ELSE i + 1]
    <3>1. DOMAIN arr = 1..Len(arr) /\ i \in 1..Len(arr)
      BY <1>1
    <3> HIDE DEF arr, n
    <3> QED
      BY <3>1, <1>1, <2>1
  <2> HIDE DEF shifted, arr
  <2> QED
    BY <2>1, <2>4, <2>5, <2>6 DEF arr
<1>3. CASE ~(\E i \in 1..n : arr[i] = el)
  BY <1>3 DEF DeleteElement, Elems
<1> QED
  BY <1>2, <1>3

\* Deleting takes the element out of the others, which stay distinct.
LEMMA DeletedElems ==
  ASSUME NEW nd \in Node, NEW U, NodeOK(nd, U), nd.cores # 0, NEW el, Distinct(nd),
         NEW r, r = DeleteElement(nd, el)
  PROVE  Elems(r) = Elems(nd) \ {el} /\ Distinct(r)
<1>1. Len(nd.gens) > 0 /\ nd.len <= Len(Backing(nd)) /\ nd.len \in Nat
  BY DEF NodeOK, Node
<1>2. CASE r = nd /\ el \notin Elems(nd)
  BY <1>2
<1>3. ASSUME NEW at \in 1..nd.len, Backing(nd)[at] = el, r.len = nd.len - 1,
             \A i \in 1..(nd.len - 1) :
               Backing(r)[i] = Backing(nd)[IF i < at THEN i ELSE i + 1]
      PROVE  Elems(r) = Elems(nd) \ {el} /\ Distinct(r)
  <2> DEFINE from(i) == IF i < at THEN i ELSE i + 1
  <2>1. ASSUME NEW i \in 1..r.len
        PROVE  from(i) \in 1..nd.len /\ from(i) # at
               /\ Backing(r)[i] = Backing(nd)[from(i)]
    BY <1>1, <1>3
  <2>2. \A i, j \in 1..r.len : from(i) = from(j) => i = j
    BY <1>1
  <2>3. ASSUME NEW k \in 1..nd.len, k # at
        PROVE  \E i \in 1..r.len : from(i) = k
    <3>1. CASE k < at
      <4>1. k \in 1..r.len /\ from(k) = k
        BY <3>1, <1>1, <1>3
      <4> QED
        BY <4>1
    <3>2. CASE ~(k < at)
      <4>1. k - 1 \in 1..r.len /\ from(k - 1) = k
        BY <3>2, <2>3, <1>1, <1>3
      <4> QED
        BY <4>1
    <3> QED
      BY <3>1, <3>2
  <2> HIDE DEF from
  <2>4. Distinct(r)
    BY <2>1, <2>2 DEF Distinct
  <2>5. ASSUME NEW x \in Elems(r) PROVE x \in Elems(nd) \ {el}
    <3>1. PICK i \in 1..r.len : x = Backing(r)[i]
      BY DEF Elems
    <3>2. x = Backing(nd)[from(i)] /\ from(i) \in 1..nd.len /\ from(i) # at
      BY <3>1, <2>1
    <3>3. x # el
      BY <3>2, <1>3 DEF Distinct
    <3> QED
      BY <3>2, <3>3 DEF Elems
  <2>6. ASSUME NEW x \in Elems(nd) \ {el} PROVE x \in Elems(r)
    <3>1. PICK k \in 1..nd.len : x = Backing(nd)[k]
      BY DEF Elems
    <3>2. k # at
      BY <3>1, <1>3
    <3>3. PICK i \in 1..r.len : from(i) = k
      BY <3>2, <2>3
    <3> QED
      BY <3>1, <3>3, <2>1 DEF Elems
  <2> QED
    BY <2>4, <2>5, <2>6
<1>4. \/ r = nd /\ el \notin Elems(nd)
      \/ \E at \in 1..nd.len :
           /\ Backing(nd)[at] = el
           /\ r.len = nd.len - 1
           /\ \A i \in 1..(nd.len - 1) :
                Backing(r)[i] = Backing(nd)[IF i < at THEN i ELSE i + 1]
  BY <1>1, DeleteShifts
<1> QED
  BY <1>2, <1>3, <1>4

\* newEvaler and the entry of the master's map.
LEMMA EvalerAgrees ==
  ASSUME NEW n, NEW nd \in Node, NEW U, NodeOK(nd, U), nd.cores # 0,
         NEW u \in Nat, u \notin U, NEW fz, NEW ev, NodeAgrees(n, nd, fz, ev)
  PROVE  NodeAgrees(n, newEvaler(nd, u), fz, ev \cup {<<n, u>>})
<1> DEFINE e == EvalerEl(u)
           r == newEvaler(nd, u)
<1>1. Len(nd.gens) > 0 /\ Len(Backing(nd)) > 0 /\ nd.len <= Len(Backing(nd))
  BY DEF NodeOK
<1>2. e \in Element
  BY DEF EvalerEl, Element, ElementType
<1>3. r = AppendElement(nd, e)
  BY DEF newEvaler, EvalerEl
<1>4. e \notin Elems(nd)
  BY ElemsAreElements DEF Registered, EvalerEl
<1> HIDE DEF e, r
<1>5. Appended(nd, e, r)
  BY <1>1, <1>2, <1>3, AppendFacts
<1>6. Elems(r) = Elems(nd) \cup {e} /\ Distinct(r)
  BY <1>4, <1>5, AppendedElems DEF NodeAgrees
<1>7. \A id : FuzzerEl(id) # e /\ (EvalerEl(id) = e => id = u)
  BY DEF FuzzerEl, EvalerEl, e
<1> QED
  BY <1>6, <1>7 DEF NodeAgrees, r

\* newFuzzer and the entries of the master's map and the database.
LEMMA FuzzerAgrees ==
  ASSUME NEW n, NEW nd \in Node, NEW U, NodeOK(nd, U), nd.cores # 0,
         NEW fz, NEW ev, NodeAgrees(n, nd, fz, ev)
  PROVE  NodeAgrees(n, newFuzzer(nd), fz \cup {<<n, NextFuzzerID(nd)>>}, ev)
<1> DEFINE k == nd.fuzzerByAllTime + 1
           nk == [nd EXCEPT !.fuzzerByAllTime = k]
           f == FuzzerEl(k)
           r == newFuzzer(nd)
<1>1. Len(nd.gens) > 0 /\ Len(Backing(nd)) > 0 /\ nd.len <= Len(Backing(nd))
  BY DEF NodeOK
<1>2. k \in Nat /\ NextFuzzerID(nd) = k /\ nd.fuzzerByAllTime \in Nat
  BY DEF Node, NextFuzzerID
<1>3. nk \in Node /\ nk.cores = nd.cores /\ nk.gens = nd.gens /\ nk.len = nd.len
  BY <1>2 DEF Node
<1>4. Backing(nk) = Backing(nd)
  BY <1>3 DEF Backing
<1>5. f \in Element
  BY <1>2 DEF Element, ElementType, FuzzerEl
<1>6. r = AppendElement(nk, f)
  BY DEF newFuzzer, NextFuzzerID, Node, FuzzerEl
<1>7. f \notin Elems(nd)
  <2>1. ~Registered(f, nd.fuzzerByAllTime, U)
    BY <1>2 DEF Registered, FuzzerEl
  <2> QED
    BY <2>1, ElemsAreElements
<1>8. \A id : EvalerEl(id) # f /\ (FuzzerEl(id) = f => id = k)
  BY DEF FuzzerEl, EvalerEl
<1> HIDE DEF k, nk, f, r
<1>9. Appended(nk, f, r)
  BY <1>1, <1>3, <1>4, <1>5, <1>6, AppendFacts
<1>10. Elems(nk) = Elems(nd) /\ Distinct(nk)
  BY <1>3, <1>4 DEF Elems, Distinct, NodeAgrees
<1>11. Elems(r) = Elems(nd) \cup {f} /\ Distinct(r)
  BY <1>3, <1>7, <1>9, <1>10, AppendedElems
<1>12. FuzzerEl(k) = f
  BY DEF f
<1>13. Distinct(r)
       /\ (\A id \in Nat : FuzzerEl(id) \in Elems(r) <=> <<n, id>> \in fz \cup {<<n, k>>})
       /\ (\A id \in Nat : EvalerEl(id) \in Elems(r) => <<n, id>> \in ev)
  BY <1>8, <1>11, <1>12 DEF NodeAgrees
<1> QED
  BY <1>2, <1>13 DEF NodeAgrees, r

\* elementDeleted takes the element out of the slice and of the maps.
LEMMA DeletionAgrees ==
  ASSUME NEW n, NEW nd \in Node, NEW U, NodeOK(nd, U), nd.cores # 0,
         NEW fz, NEW ev, NodeAgrees(n, nd, fz, ev), NEW id \in Nat
  PROVE  /\ NodeAgrees(n, DeleteElement(nd, FuzzerEl(id)), fz \ {<<n, id>>}, ev)
         /\ NodeAgrees(n, DeleteElement(nd, EvalerEl(id)), fz, ev \ {<<n, id>>})
<1>1. Distinct(nd)
  BY DEF NodeAgrees
<1>2. \A el : /\ Elems(DeleteElement(nd, el)) = Elems(nd) \ {el}
              /\ Distinct(DeleteElement(nd, el))
  BY <1>1, DeletedElems
<1>3. \A i, j : /\ FuzzerEl(i) # EvalerEl(j)
                /\ FuzzerEl(i) = FuzzerEl(j) => i = j
                /\ EvalerEl(i) = EvalerEl(j) => i = j
  BY DEF FuzzerEl, EvalerEl
<1>4. NodeAgrees(n, DeleteElement(nd, FuzzerEl(id)), fz \ {<<n, id>>}, ev)
  BY <1>2, <1>3 DEF NodeAgrees
<1>5. NodeAgrees(n, DeleteElement(nd, EvalerEl(id)), fz, ev \ {<<n, id>>})
  BY <1>2, <1>3 DEF NodeAgrees
<1> QED
  BY <1>4, <1>5

\* The entries of other nodes do not matter.
LEMMA OthersAgree ==
  ASSUME NEW m, NEW nd, NEW fz, NEW ev, NEW fz2, NEW ev2,
         NodeAgrees(m, nd, fz, ev),
         \A id \in Nat : <<m, id>> \in fz <=> <<m, id>> \in fz2,
         \A id \in Nat : <<m, id>> \in ev => <<m, id>> \in ev2
  PROVE  NodeAgrees(m, nd, fz2, ev2)
  BY DEF NodeAgrees

\* A node that is set up for the first time has no elements, as before.
LEMMA JoinedAgrees ==
  ASSUME NEW n \in NodeID, NEW cores \in CoreCounts, nodes \in [NodeID -> Node],
         NodesOK, NEW fz, NEW ev, NodeAgrees(n, nodes[n], fz, ev)
  PROVE  NodeAgrees(n, Joined(n, cores), fz, ev)
<1>1. CASE nodes[n].cores # 0
  BY <1>1 DEF Joined
<1>2. CASE nodes[n].cores = 0
  <2>1. nodes[n].len = 0
    BY <1>2 DEF NodesOK, NodeOK, NoNode
  <2>2. Joined(n, cores).len = 0
    BY <1>2 DEF Joined, NewNode
  <2>3. Elems(nodes[n]) = {} /\ Elems(Joined(n, cores)) = {} /\ Distinct(Joined(n, cores))
    BY <2>1, <2>2 DEF Elems, Distinct
  <2> QED
    BY <2>3 DEF NodeAgrees
<1> QED
  BY <1>1, <1>2

LEMMA SetupNewNodeAgrees ==
  ASSUME IInv, Agrees, NEW c \in Conn, NEW cores \in CoreCounts,
         NEW role \in Roles, NEW congested \in BOOLEAN, NEW u \in Uuid,
         SetupNewNode(c, cores, role, congested, u)
  PROVE  Agrees'
<1> DEFINE n == NodeOf[c]
           nd == Joined(n, cores)
           wantsE == WantsEvaler(role, congested)
           wantsF == WantsFuzzer(role, nd)
           ndE == IF wantsE THEN newEvaler(nd, u) ELSE nd
           ndF == IF wantsF THEN newFuzzer(ndE) ELSE ndE
           U2 == usedUuid \cup {u}
           id == NextFuzzerID(ndE)
<1>1. n \in NodeID /\ u \in Nat /\ nodes \in [NodeID -> Node] /\ NodesOK
  BY MasterAssumption DEF IInv, TypeOK
<1>2. CASE MaxElements(nd)
  BY <1>2 DEF SetupNewNode, registry, Agrees
<1>3. CASE ~MaxElements(nd)
  <2>1. /\ nodes' = [nodes EXCEPT ![n] = ndF]
        /\ RegisterEvaler(n, u, wantsE)
        /\ RegisterFuzzer(n, ndE, wantsF)
    BY <1>3 DEF SetupNewNode
  <2>2. nd \in Node /\ nd.cores # 0 /\ NodeOK(nd, usedUuid)
    BY <1>1, JoinedOK
  <2>3. NodeAgrees(n, nd, fuzzers, evalers)
    BY <1>1, JoinedAgrees DEF Agrees
  <2> HIDE DEF nd, wantsF, wantsE
  <2>4. evalers' = IF wantsE THEN evalers \cup {<<n, u>>} ELSE evalers
    BY <2>1 DEF RegisterEvaler
  <2>5. NodeAgrees(n, ndE, fuzzers, evalers')
    <3>1. CASE wantsE
      <4>1. u \notin usedUuid
        BY <3>1, <2>1 DEF RegisterEvaler
      <4> QED
        BY <4>1, <3>1, <1>1, <2>2, <2>3, <2>4, EvalerAgrees
    <3> QED
      BY <3>1, <2>3, <2>4
  <2>6. Evolves(nd, newEvaler(nd, u), usedUuid, U2) /\ Evolves(nd, nd, usedUuid, U2)
    BY <2>2, <1>1, NewEvalerEvolves, DrawnEvolves
  <2>7. ndE \in Node /\ ndE.cores # 0 /\ NodeOK(ndE, U2)
    BY <2>2, <2>6 DEF Evolves
  <2> HIDE DEF ndE, id
  <2>8. fuzzers' = (IF wantsF THEN fuzzers \cup {<<n, id>>} ELSE fuzzers)
        /\ fuzzerMap' = (IF wantsF THEN fuzzerMap \cup {<<n, id>>} ELSE fuzzerMap)
    BY <2>1 DEF RegisterFuzzer, AddFuzzer, id
  <2>9. NodeAgrees(n, ndF, fuzzers', evalers')
    <3>1. CASE wantsF
      BY <3>1, <2>5, <2>7, <2>8, FuzzerAgrees DEF id
    <3>2. CASE ~wantsF
      BY <3>2, <2>5, <2>8
    <3> QED
      BY <3>1, <3>2
  <2> HIDE DEF ndF, n
  <2>10. nodes'[n] = ndF /\ \A m \in NodeID : m # n => nodes'[m] = nodes[m]
    BY <2>1, <1>1
  <2>11. ASSUME NEW m \in NodeID, m # n
         PROVE  NodeAgrees(m, nodes'[m], fuzzers', evalers')
    <3>1. \A k \in Nat : /\ <<m, k>> \in fuzzers <=> <<m, k>> \in fuzzers'
                         /\ <<m, k>> \in evalers => <<m, k>> \in evalers'
      BY <2>4, <2>8, <2>11
    <3>2. NodeAgrees(m, nodes[m], fuzzers, evalers)
      BY DEF Agrees
    <3> QED
      BY <3>1, <3>2, <2>10, <2>11, OthersAgree
  <2>12. fuzzers' = fuzzerMap'
    BY <2>8 DEF Agrees
  <2> QED
    BY <2>9, <2>10, <2>11, <2>12 DEF Agrees
<1> QED
  BY <1>2, <1>3

LEMMA HandleDeletionAgrees ==
  ASSUME IInv, Agrees, HandleDeletion
  PROVE  Agrees'
<1> DEFINE e == Head(eventChan)
           n == e.Element[1]
           id == e.Element[2]
           el == [OnNodeID |-> id, Type |-> e.NodeType]
           r == DeleteElement(nodes[n], el)
<1>1. eventChan # <<>> /\ e.Event = "ElementDeleted" /\ elementDeleted(e)
  BY DEF HandleDeletion
<1>2. e \in Deletion \cup Hint /\ e = eventChan[1] /\ 1 \in 1..Len(eventChan)
  BY <1>1, TailEvents
<1>3. e \in Deletion
  BY <1>1, <1>2 DEF Hint
<1>4. n \in NodeID /\ id \in Nat /\ e.Element = <<n, id>> /\ nodes[n].cores # 0
      /\ e.NodeType \in ElementType
  BY <1>1, <1>2, <1>3 DEF Deletion, ElementID, IInv, EventsOK
<1>5. nodes \in [NodeID -> Node] /\ nodes[n] \in Node /\ NodeOK(nodes[n], usedUuid)
  BY <1>4 DEF IInv, TypeOK, NodesOK
<1>6. nodes' = [nodes EXCEPT ![n] = r]
  BY <1>1, <1>4 DEF elementDeleted
<1>7. \/ /\ e.NodeType = "Evaler"
         /\ evalers' = evalers \ {<<n, id>>}
         /\ UNCHANGED <<fuzzers, fuzzerMap>>
      \/ /\ e.NodeType = "Fuzzer"
         /\ fuzzers' = fuzzers \ {<<n, id>>}
         /\ fuzzerMap' = fuzzerMap \ {<<n, id>>}
         /\ UNCHANGED evalers
  BY <1>1, <1>4 DEF elementDeleted, DeleteFuzzer
<1>8. NodeAgrees(n, nodes[n], fuzzers, evalers)
  BY <1>4 DEF Agrees
<1> HIDE DEF n, id, e
<1>9. NodeAgrees(n, r, fuzzers', evalers')
  <2>1. /\ NodeAgrees(n, DeleteElement(nodes[n], FuzzerEl(id)), fuzzers \ {<<n, id>>},
                      evalers)
        /\ NodeAgrees(n, DeleteElement(nodes[n], EvalerEl(id)), fuzzers,
                      evalers \ {<<n, id>>})
    BY <1>4, <1>5, <1>8, DeletionAgrees
  <2>2. CASE e.NodeType = "Evaler"
    <3>1. el = EvalerEl(id)
      BY <2>2 DEF EvalerEl
    <3> QED
      BY <3>1, <2>1, <2>2, <1>7
  <2>3. CASE e.NodeType = "Fuzzer"
    <3>1. el = FuzzerEl(id)
      BY <2>3 DEF FuzzerEl
    <3> QED
      BY <3>1, <2>1, <2>3, <1>7
  <2> QED
    BY <2>2, <2>3, <1>7
<1> HIDE DEF r
<1>10. nodes'[n] = r /\ \A m \in NodeID : m # n => nodes'[m] = nodes[m]
  BY <1>4, <1>5, <1>6
<1>11. ASSUME NEW m \in NodeID, m # n
       PROVE  NodeAgrees(m, nodes'[m], fuzzers', evalers')
  <2>1. \A k \in Nat : /\ <<m, k>> \in fuzzers <=> <<m, k>> \in fuzzers'
                       /\ <<m, k>> \in evalers => <<m, k>> \in evalers'
    BY <1>7, <1>11
  <2>2. NodeAgrees(m, nodes[m], fuzzers, evalers)
    BY DEF Agrees
  <2> QED
    BY <2>1, <2>2, <1>10, <1>11, OthersAgree
<1>12. fuzzers' = fuzzerMap'
  BY <1>7 DEF Agrees
<1> QED
  BY <1>9, <1>10, <1>11, <1>12 DEF Agrees

\* StartElement only adds to the map of evalers.
LEMMA StartElementAgrees ==
  ASSUME Agrees, NEW c \in Conn, StartElement(c)
  PROVE  Agrees'
<1>1. UNCHANGED <<nodes, fuzzers, fuzzerMap>> /\ evalers \subseteq evalers'
  BY DEF StartElement
<1>2. ASSUME NEW m \in NodeID PROVE NodeAgrees(m, nodes[m], fuzzers, evalers')
  BY <1>1 DEF Agrees, NodeAgrees
<1> QED
  BY <1>1, <1>2 DEF Agrees

\* What Agrees says of every identifier, RegistryAgrees says of the sets.
LEMMA AgreesMeans ==
  ASSUME IInv, Agrees
  PROVE  RegistryAgrees
<1>1. ASSUME NEW n \in NodeID
      PROVE  /\ FuzzersOn(n) = {f \in fuzzers : f[1] = n}
             /\ EvalersOn(n) \subseteq evalers
             /\ \A i, j \in 1..nodes[n].len :
                  Backing(nodes[n])[i] = Backing(nodes[n])[j] => i = j
  <2>1. NodeAgrees(n, nodes[n], fuzzers, evalers)
    BY DEF Agrees
  <2>2. nodes[n] \in Node /\ NodeOK(nodes[n], usedUuid)
    BY DEF IInv, TypeOK, NodesOK
  <2>3. ElementsOf(n) = Elems(nodes[n])
    BY DEF ElementsOf, Elems
  <2>4. \A el \in Elems(nodes[n]) :
          /\ el.OnNodeID \in Nat
          /\ el.Type = "Fuzzer" => el = FuzzerEl(el.OnNodeID)
          /\ el.Type = "Evaler" => el = EvalerEl(el.OnNodeID)
    BY <2>2, ElemsAreElements DEF Element, FuzzerEl, EvalerEl
  <2>5. \A id : FuzzerEl(id).OnNodeID = id /\ FuzzerEl(id).Type = "Fuzzer"
    BY DEF FuzzerEl
  <2>6. ASSUME NEW f \in FuzzersOn(n) PROVE f \in fuzzers /\ f[1] = n
    <3>1. PICK el \in Elems(nodes[n]) : el.Type = "Fuzzer" /\ f = <<n, el.OnNodeID>>
      BY <2>3 DEF FuzzersOn
    <3> QED
      BY <3>1, <2>1, <2>4 DEF NodeAgrees
  <2>7. ASSUME NEW f \in fuzzers, f[1] = n PROVE f \in FuzzersOn(n)
    <3>1. f = <<n, f[2]>> /\ f[2] \in Nat
      BY <2>7 DEF IInv, TypeOK, ElementID
    <3>2. FuzzerEl(f[2]) \in Elems(nodes[n])
      BY <3>1, <2>1, <2>7 DEF NodeAgrees
    <3> QED
      BY <3>1, <3>2, <2>3, <2>5 DEF FuzzersOn
  <2>8. EvalersOn(n) \subseteq evalers
    BY <2>1, <2>3, <2>4 DEF EvalersOn, NodeAgrees
  <2>9. FuzzersOn(n) = {f \in fuzzers : f[1] = n}
    BY <2>6, <2>7
  <2> QED
    BY <2>1, <2>8, <2>9 DEF NodeAgrees, Distinct
<1> QED
  BY <1>1 DEF RegistryAgrees, Agrees

\* The node slices, the master's maps and the database agree after any sequence
\* of set-ups, starts and deletions, and no slice names an element twice.
THEOREM RegistriesAgree == Spec => []RegistryAgrees
<1>1. Init => Agrees
  BY DEF Init, Agrees, NodeAgrees, Elems, Distinct, NoNode
<1>2. ASSUME IInv, Agrees, [Next]_vars
      PROVE  Agrees'
  <2>0. ASSUME UNCHANGED registry PROVE Agrees'
    BY <1>2, <2>0 DEF registry, Agrees
  <2>1. ASSUME NEW c \in Conn, ConnStep(c)
        PROVE  Agrees'
    <3>1. CASE \E cores \in CoreCounts, role \in Roles, congested \in BOOLEAN,
                  u \in Uuid : SetupNewNode(c, cores, role, congested, u)
      BY <1>2, <3>1, SetupNewNodeAgrees
    <3>2. CASE StartElement(c)
      BY <1>2, <3>2, StartElementAgrees
    <3>3. CASE \E ok \in BOOLEAN : SendConfig(c, ok)
      BY <2>0, <3>3 DEF SendConfig
    <3>4. CASE PeerCloses(c)
      BY <2>0, <3>4 DEF PeerCloses
    <3> QED
      BY <2>1, <3>1, <3>2, <3>3, <3>4 DEF ConnStep
  <2>2. ASSUME NEW c \in Conn, NEW k \in 1..Len(workers[c]), WorkerStep(c, k)
        PROVE  Agrees'
    <3>1. UNCHANGED registry
      BY <2>2 DEF WorkerStep, FuzzerStops, EvalerStops, EvalerExits,
                  FuzzerHints, EvalerHints
    <3> QED
      BY <3>1, <2>0
  <2>3. CASE HandleDeletion
    BY <1>2, <2>3, HandleDeletionAgrees
  <2>4. CASE DropHint
    BY <2>0, <2>4 DEF DropHint
  <2>5. CASE UNCHANGED vars
    BY <2>0, <2>5 DEF vars
  <2> QED
    BY <1>2, <2>1, <2>2, <2>3, <2>4, <2>5 DEF Next
<1>3. IInv /\ Agrees => RegistryAgrees
  BY AgreesMeans
<1> QED
  BY <1>1, <1>2, <1>3, MasterInvariant, PTL DEF Spec

=============================================================================
