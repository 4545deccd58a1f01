-------------------------- MODULE WatcherGraphProofs --------------------------
(***************************************************************************)
(* Proofs about WatcherGraph, for any nodes, layers, sizes of the arrays,  *)
(* times and messages.  The invariants are inductive together: an edge is  *)
(* found again after new indices were given out only because edges have    *)
(* indices that were given out before, and a new layer is empty only       *)
(* because slots without a layer are.                                      *)
(***************************************************************************)
EXTENDS WatcherGraph, FiniteSetTheorems, TLAPS

NodesOK ==
  /\ nid2IndexMap \in [Nids -> NodeIndex \union {NoIndex}]
  /\ numValidNodes \in 0 .. MaxNumNodes
  /\ index2nidMap \in [0 .. numValidNodes - 1 -> Nids]
  /\ \A n \in Nids : nid2IndexMap[n] # NoIndex =>
       nid2IndexMap[n] < numValidNodes /\ index2nidMap[nid2IndexMap[n]] = n
  /\ \A i \in 0 .. numValidNodes - 1 : nid2IndexMap[index2nidMap[i]] = i

LayersOK ==
  /\ layerIndexMap \in [LayerNames -> LayerIndex \union {NoIndex}]
  /\ numValidLayers \in 1 .. MaxNumLayers
  /\ layerName \in [0 .. numValidLayers - 1 -> LayerNames]
  /\ isActive \subseteq 0 .. numValidLayers - 1
  /\ \A l \in LayerNames : layerIndexMap[l] # NoIndex =>
       layerIndexMap[l] \in 1 .. numValidLayers - 1 /\ layerName[layerIndexMap[l]] = l
  /\ \A i \in 1 .. numValidLayers - 1 : layerIndexMap[layerName[i]] = i

EdgesOK ==
  /\ edges \in [LayerIndex -> SUBSET IndexPairs]
  /\ edgeExpirations \in [LayerIndex -> [IndexPairs -> Int]]
  /\ \A l \in LayerIndex : \A p \in edges[l] : p[1] < numValidNodes /\ p[2] < numValidNodes
  /\ AbsentHasNoExpiration

LabelsOK ==
  /\ labels \in [LayerIndex -> [Places -> SUBSET [text : Texts, expiration : Int, forward : BOOLEAN]]]
  /\ LabelsOfThisDirection

IInv == NodesOK /\ LayersOK /\ EdgesOK /\ LabelsOK /\ timeForward \in BOOLEAN /\ exited \in BOOLEAN

\* The inductive invariant is the conjunction of the invariants that the runs check.
LEMMA IInvIsInvariants ==
  IInv <=> TypeOK /\ IndexesAgree /\ AbsentHasNoExpiration /\ LabelsOfThisDirection
BY DEF IInv, TypeOK, IndexesAgree, NodesOK, LayersOK, EdgesOK, LabelsOK

-----------------------------------------------------------------------------
\* The fields of a message, by its type.
LEMMA MessageFields ==
  ASSUME NEW m \in Messages
  PROVE  /\ m.type \in {"connectivity", "edge", "label", "gps", "color", "properties"}
         /\ m.type = "connectivity" =>
              m.layer \in LayerNames /\ m.from \in Nids /\ m.neighbors \subseteq Nids
         /\ m.type = "edge" =>
              /\ m.layer \in LayerNames /\ m.edge \in Edges /\ m.add \in BOOLEAN
              /\ m.timestamp \in Times /\ m.lifetime \in Lifetimes /\ m.label \in Labels
         /\ m.type = "label" =>
              /\ m.layer \in LayerNames /\ m.from \in Nids /\ m.floats \in BOOLEAN
              /\ m.timestamp \in Times /\ m.label \in Labels
         /\ m.type \in {"gps", "color"} => m.from \in Nids
         /\ m.type = "properties" => m.layer \in LayerNames /\ m.from \in Nids
<1>1. m \in AllMessages
  BY GraphAssumption DEF GraphAssumption
<1>2. CASE m \in [type : {"connectivity"}, layer : LayerNames, from : Nids, neighbors : SUBSET Nids]
  BY <1>2
<1>3. CASE m \in [type : {"edge"}, layer : LayerNames, edge : Edges, add : BOOLEAN, timestamp : Times,
                  lifetime : Lifetimes, where : {"none", "middle", "node1", "node2"}, label : Labels]
  BY <1>3
<1>4. CASE m \in [type : {"label"}, layer : LayerNames, from : Nids, floats : BOOLEAN,
                  timestamp : Times, label : Labels]
  BY <1>4
<1>5. CASE m \in [type : {"gps", "color"}, from : Nids]
  BY <1>5
<1>6. CASE m \in [type : {"properties"}, layer : LayerNames, from : Nids]
  BY <1>6
<1>7. QED BY <1>1, <1>2, <1>3, <1>4, <1>5, <1>6 DEF AllMessages

\* The edges of a message are pairs of the nodes it names.
LEMMA EdgeNodes ==
  ASSUME NEW m \in Messages, m.type = "edge"
  PROVE  /\ m.edge \subseteq Nids \X Nids
         /\ \A p \in m.edge : p[1] \in NodesOf(m) /\ p[2] \in NodesOf(m)
<1>1. m.edge \in Edges
  BY MessageFields
<1>2. m.edge \subseteq Nids \X Nids
  BY <1>1 DEF Edges
<1>3. QED BY <1>2 DEF NodesOf

\* A message has at most one layer.
LEMMA OneLayer ==
  ASSUME NEW m \in Messages, LayersOf(m) # {}
  PROVE  m.layer \in LayerNames /\ LayersOf(m) = {m.layer}
BY MessageFields DEF LayersOf

-----------------------------------------------------------------------------
(* Indices once given out stay, new ones are beyond them, and the nodes N  *)
(* have one.                                                               *)
NodesGrow(N) ==
  /\ numValidNodes <= numValidNodes'
  /\ \A n \in Nids : nid2IndexMap[n] # NoIndex => nid2IndexMap'[n] = nid2IndexMap[n]
  /\ \A n \in Nids : nid2IndexMap[n] = NoIndex => nid2IndexMap'[n] \notin 0 .. numValidNodes - 1
  /\ \A n \in N : nid2IndexMap'[n] # NoIndex

\* nid2Index keeps the two maps of the nodes inverse to each other, and only adds to them.
LEMMA NodesStep ==
  ASSUME NodesOK, NEW N \in SUBSET Nids, nid2Index(N)
  PROVE  NodesOK' /\ NodesGrow(N)
<1>0. PICK k \in numValidNodes .. MaxNumNodes :
      \E index \in Bijection(New(N), numValidNodes .. k - 1) :
        /\ nid2IndexMap' = [n \in Nids |-> IF n \in New(N) THEN index[n] ELSE nid2IndexMap[n]]
        /\ index2nidMap' = [i \in 0 .. k - 1 |->
                              IF i < numValidNodes THEN index2nidMap[i]
                              ELSE CHOOSE n \in New(N) : index[n] = i]
        /\ numValidNodes' = k
  BY DEF nid2Index
<1>1. PICK index \in Bijection(New(N), numValidNodes .. k - 1) :
        /\ nid2IndexMap' = [n \in Nids |-> IF n \in New(N) THEN index[n] ELSE nid2IndexMap[n]]
        /\ index2nidMap' = [i \in 0 .. k - 1 |->
                              IF i < numValidNodes THEN index2nidMap[i]
                              ELSE CHOOSE n \in New(N) : index[n] = i]
        /\ numValidNodes' = k
  BY <1>0
<1>2. k \in Nat /\ numValidNodes \in Nat /\ numValidNodes <= k /\ k <= MaxNumNodes /\ MaxNumNodes \in Nat
  BY GraphAssumption DEF GraphAssumption, NodesOK
<1>3. /\ index \in [New(N) -> numValidNodes .. k - 1]
      /\ \A a, b \in New(N) : a # b => index[a] # index[b]
      /\ \A i \in numValidNodes .. k - 1 : \E a \in New(N) : index[a] = i
  BY DEF Bijection, Injection, Surjection, IsInjective
<1>4. \A i \in numValidNodes .. k - 1 :
        /\ (CHOOSE n \in New(N) : index[n] = i) \in New(N)
        /\ index[CHOOSE n \in New(N) : index[n] = i] = i
  BY <1>3
<1>5. \A n \in New(N) : (CHOOSE a \in New(N) : index[a] = index[n]) = n
  BY <1>3
<1>6. New(N) \subseteq Nids /\ \A n \in New(N) : nid2IndexMap[n] = NoIndex
  BY DEF New
<1>7. nid2IndexMap' \in [Nids -> NodeIndex \union {NoIndex}]
  BY <1>1, <1>2, <1>3, <1>6 DEF NodesOK, NodeIndex
<1>8. index2nidMap' \in [0 .. k - 1 -> Nids]
  <2>1. ASSUME NEW i \in 0 .. k - 1 PROVE index2nidMap'[i] \in Nids
    <3>1. CASE i < numValidNodes
      BY <3>1, <1>1, <1>2 DEF NodesOK
    <3>2. CASE ~ (i < numValidNodes)
      <4>1. index2nidMap'[i] = CHOOSE n \in New(N) : index[n] = i
        BY <3>2, <1>1
      <4>2. i \in numValidNodes .. k - 1
        BY <3>2, <1>2
      <4>3. QED BY <4>1, <4>2, <1>4, <1>6
    <3>3. QED BY <3>1, <3>2
  <2>2. index2nidMap' = [i \in 0 .. k - 1 |-> index2nidMap'[i]]
    BY <1>1
  <2>3. QED BY <2>1, <2>2
<1>9. ASSUME NEW n \in Nids, nid2IndexMap'[n] # NoIndex
      PROVE  nid2IndexMap'[n] < k /\ index2nidMap'[nid2IndexMap'[n]] = n
  <2>1. CASE n \in New(N)
    <3>1. nid2IndexMap'[n] = index[n] /\ index[n] \in numValidNodes .. k - 1
      BY <2>1, <1>1, <1>3
    <3>2. index2nidMap'[index[n]] = CHOOSE a \in New(N) : index[a] = index[n]
      BY <3>1, <1>1, <1>2
    <3>3. QED BY <3>1, <3>2, <2>1, <1>2, <1>5
  <2>2. CASE n \notin New(N)
    <3>1. nid2IndexMap'[n] = nid2IndexMap[n] /\ nid2IndexMap[n] # NoIndex
      BY <2>2, <1>1, <1>9
    <3>2. nid2IndexMap[n] \in 0 .. numValidNodes - 1 /\ index2nidMap[nid2IndexMap[n]] = n
      BY <3>1, <1>2 DEF NodesOK, NodeIndex
    <3>3. QED BY <3>1, <3>2, <1>1, <1>2
  <2>3. QED BY <2>1, <2>2
<1>10. ASSUME NEW i \in 0 .. k - 1
       PROVE  nid2IndexMap'[index2nidMap'[i]] = i
  <2>1. CASE i < numValidNodes
    <3>1. index2nidMap'[i] = index2nidMap[i] /\ index2nidMap[i] \in Nids /\ nid2IndexMap[index2nidMap[i]] = i
      BY <2>1, <1>1, <1>2 DEF NodesOK
    <3>2. index2nidMap[i] \notin New(N)
      BY <3>1, <1>6 DEF NoIndex
    <3>3. QED BY <3>1, <3>2, <1>1
  <2>2. CASE ~ (i < numValidNodes)
    <3>1. i \in numValidNodes .. k - 1
      BY <2>2, <1>2
    <3>2. index2nidMap'[i] = CHOOSE n \in New(N) : index[n] = i
      BY <2>2, <1>1
    <3>3. QED BY <3>1, <3>2, <1>1, <1>4, <1>6
  <2>3. QED BY <2>1, <2>2
<1>11. NodesOK'
  <2>1. numValidNodes' = k
    BY <1>1
  <2>2. numValidNodes' \in 0 .. MaxNumNodes /\ index2nidMap' \in [0 .. numValidNodes' - 1 -> Nids]
    BY <2>1, <1>2, <1>8
  <2>3. \A n \in Nids : nid2IndexMap'[n] # NoIndex =>
          nid2IndexMap'[n] < numValidNodes' /\ index2nidMap'[nid2IndexMap'[n]] = n
    BY <2>1, <1>9
  <2>4. \A i \in 0 .. numValidNodes' - 1 : nid2IndexMap'[index2nidMap'[i]] = i
    BY <2>1, <1>10
  <2>5. QED BY <2>2, <2>3, <2>4, <1>7, Zenon DEF NodesOK, NodeIndex, NoIndex
<1>12. \A n \in Nids : nid2IndexMap[n] = NoIndex => nid2IndexMap'[n] \notin 0 .. numValidNodes - 1
  <2>1. SUFFICES ASSUME NEW n \in Nids, nid2IndexMap[n] = NoIndex
                 PROVE  nid2IndexMap'[n] \notin 0 .. numValidNodes - 1
    OBVIOUS
  <2>2. CASE n \in New(N) 
    BY <2>2, <1>1, <1>2, <1>3
  <2>3. CASE n \notin New(N) 
    BY <2>1, <2>3, <1>1 DEF NoIndex
  <2>4. QED BY <2>2, <2>3
<1>13. ASSUME NEW n \in N PROVE nid2IndexMap'[n] # NoIndex
  <2>1. CASE n \in New(N)
    BY <2>1, <1>1, <1>2, <1>3 DEF NoIndex
  <2>2. CASE n \notin New(N)
    BY <2>2, <1>1 DEF New
  <2>3. QED BY <2>1, <2>2
<1>14. \A n \in Nids : nid2IndexMap[n] # NoIndex => nid2IndexMap'[n] = nid2IndexMap[n]
  BY <1>1, <1>6
<1>15. numValidNodes <= numValidNodes'
  BY <1>1, <1>2
<1>16. QED BY <1>11, <1>12, <1>13, <1>14, <1>15 DEF NodesGrow

\* Nodes that have an index keep it while no other gets one.
LEMMA NoNodesStep ==
  ASSUME NodesOK, NoNewNode
  PROVE  NodesOK' /\ NodesGrow({})
BY DEF NodesOK, NodesGrow, NoNewNode, NoIndex, NodeIndex

\* What holds of layers when one was looked up: old ones stay, and a new one takes the next slot.
LayersGrow ==
  /\ numValidLayers <= numValidLayers'
  /\ \A l \in LayerNames : layerIndexMap[l] # NoIndex => layerIndexMap'[l] = layerIndexMap[l]
  /\ \A l \in LayerNames : layerIndexMap[l] = NoIndex => layerIndexMap'[l] \notin 0 .. numValidLayers - 1

\* Layers stay as they are while none is looked up.
LEMMA NoLayersStep ==
  ASSUME LayersOK, NoNewLayer
  PROVE  LayersOK' /\ LayersGrow
BY DEF LayersOK, LayersGrow, NoNewLayer, NoIndex, LayerIndex

\* name2LayerIndex, with room for the layer, keeps the map and the names of the slots in step.
LEMMA LayersStep ==
  ASSUME LayersOK, NEW N, NEW l \in LayerNames, Fits(N, {l}), name2LayerIndex(l)
  PROVE  LayersOK' /\ LayersGrow /\ layerIndexMap'[l] \in 1 .. numValidLayers' - 1
<1>0. MaxNumLayers \in Nat \ {0} /\ numValidLayers \in 1 .. MaxNumLayers
  BY GraphAssumption DEF GraphAssumption, LayersOK
<1>1. CASE ~ IsNewLayer(l)
  <2>1. NoNewLayer
    BY <1>1 DEF name2LayerIndex, NoNewLayer
  <2>2. layerIndexMap[l] \in 1 .. numValidLayers - 1
    BY <1>1 DEF IsNewLayer, LayersOK
  <2>3. QED BY <2>1, <2>2, NoLayersStep DEF NoNewLayer
<1>2. CASE IsNewLayer(l)
  <2>1. numValidLayers + 1 <= MaxNumLayers
    <3>1. {k \in {l} : IsNewLayer(k)} = {l}
      BY <1>2
    <3>2. Cardinality({l}) = 1
      BY FS_Singleton
    <3>3. QED BY <3>1, <3>2 DEF Fits
  <2>2. /\ layerIndexMap' = [layerIndexMap EXCEPT ![l] = numValidLayers]
        /\ layerName' = [i \in 0 .. numValidLayers |-> IF i = numValidLayers THEN l ELSE layerName[i]]
        /\ numValidLayers' = numValidLayers + 1
        /\ isActive' = isActive \union {numValidLayers}
    BY <1>2 DEF name2LayerIndex
  <2>3. layerIndexMap[l] = NoIndex
    BY <1>2 DEF IsNewLayer
  <2>4. /\ layerIndexMap'[l] = numValidLayers
        /\ \A k \in LayerNames : k # l => layerIndexMap'[k] = layerIndexMap[k]
    BY <2>2 DEF LayersOK
  <2>5. layerIndexMap' \in [LayerNames -> LayerIndex \union {NoIndex}]
    BY <1>0, <2>1, <2>2 DEF LayersOK, LayerIndex
  <2>6. layerName' \in [0 .. numValidLayers' - 1 -> LayerNames]
    BY <1>0, <2>2 DEF LayersOK
  <2>7. \A k \in LayerNames : layerIndexMap'[k] # NoIndex =>
          layerIndexMap'[k] \in 1 .. numValidLayers' - 1 /\ layerName'[layerIndexMap'[k]] = k
    <3>1. SUFFICES ASSUME NEW k \in LayerNames, layerIndexMap'[k] # NoIndex
                   PROVE  layerIndexMap'[k] \in 1 .. numValidLayers' - 1 /\ layerName'[layerIndexMap'[k]] = k
      OBVIOUS
    <3>2. CASE k = l
      BY <3>2, <1>0, <2>2, <2>4
    <3>3. CASE k # l
      <4>1. layerIndexMap'[k] \in 1 .. numValidLayers - 1 /\ layerName[layerIndexMap'[k]] = k
        BY <3>1, <3>3, <2>4 DEF LayersOK
      <4>2. QED BY <4>1, <1>0, <2>2
    <3>4. QED BY <3>2, <3>3
  <2>8. \A i \in 1 .. numValidLayers' - 1 : layerIndexMap'[layerName'[i]] = i
    <3>1. SUFFICES ASSUME NEW i \in 1 .. numValidLayers
                   PROVE  layerIndexMap'[layerName'[i]] = i
      BY <1>0, <2>2
    <3>2. CASE i = numValidLayers
      BY <3>2, <1>0, <2>2, <2>4
    <3>3. CASE i # numValidLayers
      <4>1. layerName'[i] = layerName[i] /\ i \in 1 .. numValidLayers - 1
        BY <3>3, <1>0, <2>2
      <4>2. layerName[i] \in LayerNames /\ layerIndexMap[layerName[i]] = i /\ layerName[i] # l
        BY <4>1, <1>0, <2>3 DEF LayersOK, NoIndex
      <4>3. QED BY <4>1, <4>2, <2>4
    <3>4. QED BY <3>2, <3>3
  <2>9. isActive' \subseteq 0 .. numValidLayers' - 1
    BY <1>0, <2>2 DEF LayersOK
  <2>10. LayersOK'
    <3>1. numValidLayers' \in 1 .. MaxNumLayers
      BY <1>0, <2>1, <2>2
    <3>2. QED BY <3>1, <2>5, <2>6, <2>7, <2>8, <2>9, Zenon DEF LayersOK, LayerIndex, NoIndex
  <2>11. LayersGrow
    BY <1>0, <2>2, <2>3, <2>4 DEF LayersGrow, LayersOK, NoIndex
  <2>12. QED BY <2>10, <2>11, <2>4, <1>0, <2>2
<1>3. QED BY <1>1, <1>2


\* Finding the indices of a message keeps the maps in order, whatever is done with them.
LEMMA IndicesStep ==
  ASSUME IInv, NEW m \in Messages, Indices(m)
  PROVE  /\ NodesOK' /\ NodesGrow(NodesOf(m))
         /\ LayersOK' /\ LayersGrow
         /\ LayersOf(m) # {} => layerIndexMap'[m.layer] \in 1 .. numValidLayers' - 1
         /\ timeForward' = timeForward /\ exited' = exited
<1>1. NodesOf(m) \in SUBSET Nids
  BY DEF NodesOf
<1>2. NodesOK' /\ NodesGrow(NodesOf(m))
  BY <1>1, NodesStep DEF Indices, IInv
<1>3. CASE LayersOf(m) = {}
  BY <1>2, <1>3, NoLayersStep DEF Indices, IInv
<1>4. CASE LayersOf(m) # {}
  <2>1. m.layer \in LayerNames /\ Fits(NodesOf(m), {m.layer}) /\ name2LayerIndex(m.layer)
    BY <1>4, OneLayer DEF Indices
  <2>2. LayersOK' /\ LayersGrow /\ layerIndexMap'[m.layer] \in 1 .. numValidLayers' - 1
    BY <2>1, LayersStep DEF IInv
  <2>3. QED BY <1>2, <2>2 DEF Indices
<1>5. QED BY <1>3, <1>4

\* The indices of edges are indices in use, and tell the edges apart.
LEMMA IndexOf ==
  ASSUME NodesOK', NEW N, NodesGrow(N), NEW P \in SUBSET (Nids \X Nids),
         \A p \in P : p[1] \in N /\ p[2] \in N
  PROVE  /\ Index(P) \subseteq (0 .. numValidNodes' - 1) \X (0 .. numValidNodes' - 1)
         /\ Index(P) \subseteq IndexPairs
         /\ \A p \in Nids \X Nids : Ix(p)' \in Index(P) <=> p \in P
<1>1. \A n \in Nids : nid2IndexMap'[n] # NoIndex =>
        /\ nid2IndexMap'[n] \in 0 .. numValidNodes' - 1 /\ nid2IndexMap'[n] \in NodeIndex
        /\ index2nidMap'[nid2IndexMap'[n]] = n
  BY GraphAssumption DEF GraphAssumption, NodesOK, NodeIndex, NoIndex
<1>2. \A n \in N : nid2IndexMap'[n] # NoIndex
  BY DEF NodesGrow
<1>3. \A p \in P : /\ p[1] \in Nids /\ p[2] \in Nids /\ p = <<p[1], p[2]>>
                  /\ nid2IndexMap'[p[1]] # NoIndex /\ nid2IndexMap'[p[2]] # NoIndex
  BY <1>2
<1>4. Index(P) \subseteq (0 .. numValidNodes' - 1) \X (0 .. numValidNodes' - 1) /\ Index(P) \subseteq IndexPairs
  BY <1>1, <1>3 DEF Index, IndexPairs
<1>5. ASSUME NEW p \in Nids \X Nids, Ix(p)' \in Index(P)
      PROVE  p \in P
  <2>1. PICK q \in P : Ix(p)' = <<nid2IndexMap'[q[1]], nid2IndexMap'[q[2]]>>
    BY <1>5 DEF Index
  <2>2. nid2IndexMap'[p[1]] = nid2IndexMap'[q[1]] /\ nid2IndexMap'[p[2]] = nid2IndexMap'[q[2]]
    BY <2>1 DEF Ix
  <2>3. p[1] = q[1] /\ p[2] = q[2]
    BY <2>2, <1>1, <1>3
  <2>4. p = q
    BY <2>3, <1>3
  <2>5. QED BY <2>4
<1>6. \A p \in P : Ix(p)' \in Index(P)
  BY DEF Index, Ix
<1>7. QED BY <1>4, <1>5, <1>6

\* An index below a bound is below a greater bound.
LEMMA Below ==
  /\ \A l \in Int, a, b \in Nat : l \notin 1 .. b - 1 /\ a <= b => l \notin 1 .. a - 1
  /\ \A a, b \in Nat : \A l : l \in 1 .. a - 1 /\ a <= b => l \in 0 .. b - 1
OBVIOUS

\* The slot of a layer that has one is a slot of the arrays.
LEMMA SlotOfLayer ==
  ASSUME LayersOK', NEW i \in 1 .. numValidLayers' - 1
  PROVE  i \in LayerIndex
<1>1. numValidLayers' \in 1 .. MaxNumLayers /\ MaxNumLayers \in Nat
  BY GraphAssumption DEF GraphAssumption, LayersOK
<1>2. numValidLayers' \in Nat /\ numValidLayers' <= MaxNumLayers
  BY <1>1
<1>3. QED BY <1>1, <1>2, Below DEF LayerIndex

\* The edges stay in order when only those of one layer change, and only as the handlers change them.
LEMMA EdgesStep ==
  ASSUME EdgesOK, NodesOK, NodesOK', LayersOK, LayersOK', numValidNodes <= numValidNodes', 
         numValidLayers <= numValidLayers',
         NEW i \in 1 .. numValidLayers' - 1,
         edges' \in [LayerIndex -> SUBSET IndexPairs],
         edgeExpirations' \in [LayerIndex -> [IndexPairs -> Int]],
         \A l \in LayerIndex : l # i => edges'[l] = edges[l] /\ edgeExpirations'[l] = edgeExpirations[l],
         \A p \in edges'[i] : p \in edges[i] \/ p \in (0 .. numValidNodes' - 1) \X (0 .. numValidNodes' - 1),
         \A p \in IndexPairs : p \notin edges'[i] => edgeExpirations'[i][p] = Infinity
  PROVE  EdgesOK'
<1>a. /\ MaxNumLayers \in Nat /\ numValidLayers \in 1 .. MaxNumLayers /\ numValidLayers' \in 1 .. MaxNumLayers
  BY GraphAssumption DEF GraphAssumption, LayersOK
<1>b. /\ MaxNumNodes \in Nat /\ numValidNodes \in 0 .. MaxNumNodes /\ numValidNodes' \in 0 .. MaxNumNodes
  BY GraphAssumption DEF GraphAssumption, NodesOK
<1>0. /\ i \in LayerIndex
      /\ numValidNodes \in Nat /\ numValidNodes' \in Nat
      /\ numValidLayers \in Nat /\ numValidLayers' \in Nat
  <2>1. /\ numValidLayers' \in Nat /\ numValidLayers' <= MaxNumLayers /\ numValidLayers \in Nat
        /\ numValidNodes \in Nat /\ numValidNodes' \in Nat
    BY <1>a, <1>b
  <2>2. i \in 0 .. MaxNumLayers - 1
    BY <2>1, <1>a, Below
  <2>3. QED BY <2>1, <2>2 DEF LayerIndex
<1>3. ASSUME NEW l \in LayerIndex, NEW p \in edges'[l]
      PROVE  p[1] < numValidNodes' /\ p[2] < numValidNodes'
  <2>1. CASE p \in edges[l]
    <3>1. p[1] < numValidNodes /\ p[2] < numValidNodes /\ p[1] \in Int /\ p[2] \in Int
      BY <2>1, <1>0 DEF EdgesOK, IndexPairs, NodeIndex
    <3>2. QED BY <3>1, <1>0
  <2>2. CASE p \notin edges[l]
    BY <2>2, <1>3, <1>0
  <2>3. QED BY <2>1, <2>2
<1>4. AbsentHasNoExpiration'
  <2>1. SUFFICES ASSUME NEW l \in LayerIndex, NEW p \in IndexPairs
                 PROVE  /\ p \notin edges'[l] => edgeExpirations'[l][p] = Infinity
                        /\ l \notin 1 .. numValidLayers' - 1 => p \notin edges'[l]
    BY DEF AbsentHasNoExpiration, LayerIndex, IndexPairs, NodeIndex, Infinity
  <2>2. CASE l = i
    BY <2>2
  <2>3. CASE l # i
    <3>1. edges'[l] = edges[l] /\ edgeExpirations'[l] = edgeExpirations[l]
      BY <2>3
    <3>2. p \notin edges[l] => edgeExpirations[l][p] = Infinity
      BY DEF EdgesOK, AbsentHasNoExpiration
    <3>3. l \notin 1 .. numValidLayers - 1 => p \notin edges[l]
      BY DEF EdgesOK, AbsentHasNoExpiration
    <3>4. l \notin 1 .. numValidLayers' - 1 => l \notin 1 .. numValidLayers - 1
      <4>1. l \in Int
        BY <1>a DEF LayerIndex
      <4>2. QED BY <4>1, <1>0, Below
    <3>5. QED BY <3>1, <3>2, <3>3, <3>4
  <2>4. QED BY <2>2, <2>3
<1>5. \A l \in LayerIndex : \A p \in edges'[l] : p[1] < numValidNodes' /\ p[2] < numValidNodes'
  BY <1>3
<1>6. QED BY <1>4, <1>5, Zenon DEF EdgesOK, LayerIndex, IndexPairs, NodeIndex

\* The edges stay in order when nothing but indices is added.
LEMMA EdgesUnchanged ==
  ASSUME EdgesOK, NodesOK, NodesOK', LayersOK, LayersOK', numValidNodes <= numValidNodes',
         numValidLayers <= numValidLayers', UNCHANGED <<edges, edgeExpirations>>
  PROVE  EdgesOK'
<1>0. /\ numValidNodes \in Nat /\ numValidNodes' \in Nat /\ MaxNumNodes \in Nat
      /\ numValidLayers \in Nat /\ numValidLayers' \in Nat /\ MaxNumLayers \in Nat
  BY GraphAssumption DEF GraphAssumption, NodesOK, LayersOK
<1>1. ASSUME NEW l \in LayerIndex, NEW p \in edges[l]
      PROVE  p[1] < numValidNodes' /\ p[2] < numValidNodes'
  <2>1. p[1] < numValidNodes /\ p[2] < numValidNodes /\ p[1] \in Int /\ p[2] \in Int
    BY <1>0 DEF EdgesOK, IndexPairs, NodeIndex
  <2>2. QED BY <2>1, <1>0
<1>2. \A l \in LayerIndex, p \in IndexPairs : l \notin 1 .. numValidLayers' - 1 => p \notin edges[l]
  <2>1. \A l \in LayerIndex : l \notin 1 .. numValidLayers' - 1 => l \notin 1 .. numValidLayers - 1
    <3>1. \A l \in LayerIndex : l \in Int
      BY <1>0 DEF LayerIndex
    <3>2. QED BY <3>1, <1>0, Below
  <2>2. QED BY <2>1 DEF EdgesOK, AbsentHasNoExpiration
<1>3. AbsentHasNoExpiration'
  BY <1>2 DEF EdgesOK, AbsentHasNoExpiration, LayerIndex, IndexPairs, NodeIndex, Infinity
<1>4. QED BY <1>1, <1>3, Zenon DEF EdgesOK, LayerIndex, IndexPairs, NodeIndex

-----------------------------------------------------------------------------
Shownables == [text : Texts, expiration : Int, forward : BOOLEAN]

Ordered(S) == \A s, t \in S : s.forward = timeForward /\ (s.text = t.text => s = t)

\* Expirations are numbers.
LEMMA ExpirationInt ==
  ASSUME NEW ts \in Times, NEW e \in Lifetimes
  PROVE  Expiration(ts, e) \in Int
<1>1. ts \in Nat /\ e \in Int
  BY GraphAssumption DEF GraphAssumption, Infinity
<1>2. QED BY <1>1 DEF Expiration, Infinity

\* Showing or hiding a label keeps the texts of a place apart and all labels of one direction.
LEMMA AddRemoveStep ==
  ASSUME timeForward \in BOOLEAN, NEW S \in SUBSET Shownables, Ordered(S),
         NEW ts \in Times, NEW label \in Labels
  PROVE  AddRemove(S, ts, label) \in SUBSET Shownables /\ Ordered(AddRemove(S, ts, label))
<1>1. label.text \in Texts /\ label.lifetime \in Lifetimes
  BY DEF Labels
<1>2. Shown(ts, label) \in Shownables
  BY <1>1, ExpirationInt DEF Shown, Shownables
<1>3. Shown(ts, label).text = label.text /\ Shown(ts, label).forward = timeForward
  BY DEF Shown
<1>4. CASE label.add /\ {s \in S : s.text = label.text} = {}
  <2>1. AddRemove(S, ts, label) = S \union {Shown(ts, label)}
    BY <1>4 DEF AddRemove
  <2>2. \A s \in S : s.text # label.text
    BY <1>4
  <2>3. QED BY <2>1, <2>2, <1>2, <1>3 DEF Ordered
<1>5. CASE label.add /\ {s \in S : s.text = label.text} # {}
  <2>1. AddRemove(S, ts, label) = S
    BY <1>5 DEF AddRemove
  <2>2. QED BY <2>1
<1>6. CASE ~ label.add
  <2>1. AddRemove(S, ts, label) \subseteq S
    BY <1>6 DEF AddRemove
  <2>2. QED BY <2>1 DEF Ordered
<1>7. QED BY <1>4, <1>5, <1>6

\* LabelsOK, place by place.
LEMMA LabelsByPlace ==
  ASSUME labels \in [LayerIndex -> [Places -> SUBSET Shownables]]
  PROVE  LabelsOK <=> \A l \in LayerIndex, place \in Places : Ordered(labels[l][place])
BY DEF LabelsOK, LabelsOfThisDirection, Ordered, Shownables

\* addRemoveAt changes labels only as AddRemove does.
LEMMA AddRemoveAtStep ==
  ASSUME LabelsOK, timeForward \in BOOLEAN, timeForward' = timeForward,
         NEW i \in LayerIndex, NEW P, NEW m, m.timestamp \in Times, m.label \in Labels,
         addRemoveAt(i, P, m)
  PROVE  LabelsOK'
<1>1. labels \in [LayerIndex -> [Places -> SUBSET Shownables]]
  BY DEF LabelsOK, Shownables
<1>2. \A l \in LayerIndex, place \in Places : Ordered(labels[l][place])
  BY <1>1, LabelsByPlace
<1>3. DEFINE new == [place \in Places |->
        IF place \in P THEN AddRemove(labels[i][place], m.timestamp, m.label) ELSE labels[i][place]]
<1>4. labels' = [labels EXCEPT ![i] = new]
  BY DEF addRemoveAt
<1>5. ASSUME NEW place \in Places
      PROVE  new[place] \in SUBSET Shownables /\ Ordered(new[place])
  <2>1. labels[i][place] \in SUBSET Shownables /\ Ordered(labels[i][place])
    BY <1>1, <1>2
  <2>2. AddRemove(labels[i][place], m.timestamp, m.label) \in SUBSET Shownables
          /\ Ordered(AddRemove(labels[i][place], m.timestamp, m.label))
    BY <2>1, AddRemoveStep
  <2>3. QED BY <2>1, <2>2
<1>6. new \in [Places -> SUBSET Shownables]
  BY <1>5
<1> HIDE DEF new
<1>7. labels' \in [LayerIndex -> [Places -> SUBSET Shownables]]
  BY <1>1, <1>4, <1>6
<1>8. \A l \in LayerIndex, place \in Places : Ordered(labels'[l][place])
  BY <1>1, <1>2, <1>4, <1>5
<1>9. LabelsOfThisDirection'
  BY <1>8 DEF LabelsOfThisDirection, Ordered, LayerIndex, Places, IndexPairs, NodeIndex, Floating
<1>10. QED BY <1>7, <1>9 DEF LabelsOK, Shownables, LayerIndex, Places, IndexPairs, NodeIndex, Floating

\* Labels are as they were when they are not touched.
LEMMA LabelsUnchanged ==
  ASSUME LabelsOK, UNCHANGED <<labels, timeForward>>
  PROVE  LabelsOK'
<1>1. labels' = labels /\ timeForward' = timeForward
  OBVIOUS
<1>2. \A l \in LayerIndex, place \in Places : \A s, t \in labels'[l][place] :
        s.forward = timeForward' /\ (s.text = t.text => s = t)
  <2>1. \A l \in LayerIndex, place \in Places : \A s, t \in labels[l][place] :
          s.forward = timeForward /\ (s.text = t.text => s = t)
    BY DEF LabelsOK, LabelsOfThisDirection
  <2>2. QED BY <1>1, <2>1
<1>4. LabelsOfThisDirection'
  BY <1>2 DEF LabelsOfThisDirection, LayerIndex, Places, IndexPairs, NodeIndex, Floating
<1>5. QED BY <1>1, <1>4, Zenon DEF LabelsOK, LayerIndex, Places, IndexPairs, NodeIndex, Floating

-----------------------------------------------------------------------------
\* The graph begins empty.
LEMMA InitIInv == Init => IInv
<1> SUFFICES ASSUME Init PROVE IInv
  OBVIOUS
<1>0. MaxNumNodes \in Nat /\ MaxNumLayers \in Nat \ {0} /\ Physical \in LayerNames
  BY GraphAssumption DEF GraphAssumption
<1>1. NodesOK
  BY <1>0 DEF Init, NodesOK, NoIndex
<1>2. LayersOK
  BY <1>0 DEF Init, LayersOK, NoIndex
<1>3. AbsentHasNoExpiration
  BY DEF Init, AbsentHasNoExpiration, NoEdges, NeverExpires
<1>4. EdgesOK
  BY <1>3 DEF Init, EdgesOK, NoEdges, NeverExpires, Infinity
<1>5. LabelsOK
  BY DEF Init, LabelsOK, LabelsOfThisDirection, NoLabels
<1>6. QED BY <1>1, <1>2, <1>4, <1>5 DEF Init, IInv

\* The names of the neighbours of a node become the whole row of its edges.
LEMMA NeighborsStep ==
  ASSUME IInv, NEW m \in Messages, addNodeNeighbors(m)
  PROVE  IInv'
<1>0. /\ NodesOK' /\ NodesGrow(NodesOf(m)) /\ LayersOK' /\ LayersGrow
      /\ layerIndexMap'[m.layer] \in 1 .. numValidLayers' - 1
      /\ timeForward' = timeForward /\ exited' = exited
  BY IndicesStep DEF addNodeNeighbors, LayersOf
<1> DEFINE i == layerIndexMap'[m.layer]
           row == {nid2IndexMap'[m.from]} \X NodeIndex
           P == {m.from} \X m.neighbors
           E == (edges[i] \ row) \union Index(P)
           F == [p \in IndexPairs |-> IF p \in row THEN Infinity ELSE edgeExpirations[i][p]]
<1>1. m.from \in Nids /\ m.neighbors \subseteq Nids /\ m.type = "connectivity"
  BY MessageFields DEF addNodeNeighbors
<1>2. P \in SUBSET (Nids \X Nids) /\ \A p \in P : p[1] \in NodesOf(m) /\ p[2] \in NodesOf(m)
  BY <1>1 DEF NodesOf
<1>3. Index(P) \subseteq (0 .. numValidNodes' - 1) \X (0 .. numValidNodes' - 1) /\ Index(P) \subseteq IndexPairs
  BY <1>0, <1>2, IndexOf
<1>4. Index(P) \cap IndexPairs \subseteq row
  BY DEF Index, IndexPairs
<1>5. edges' = [edges EXCEPT ![i] = E] /\ edgeExpirations' = [edgeExpirations EXCEPT ![i] = F]
  BY DEF addNodeNeighbors
<1>6. i \in LayerIndex
  BY <1>0, SlotOfLayer
<1>7. /\ edges[i] \in SUBSET IndexPairs /\ edgeExpirations[i] \in [IndexPairs -> Int]
      /\ \A p \in IndexPairs : p \notin edges[i] => edgeExpirations[i][p] = Infinity
  BY <1>6 DEF IInv, EdgesOK, AbsentHasNoExpiration
<1> HIDE DEF row, P
<1>8. E \in SUBSET IndexPairs /\ F \in [IndexPairs -> Int]
  BY <1>3, <1>7 DEF Infinity
<1>9. \A p \in E : p \in edges[i] \/ p \in (0 .. numValidNodes' - 1) \X (0 .. numValidNodes' - 1)
  BY <1>3
<1>10. \A p \in IndexPairs : p \notin E => F[p] = Infinity
  BY <1>7
<1>a. /\ EdgesOK /\ NodesOK /\ LayersOK /\ i \in 1 .. numValidLayers' - 1
      /\ numValidNodes <= numValidNodes' /\ numValidLayers <= numValidLayers'
  BY <1>0 DEF IInv, NodesGrow, LayersGrow
<1>b. i \in LayerIndex
  BY <1>0, SlotOfLayer
<1> HIDE DEF i, E, F
<1>11. EdgesOK'
  <2>1. /\ edges' \in [LayerIndex -> SUBSET IndexPairs]
        /\ edgeExpirations' \in [LayerIndex -> [IndexPairs -> Int]]
    BY <1>a, <1>5, <1>8 DEF EdgesOK
  <2>2. /\ edges'[i] = E /\ edgeExpirations'[i] = F
        /\ \A l \in LayerIndex : l # i => edges'[l] = edges[l] /\ edgeExpirations'[l] = edgeExpirations[l]
    BY <1>a, <1>b, <1>5 DEF EdgesOK
  <2>3. QED BY <1>a, <1>0, <2>1, <2>2, <1>9, <1>10, EdgesStep
<1>12. LabelsOK'
  BY <1>0, LabelsUnchanged DEF IInv, addNodeNeighbors
<1>13. QED BY <1>0, <1>11, <1>12 DEF IInv

\* Edges added or removed by a message have their expirations set with them.
LEMMA EdgeStep ==
  ASSUME IInv, NEW m \in Messages, addEdge(m)
  PROVE  IInv'
<1>0. /\ NodesOK' /\ NodesGrow(NodesOf(m)) /\ LayersOK' /\ LayersGrow
      /\ layerIndexMap'[m.layer] \in 1 .. numValidLayers' - 1
      /\ timeForward' = timeForward /\ exited' = exited
  BY IndicesStep DEF addEdge, LayersOf
<1> DEFINE i == layerIndexMap'[m.layer]
           end == Expiration(m.timestamp, m.lifetime)
           E == IF m.add THEN edges[i] \union Index(m.edge) ELSE edges[i] \ Index(m.edge)
           F == [p \in IndexPairs |-> IF p \notin Index(m.edge) THEN edgeExpirations[i][p]
                                      ELSE IF ~ m.add THEN Infinity
                                      ELSE IF m.lifetime = Infinity THEN edgeExpirations[i][p]
                                      ELSE end]
<1>1. m.type = "edge" /\ m.timestamp \in Times /\ m.lifetime \in Lifetimes /\ m.label \in Labels
  BY MessageFields DEF addEdge
<1>2. m.edge \subseteq Nids \X Nids /\ \A p \in m.edge : p[1] \in NodesOf(m) /\ p[2] \in NodesOf(m)
  BY <1>1, EdgeNodes
<1>3. Index(m.edge) \subseteq (0 .. numValidNodes' - 1) \X (0 .. numValidNodes' - 1)
        /\ Index(m.edge) \subseteq IndexPairs
  BY <1>0, <1>2, IndexOf
<1>4. edges' = [edges EXCEPT ![i] = E] /\ edgeExpirations' = [edgeExpirations EXCEPT ![i] = F]
  BY DEF addEdge
<1>5. i \in LayerIndex
  BY <1>0, SlotOfLayer
<1>6. /\ edges[i] \in SUBSET IndexPairs /\ edgeExpirations[i] \in [IndexPairs -> Int]
      /\ \A p \in IndexPairs : p \notin edges[i] => edgeExpirations[i][p] = Infinity
  BY <1>5 DEF IInv, EdgesOK, AbsentHasNoExpiration
<1>7. end \in Int
  BY <1>1, ExpirationInt
<1> HIDE DEF end
<1>8. E \in SUBSET IndexPairs /\ F \in [IndexPairs -> Int]
  BY <1>3, <1>6, <1>7 DEF Infinity
<1>9. \A p \in E : p \in edges[i] \/ p \in (0 .. numValidNodes' - 1) \X (0 .. numValidNodes' - 1)
  BY <1>3
<1>10. \A p \in IndexPairs : p \notin E => F[p] = Infinity
  BY <1>6
<1>11. addRemoveAt(i, LabelPlaces(m, Index(m.edge)), m)
  BY DEF addEdge
<1>a. /\ EdgesOK /\ NodesOK /\ LayersOK /\ i \in 1 .. numValidLayers' - 1
      /\ numValidNodes <= numValidNodes' /\ numValidLayers <= numValidLayers'
  BY <1>0 DEF IInv, NodesGrow, LayersGrow
<1>b. i \in LayerIndex
  BY <1>0, SlotOfLayer
<1> HIDE DEF i, E, F
<1>12. EdgesOK'
  <2>1. /\ edges' \in [LayerIndex -> SUBSET IndexPairs]
        /\ edgeExpirations' \in [LayerIndex -> [IndexPairs -> Int]]
    BY <1>a, <1>4, <1>8 DEF EdgesOK
  <2>2. /\ edges'[i] = E /\ edgeExpirations'[i] = F
        /\ \A l \in LayerIndex : l # i => edges'[l] = edges[l] /\ edgeExpirations'[l] = edgeExpirations[l]
    BY <1>a, <1>b, <1>4 DEF EdgesOK
  <2>3. QED BY <1>a, <1>0, <2>1, <2>2, <1>9, <1>10, EdgesStep
<1>13. LabelsOK'
  BY <1>0, <1>1, <1>5, <1>11, AddRemoveAtStep DEF IInv
<1>14. QED BY <1>0, <1>12, <1>13 DEF IInv

\* Labels come and go without touching the edges.
LEMMA LabelStep ==
  ASSUME IInv, NEW m \in Messages, addRemoveLabel(m)
  PROVE  IInv'
<1>0. /\ NodesOK' /\ NodesGrow(NodesOf(m)) /\ LayersOK' /\ LayersGrow
      /\ layerIndexMap'[m.layer] \in 1 .. numValidLayers' - 1
      /\ timeForward' = timeForward /\ exited' = exited
  BY IndicesStep DEF addRemoveLabel, LayersOf
<1>1. m.timestamp \in Times /\ m.label \in Labels
  BY MessageFields DEF addRemoveLabel
<1>2. layerIndexMap'[m.layer] \in LayerIndex
  BY <1>0, SlotOfLayer
<1>3. LabelsOK'
  BY <1>0, <1>1, <1>2, AddRemoveAtStep DEF IInv, addRemoveLabel
<1>4. EdgesOK'
  BY <1>0, EdgesUnchanged DEF IInv, NodesGrow, LayersGrow, addRemoveLabel
<1>5. QED BY <1>0, <1>3, <1>4 DEF IInv

\* A message about a node only makes it, and its layer, known.
LEMMA NodeStep ==
  ASSUME IInv, NEW m \in Messages, updateNode(m)
  PROVE  IInv'
<1>0. /\ NodesOK' /\ NodesGrow(NodesOf(m)) /\ LayersOK' /\ LayersGrow
      /\ timeForward' = timeForward /\ exited' = exited
  BY IndicesStep DEF updateNode
<1>1. EdgesOK'
  BY <1>0, EdgesUnchanged DEF IInv, NodesGrow, LayersGrow, updateNode
<1>2. LabelsOK'
  BY <1>0, LabelsUnchanged DEF IInv, updateNode
<1>3. QED BY <1>0, <1>1, <1>2 DEF IInv

\* What only fails or shows a layer leaves indices, edges and labels in order.
LEMMA QuietStep ==
  ASSUME IInv, UNCHANGED <<nid2IndexMap, index2nidMap, numValidNodes>>, LayersOK', LayersGrow,
         UNCHANGED <<edges, edgeExpirations, labels, timeForward>>, exited' \in BOOLEAN
  PROVE  IInv'
<1>1. NodesOK' /\ NodesGrow({})
  BY NoNodesStep DEF IInv, NoNewNode
<1>2. EdgesOK'
  BY <1>1, EdgesUnchanged DEF IInv, NodesGrow, LayersGrow
<1>3. LabelsOK'
  BY LabelsUnchanged DEF IInv
<1>4. QED BY <1>1, <1>2, <1>3 DEF IInv

\* Showing or hiding a layer, and the first time making it known.
LEMMA ToggleStep ==
  ASSUME IInv, NEW l \in LayerNames, layerToggle(l)
  PROVE  IInv'
<1>1. /\ UNCHANGED <<nid2IndexMap, index2nidMap, numValidNodes>>
      /\ UNCHANGED <<edges, edgeExpirations, labels, timeForward, exited>>
  BY DEF layerToggle, NoNewNode
<1>2. CASE IsNewLayer(l)
  <2>1. LayersOK' /\ LayersGrow
    BY <1>2, LayersStep DEF layerToggle, IInv
  <2>2. QED BY <1>1, <2>1, QuietStep DEF IInv
<1>3. CASE ~ IsNewLayer(l)
  <2>1. UNCHANGED <<layerIndexMap, layerName, numValidLayers>>
    BY <1>3 DEF layerToggle
  <2>2. layerIndexMap[l] \in 0 .. numValidLayers - 1
    BY <1>3 DEF IsNewLayer, IInv, LayersOK
  <2>3. isActive' \subseteq isActive \union {layerIndexMap[l]}
    BY <1>3 DEF layerToggle
  <2>4. isActive' \subseteq 0 .. numValidLayers - 1
    BY <2>2, <2>3 DEF IInv, LayersOK
  <2>5. LayersOK'
    BY <2>1, <2>4, Zenon DEF IInv, LayersOK, LayerIndex, NoIndex
  <2>6. LayersGrow
    BY <2>1 DEF IInv, LayersOK, LayersGrow, NoIndex
  <2>7. QED BY <1>1, <2>5, <2>6, QuietStep DEF IInv
<1>4. QED BY <1>2, <1>3

\* Nothing is left of an edge when maintenance removes it.
LEMMA MaintenanceStep ==
  ASSUME IInv, NEW now \in Times, doMaintanence(now)
  PROVE  IInv'
<1> DEFINE over(l) == IF l \in isActive THEN {p \in edges[l] : Expired(now, edgeExpirations[l][p])} ELSE {}
<1>1. /\ edges' = [l \in LayerIndex |-> edges[l] \ over(l)]
      /\ edgeExpirations' = [l \in LayerIndex |-> [p \in IndexPairs |->
           IF p \in over(l) THEN Infinity ELSE edgeExpirations[l][p]]]
      /\ labels' = [l \in LayerIndex |-> [place \in Places |->
           {s \in labels[l][place] : ~ (l \in isActive /\ Expired(now, s.expiration))}]]
      /\ UNCHANGED <<indexVars, isActive, timeForward, exited>>
  BY DEF doMaintanence
<1> HIDE DEF over
<1>2. NodesOK' /\ NodesGrow({})
  BY <1>1, NoNodesStep DEF IInv, NoNewNode, indexVars
<1>3. LayersOK' /\ LayersGrow
  BY <1>1, NoLayersStep DEF IInv, NoNewLayer, indexVars
<1>4. edges' \in [LayerIndex -> SUBSET IndexPairs] /\ edgeExpirations' \in [LayerIndex -> [IndexPairs -> Int]]
  BY <1>1 DEF IInv, EdgesOK, Infinity
<1>5. \A l \in LayerIndex, p \in IndexPairs :
        /\ p \notin edges'[l] => edgeExpirations'[l][p] = Infinity
        /\ l \notin 1 .. numValidLayers' - 1 => p \notin edges'[l]
  <2>1. SUFFICES ASSUME NEW l \in LayerIndex, NEW p \in IndexPairs
                 PROVE  /\ p \notin edges'[l] => edgeExpirations'[l][p] = Infinity
                        /\ l \notin 1 .. numValidLayers' - 1 => p \notin edges'[l]
    OBVIOUS
  <2>2. /\ p \notin edges[l] => edgeExpirations[l][p] = Infinity
        /\ l \notin 1 .. numValidLayers - 1 => p \notin edges[l]
    BY DEF IInv, EdgesOK, AbsentHasNoExpiration
  <2>3. /\ edges'[l] = edges[l] \ over(l)
        /\ edgeExpirations'[l][p] = IF p \in over(l) THEN Infinity ELSE edgeExpirations[l][p]
        /\ numValidLayers' = numValidLayers
    BY <1>1 DEF indexVars
  <2>4. QED BY <2>2, <2>3
<1>6. AbsentHasNoExpiration'
  BY <1>5, Zenon DEF AbsentHasNoExpiration, LayerIndex, IndexPairs, NodeIndex, Infinity
<1>7. \A l \in LayerIndex : \A p \in edges'[l] : p[1] < numValidNodes' /\ p[2] < numValidNodes'
  BY <1>1 DEF IInv, EdgesOK, indexVars
<1>8. EdgesOK'
  BY <1>4, <1>6, <1>7, Zenon DEF EdgesOK, LayerIndex, IndexPairs, NodeIndex
<1>9. labels' \in [LayerIndex -> [Places -> SUBSET Shownables]]
  BY <1>1 DEF IInv, LabelsOK, Shownables
<1>10. \A l \in LayerIndex, place \in Places : labels'[l][place] \subseteq labels[l][place]
  BY <1>1
<1>11. \A l \in LayerIndex, place \in Places : \A s, t \in labels'[l][place] :
         s.forward = timeForward' /\ (s.text = t.text => s = t)
  BY <1>1, <1>10 DEF IInv, LabelsOK, LabelsOfThisDirection
<1>12. LabelsOfThisDirection'
  BY <1>11 DEF LabelsOfThisDirection, LayerIndex, Places, IndexPairs, NodeIndex, Floating
<1>13. LabelsOK'
  BY <1>9, <1>12, Zenon DEF LabelsOK, Shownables, LayerIndex, Places, IndexPairs, NodeIndex, Floating
<1>14. QED BY <1>1, <1>2, <1>3, <1>8, <1>13 DEF IInv

\* A change of direction leaves empty layers.
LEMMA TurnStep ==
  ASSUME IInv, NEW forward \in BOOLEAN, setTimeDirectionForward(forward)
  PROVE  IInv'
<1>1. /\ edges' = [l \in LayerIndex |-> {}]
      /\ edgeExpirations' = [l \in LayerIndex |-> [p \in IndexPairs |-> Infinity]]
      /\ labels' = [l \in LayerIndex |-> [place \in Places |-> {}]]
      /\ timeForward' = forward /\ UNCHANGED <<indexVars, isActive, exited>>
  BY DEF setTimeDirectionForward, clear, WithoutEdges, WithoutLabels, NoEdges, NeverExpires, NoLabels
<1>2. NodesOK' /\ NodesGrow({})
  BY <1>1, NoNodesStep DEF IInv, NoNewNode, indexVars
<1>3. LayersOK' /\ LayersGrow
  BY <1>1, NoLayersStep DEF IInv, NoNewLayer, indexVars
<1>4. AbsentHasNoExpiration'
  BY <1>1 DEF AbsentHasNoExpiration, LayerIndex, IndexPairs, NodeIndex, Infinity
<1>5. edges' \in [LayerIndex -> SUBSET IndexPairs] /\ edgeExpirations' \in [LayerIndex -> [IndexPairs -> Int]]
  BY <1>1 DEF Infinity
<1>6. \A l \in LayerIndex : \A p \in edges'[l] : p[1] < numValidNodes' /\ p[2] < numValidNodes'
  BY <1>1
<1>7. EdgesOK'
  BY <1>4, <1>5, <1>6, Zenon DEF EdgesOK, LayerIndex, IndexPairs, NodeIndex
<1>8. labels' \in [LayerIndex -> [Places -> SUBSET Shownables]]
  BY <1>1
<1>9. LabelsOfThisDirection'
  BY <1>1 DEF LabelsOfThisDirection, LayerIndex, Places, IndexPairs, NodeIndex, Floating
<1>10. LabelsOK'
  BY <1>8, <1>9, Zenon DEF LabelsOK, Shownables, LayerIndex, Places, IndexPairs, NodeIndex, Floating
<1>11. QED BY <1>1, <1>2, <1>3, <1>7, <1>10 DEF IInv

\* What is cleared is empty, and what is not cleared stays.
LEMMA ClearStep ==
  ASSUME IInv, viewClears
  PROVE  IInv'
<1>1. UNCHANGED <<indexVars, isActive, timeForward, exited>>
  BY DEF viewClears
<1>2. \/ /\ edges' = [l \in LayerIndex |-> {}]
         /\ edgeExpirations' = [l \in LayerIndex |-> [p \in IndexPairs |-> Infinity]]
      \/ UNCHANGED <<edges, edgeExpirations>>
  BY DEF viewClears, clearAll, clearAllEdges, clearAllLabels, clear, WithoutEdges, NoEdges, NeverExpires
<1>3. labels' = [l \in LayerIndex |-> [place \in Places |-> {}]] \/ UNCHANGED labels
  BY DEF viewClears, clearAll, clearAllEdges, clearAllLabels, clear, WithoutLabels, NoLabels
<1>4. NodesOK' /\ NodesGrow({})
  BY <1>1, NoNodesStep DEF IInv, NoNewNode, indexVars
<1>5. LayersOK' /\ LayersGrow
  BY <1>1, NoLayersStep DEF IInv, NoNewLayer, indexVars
<1>6. EdgesOK'
  <2>1. CASE UNCHANGED <<edges, edgeExpirations>>
    BY <1>1, <2>1 DEF IInv, EdgesOK, AbsentHasNoExpiration, indexVars
  <2>2. CASE /\ edges' = [l \in LayerIndex |-> {}]
             /\ edgeExpirations' = [l \in LayerIndex |-> [p \in IndexPairs |-> Infinity]]
    <3>1. AbsentHasNoExpiration'
      BY <2>2 DEF AbsentHasNoExpiration, LayerIndex, IndexPairs, NodeIndex, Infinity
    <3>2. edges' \in [LayerIndex -> SUBSET IndexPairs] /\ edgeExpirations' \in [LayerIndex -> [IndexPairs -> Int]]
      BY <2>2 DEF Infinity
    <3>3. \A l \in LayerIndex : \A p \in edges'[l] : p[1] < numValidNodes' /\ p[2] < numValidNodes'
      BY <2>2
    <3>4. QED BY <3>1, <3>2, <3>3, Zenon DEF EdgesOK, LayerIndex, IndexPairs, NodeIndex
  <2>3. QED BY <1>2, <2>1, <2>2
<1>7. LabelsOK'
  <2>1. CASE UNCHANGED labels
    BY <1>1, <2>1 DEF IInv, LabelsOK, LabelsOfThisDirection
  <2>2. CASE labels' = [l \in LayerIndex |-> [place \in Places |-> {}]]
    <3>1. labels' \in [LayerIndex -> [Places -> SUBSET Shownables]]
      BY <2>2
    <3>2. LabelsOfThisDirection'
      BY <2>2 DEF LabelsOfThisDirection, LayerIndex, Places, IndexPairs, NodeIndex, Floating
    <3>3. QED BY <3>1, <3>2, Zenon DEF LabelsOK, Shownables, LayerIndex, Places, IndexPairs, NodeIndex, Floating
  <2>3. QED BY <1>3, <2>1, <2>2
<1>8. QED BY <1>1, <1>4, <1>5, <1>6, <1>7 DEF IInv

\* A program that has called exit() changes nothing more.
LEMMA ExitStep ==
  ASSUME IInv, NEW m \in Messages, Exit(m)
  PROVE  IInv'
<1>1. LayersOK' /\ LayersGrow
  BY NoLayersStep DEF IInv, Exit, NoNewLayer, indexVars
<1>2. QED BY <1>1, QuietStep DEF Exit, indexVars

\* Every step of the graph keeps the inductive invariant.
LEMMA NextIInv == IInv /\ [Next]_vars => IInv'
<1> SUFFICES ASSUME IInv, [Next]_vars PROVE IInv'
  OBVIOUS
<1>1. CASE \E m \in Messages : updateGraph(m)
  BY <1>1, NeighborsStep, EdgeStep, LabelStep, NodeStep, ExitStep DEF updateGraph
<1>2. CASE \E now \in Times : doMaintanence(now)
  BY <1>2, MaintenanceStep
<1>3. CASE \E forward \in BOOLEAN : setTimeDirectionForward(forward)
  BY <1>3, TurnStep
<1>4. CASE viewClears
  BY <1>4, ClearStep
<1>5. CASE \E l \in LayerNames : layerToggle(l)
  BY <1>5, ToggleStep
<1>6. CASE UNCHANGED vars
  <2>1. LayersOK' /\ LayersGrow
    BY <1>6, NoLayersStep DEF IInv, vars, NoNewLayer, indexVars
  <2>2. QED BY <1>6, <2>1, QuietStep DEF IInv, vars, indexVars
<1>7. QED BY <1>1, <1>2, <1>3, <1>4, <1>5, <1>6 DEF Next

(* The indices of nodes and layers, the two matrices of every layer and    *)
(* the labels stay in order, for any messages in any order.                *)
THEOREM Invariance == Spec => []IInv
BY InitIInv, NextIInv, PTL DEF Spec

\* Type correctness: no index exceeds its array.
THEOREM TypeCorrectness == Spec => []TypeOK
BY Invariance, IInvIsInvariants, PTL

(* Names and indices agree, for nodes and for layers, and every edge is    *)
(* between nodes that have names.                                          *)
THEOREM IndicesAgree == Spec => []IndexesAgree
BY Invariance, IInvIsInvariants, PTL

(* An edge that is gone leaves no expiration behind, whichever way it      *)
(* went.                                                                   *)
THEOREM NothingLeftOfAnEdge == Spec => []AbsentHasNoExpiration
BY Invariance, IInvIsInvariants, PTL

\* All labels are of the direction time runs in, and one per text and place.
THEOREM LabelsAgreeWithTime == Spec => []LabelsOfThisDirection
BY Invariance, IInvIsInvariants, PTL

-----------------------------------------------------------------------------
(* The refinement.  What a step does in terms of indices is followed back  *)
(* to names: giving out indices changes no edge's name.                    *)
LifeIn(l) == [p \in Live(l) |-> edgeExpirations[layerIndexMap[l]][Ix(p)]]

\* The life of edges, layer by layer.
LEMMA LifeByLayer ==
  /\ Life = [l \in LayerNames |-> LifeIn(l)]
  /\ Life' = [l \in LayerNames |-> LifeIn(l)']
BY DEF Life, LifeIn

\* Two layers have two slots.
LEMMA OtherSlot ==
  ASSUME LayersOK', NEW k \in LayerNames, NEW l \in LayerNames, k # l, layerIndexMap'[k] # NoIndex
  PROVE  layerIndexMap'[k] # layerIndexMap'[l]
BY DEF LayersOK, NoIndex

\* Edges are found in their layer under the indices of after the step as they were before it.
LEMMA Stable ==
  ASSUME IInv, NodesOK', LayersOK', NEW N, NodesGrow(N), LayersGrow,
         NEW l \in LayerNames, layerIndexMap'[l] # NoIndex
  PROVE  /\ layerIndexMap'[l] \in LayerIndex
         /\ \A p \in Nids \X Nids : Ix(p)' \in edges[layerIndexMap'[l]] <=> p \in Live(l)
         /\ \A p \in Live(l) : Ix(p)' = Ix(p) /\ layerIndexMap[l] = layerIndexMap'[l]
<1>1. layerIndexMap'[l] \in LayerIndex
  BY SlotOfLayer DEF LayersOK
<1>2. /\ edges[layerIndexMap'[l]] \subseteq IndexPairs
      /\ \A p \in edges[layerIndexMap'[l]] : p[1] < numValidNodes /\ p[2] < numValidNodes
  BY <1>1 DEF IInv, EdgesOK
<1>3. ASSUME NEW n \in Nids, nid2IndexMap'[n] \in NodeIndex, nid2IndexMap'[n] < numValidNodes
      PROVE  nid2IndexMap'[n] = nid2IndexMap[n]
  <2>1. nid2IndexMap'[n] \in 0 .. numValidNodes - 1
    BY <1>3 DEF NodeIndex, IInv, NodesOK
  <2>2. QED BY <2>1 DEF NodesGrow
<1>4. ASSUME NEW p \in Nids \X Nids, Ix(p)' \in edges[layerIndexMap'[l]]
      PROVE  p \in Live(l)
  <2>1. Ix(p)' = <<nid2IndexMap'[p[1]], nid2IndexMap'[p[2]]>>
    BY DEF Ix
  <2>2. /\ nid2IndexMap'[p[1]] \in NodeIndex /\ nid2IndexMap'[p[1]] < numValidNodes
        /\ nid2IndexMap'[p[2]] \in NodeIndex /\ nid2IndexMap'[p[2]] < numValidNodes
    BY <2>1, <1>2, <1>4 DEF IndexPairs
  <2>3. Ix(p)' = Ix(p)
    BY <2>1, <2>2, <1>3 DEF Ix
  <2>4. layerIndexMap[l] # NoIndex
    <3>1. SUFFICES ASSUME layerIndexMap[l] = NoIndex PROVE FALSE
      OBVIOUS
    <3>2. layerIndexMap'[l] \notin 1 .. numValidLayers - 1
      BY <3>1 DEF LayersGrow, IInv, LayersOK
    <3>3. edges[layerIndexMap'[l]] = {}
      BY <3>2, <1>1, <1>2 DEF IInv, EdgesOK, AbsentHasNoExpiration
    <3>4. QED BY <3>3, <1>4
  <2>5. layerIndexMap'[l] = layerIndexMap[l]
    BY <2>4 DEF LayersGrow
  <2>6. QED BY <2>3, <2>4, <2>5, <1>4 DEF Live
<1>5. ASSUME NEW p \in Live(l)
      PROVE  /\ p \in Nids \X Nids /\ Ix(p)' = Ix(p) /\ layerIndexMap[l] = layerIndexMap'[l]
             /\ Ix(p)' \in edges[layerIndexMap'[l]]
  <2>1. p \in Nids \X Nids /\ layerIndexMap[l] # NoIndex /\ Ix(p) \in edges[layerIndexMap[l]]
    BY DEF Live
  <2>2. layerIndexMap[l] = layerIndexMap'[l]
    BY <2>1 DEF LayersGrow
  <2>3. Ix(p) \in IndexPairs
    BY <2>1, <2>2, <1>2
  <2>4. nid2IndexMap[p[1]] # NoIndex /\ nid2IndexMap[p[2]] # NoIndex
    BY <2>3 DEF Ix, IndexPairs, NodeIndex, NoIndex
  <2>5. nid2IndexMap'[p[1]] = nid2IndexMap[p[1]] /\ nid2IndexMap'[p[2]] = nid2IndexMap[p[2]]
    BY <2>1, <2>4 DEF NodesGrow
  <2>6. QED BY <2>1, <2>2, <2>5 DEF Ix
<1>6. QED BY <1>1, <1>4, <1>5

\* The edges of a layer live on as they did while its matrices stay as they are.
LEMMA LifeKept ==
  ASSUME IInv, NodesOK', LayersOK', NEW N, NodesGrow(N), LayersGrow, NEW l \in LayerNames,
         layerIndexMap'[l] # NoIndex =>
           /\ edges'[layerIndexMap'[l]] = edges[layerIndexMap'[l]]
           /\ edgeExpirations'[layerIndexMap'[l]] = edgeExpirations[layerIndexMap'[l]]
  PROVE  LifeIn(l)' = LifeIn(l)
<1>1. CASE layerIndexMap'[l] = NoIndex
  <2>1. layerIndexMap[l] = NoIndex
    BY <1>1 DEF LayersGrow
  <2>2. Live(l)' = {} /\ Live(l) = {}
    BY <1>1, <2>1 DEF Live, NoIndex
  <2>3. QED BY <2>2 DEF LifeIn
<1>2. CASE layerIndexMap'[l] # NoIndex
  <2>1. /\ \A p \in Nids \X Nids : Ix(p)' \in edges[layerIndexMap'[l]] <=> p \in Live(l)
        /\ \A p \in Live(l) : Ix(p)' = Ix(p) /\ layerIndexMap[l] = layerIndexMap'[l]
    BY <1>2, Stable
  <2>2. Live(l)' = {p \in Nids \X Nids : Ix(p)' \in edges'[layerIndexMap'[l]]}
    BY <1>2 DEF Live, NoIndex
  <2>3. Live(l) \subseteq Nids \X Nids
    BY DEF Live
  <2>4. Live(l)' = Live(l)
    BY <2>1, <2>2, <2>3, <1>2
  <2>5. LifeIn(l)' = [p \in Live(l)' |-> edgeExpirations'[layerIndexMap'[l]][Ix(p)']]
    BY DEF LifeIn
  <2>6. QED BY <2>1, <2>4, <2>5, <1>2 DEF LifeIn
<1>3. QED BY <1>1, <1>2

\* No edge's life changes while the matrices stay as they are.
LEMMA QuietStutters ==
  ASSUME IInv, NodesOK', LayersOK', NEW N, NodesGrow(N), LayersGrow, UNCHANGED <<edges, edgeExpirations>>
  PROVE  Life' = Life
<1>1. \A l \in LayerNames : LifeIn(l)' = LifeIn(l)
  BY LifeKept
<1>2. QED BY <1>1, LifeByLayer

\* A message that changes one layer gives its edges new lives and leaves those of the others.
LEMMA OneLayerChanges ==
  ASSUME IInv, NodesOK', LayersOK', NEW N, NodesGrow(N), LayersGrow,
         NEW k \in LayerNames, layerIndexMap'[k] # NoIndex,
         \A i \in LayerIndex : i # layerIndexMap'[k] =>
           edges'[i] = edges[i] /\ edgeExpirations'[i] = edgeExpirations[i]
  PROVE  Life' = [Life EXCEPT ![k] = LifeIn(k)']
<1>1. ASSUME NEW l \in LayerNames, l # k
      PROVE  LifeIn(l)' = LifeIn(l)
  <2>1. layerIndexMap'[l] # NoIndex => layerIndexMap'[l] \in LayerIndex /\ layerIndexMap'[l] # layerIndexMap'[k]
    BY <1>1, OtherSlot, SlotOfLayer DEF LayersOK
  <2>2. QED BY <2>1, LifeKept
<1>2. QED BY <1>1, LifeByLayer

\* addNodeNeighbors makes the neighbours of a node those it names.
LEMMA NeighborsImplements ==
  ASSUME IInv, NEW m \in Messages, addNodeNeighbors(m)
  PROVE  Lifetime!Neighbors(m.layer, m.from, m.neighbors)
<1> DEFINE k == m.layer
           i == layerIndexMap'[k]
           row == {nid2IndexMap'[m.from]} \X NodeIndex
           P == {m.from} \X m.neighbors
<1>0. /\ NodesOK' /\ NodesGrow(NodesOf(m)) /\ LayersOK' /\ LayersGrow
      /\ i \in 1 .. numValidLayers' - 1 /\ timeForward' = timeForward
  BY IndicesStep DEF addNodeNeighbors, LayersOf
<1>1. m.layer \in LayerNames /\ m.from \in Nids /\ m.neighbors \subseteq Nids /\ m.type = "connectivity"
  BY MessageFields DEF addNodeNeighbors
<1>2. P \in SUBSET (Nids \X Nids) /\ \A p \in P : p[1] \in NodesOf(m) /\ p[2] \in NodesOf(m)
  BY <1>1 DEF NodesOf
<1>3. Index(P) \subseteq IndexPairs /\ \A p \in Nids \X Nids : Ix(p)' \in Index(P) <=> p \in P
  BY <1>0, <1>2, IndexOf
<1>4. i # NoIndex
  BY <1>0 DEF NoIndex, LayersOK
<1>5. /\ i \in LayerIndex
      /\ \A p \in Nids \X Nids : Ix(p)' \in edges[i] <=> p \in Live(k)
      /\ \A p \in Live(k) : Ix(p)' = Ix(p) /\ layerIndexMap[k] = i
  BY <1>0, <1>1, <1>4, Stable
<1>6. ASSUME NEW p \in Nids \X Nids, Ix(p)' \in IndexPairs
      PROVE  Ix(p)' \in row <=> p[1] = m.from
  <2>1. Ix(p)' = <<nid2IndexMap'[p[1]], nid2IndexMap'[p[2]]>> /\ nid2IndexMap'[p[2]] \in NodeIndex
    BY <1>6 DEF Ix, IndexPairs
  <2>2. nid2IndexMap'[p[1]] # NoIndex
    BY <1>6, <2>1 DEF IndexPairs, NodeIndex, NoIndex
  <2>3. nid2IndexMap'[p[1]] = nid2IndexMap'[m.from] => p[1] = m.from
    BY <2>2, <1>0, <1>1 DEF NodesOK, NoIndex
  <2>4. QED BY <2>1, <2>3
<1>7. /\ edges'[i] = (edges[i] \ row) \union Index(P)
      /\ edgeExpirations'[i] = [p \in IndexPairs |-> IF p \in row THEN Infinity ELSE edgeExpirations[i][p]]
      /\ \A j \in LayerIndex : j # i => edges'[j] = edges[j] /\ edgeExpirations'[j] = edgeExpirations[j]
  BY <1>5 DEF addNodeNeighbors, IInv, EdgesOK
<1>8. edges[i] \subseteq IndexPairs
  BY <1>5 DEF IInv, EdgesOK
<1> HIDE DEF row, P
<1>9. ASSUME NEW p
      PROVE  p \in Live(k)' <=> p \in (Live(k) \ ({m.from} \X Nids)) \union P
  <2>1. p \in Live(k)' <=> p \in Nids \X Nids /\ Ix(p)' \in edges'[i]
    BY <1>4 DEF Live, NoIndex
  <2>2. CASE p \notin Nids \X Nids
    BY <2>1, <2>2, <1>2 DEF Live
  <2>3. CASE p \in Nids \X Nids
    <3>1. Ix(p)' \in edges[i] => (Ix(p)' \in row <=> p[1] = m.from)
      BY <2>3, <1>6, <1>8
    <3>2. p \in {m.from} \X Nids <=> p[1] = m.from
      BY <2>3
    <3>3. QED BY <2>1, <2>3, <3>1, <3>2, <1>3, <1>5, <1>7
  <2>4. QED BY <2>2, <2>3
<1>10. ASSUME NEW p \in Live(k)'
       PROVE  edgeExpirations'[i][Ix(p)'] = IF p[1] = m.from THEN Infinity ELSE LifeIn(k)[p]
  <2>1. p \in Nids \X Nids /\ Ix(p)' \in edges'[i]
    BY <1>4 DEF Live, NoIndex
  <2>2. Ix(p)' \in IndexPairs
    BY <2>1, <1>3, <1>7, <1>8
  <2>3. CASE p[1] = m.from
    BY <2>1, <2>2, <2>3, <1>6, <1>7
  <2>4. CASE p[1] # m.from
    <3>1. edgeExpirations'[i][Ix(p)'] = edgeExpirations[i][Ix(p)']
      BY <2>1, <2>2, <2>4, <1>6, <1>7
    <3>2. p \in Live(k)
      BY <2>4, <1>9 DEF P
    <3>3. QED BY <2>4, <3>1, <3>2, <1>5 DEF LifeIn
  <2>5. QED BY <2>3, <2>4
<1>11. LifeIn(k)' = [p \in (Live(k) \ ({m.from} \X Nids)) \union P |->
                      IF p[1] = m.from THEN Infinity ELSE LifeIn(k)[p]]
  <2>1. LifeIn(k)' = [p \in Live(k)' |-> edgeExpirations'[i][Ix(p)']]
    BY DEF LifeIn
  <2>2. Live(k)' = (Live(k) \ ({m.from} \X Nids)) \union P
    BY <1>9
  <2>3. QED BY <2>1, <2>2, <1>10
<1>12. Life' = [Life EXCEPT ![k] = LifeIn(k)']
  BY <1>0, <1>1, <1>4, <1>7, OneLayerChanges
<1>13. Life[k] = LifeIn(k) /\ DOMAIN LifeIn(k) = Live(k)
  BY <1>1, LifeByLayer DEF LifeIn
<1>14. QED BY <1>0, <1>11, <1>12, <1>13 DEF Lifetime!Neighbors, P

\* addEdge gives lives to the edges it names, or takes them, whatever else the layer has.
LEMMA EdgeImplements ==
  ASSUME IInv, NEW m \in Messages, addEdge(m)
  PROVE  IF m.add THEN Lifetime!Add(m.layer, m.edge, Expiration(m.timestamp, m.lifetime))
         ELSE Lifetime!Remove(m.layer, m.edge)
<1> DEFINE k == m.layer
           i == layerIndexMap'[k]
           end == Expiration(m.timestamp, m.lifetime)
<1>0. /\ NodesOK' /\ NodesGrow(NodesOf(m)) /\ LayersOK' /\ LayersGrow
      /\ i \in 1 .. numValidLayers' - 1 /\ timeForward' = timeForward
  BY IndicesStep DEF addEdge, LayersOf
<1>1. m.type = "edge" /\ m.layer \in LayerNames /\ m.timestamp \in Times /\ m.lifetime \in Lifetimes
  BY MessageFields DEF addEdge
<1>2. m.edge \in SUBSET (Nids \X Nids) /\ \A p \in m.edge : p[1] \in NodesOf(m) /\ p[2] \in NodesOf(m)
  BY <1>1, EdgeNodes
<1>3. Index(m.edge) \subseteq IndexPairs /\ \A p \in Nids \X Nids : Ix(p)' \in Index(m.edge) <=> p \in m.edge
  BY <1>0, <1>2, IndexOf
<1>4. i # NoIndex
  BY <1>0 DEF NoIndex, LayersOK
<1>5. /\ i \in LayerIndex
      /\ \A p \in Nids \X Nids : Ix(p)' \in edges[i] <=> p \in Live(k)
      /\ \A p \in Live(k) : Ix(p)' = Ix(p) /\ layerIndexMap[k] = i
  BY <1>0, <1>1, <1>4, Stable
<1>6. /\ edges'[i] = IF m.add THEN edges[i] \union Index(m.edge) ELSE edges[i] \ Index(m.edge)
      /\ \A p \in IndexPairs : edgeExpirations'[i][p] =
            IF p \notin Index(m.edge) THEN edgeExpirations[i][p]
            ELSE IF ~ m.add THEN Infinity
            ELSE IF m.lifetime = Infinity THEN edgeExpirations[i][p] ELSE end
      /\ \A j \in LayerIndex : j # i => edges'[j] = edges[j] /\ edgeExpirations'[j] = edgeExpirations[j]
  BY <1>5 DEF addEdge, IInv, EdgesOK
<1>7. edges[i] \subseteq IndexPairs /\ \A p \in IndexPairs : p \notin edges[i] => edgeExpirations[i][p] = Infinity
  BY <1>5 DEF IInv, EdgesOK, AbsentHasNoExpiration
<1>8. m.lifetime = Infinity <=> end = Infinity
  <2>1. /\ m.timestamp \in Nat /\ m.lifetime \in Nat \union {Infinity} /\ m.lifetime <= m.timestamp
        /\ timeForward \in BOOLEAN
    BY <1>1, GraphAssumption DEF GraphAssumption, IInv
  <2>2. QED BY <2>1 DEF Expiration, Infinity
<1> HIDE DEF end
<1>9. \A p : p \in Live(k)' <=> p \in Nids \X Nids /\ Ix(p)' \in edges'[i]
  BY <1>4 DEF Live, NoIndex
<1>10. LifeIn(k)' = [p \in Live(k)' |-> edgeExpirations'[i][Ix(p)']]
  BY DEF LifeIn
<1>11. \A p \in Live(k)' : p \in Nids \X Nids /\ Ix(p)' \in IndexPairs
  BY <1>3, <1>6, <1>7, <1>9
<1>12. \A p \in Live(k) : LifeIn(k)[p] = edgeExpirations[i][Ix(p)'] /\ p \in Nids \X Nids
  BY <1>5 DEF LifeIn, Live
<1>13. Life' = [Life EXCEPT ![k] = LifeIn(k)']
  BY <1>0, <1>1, <1>4, <1>6, OneLayerChanges
<1>14. Life[k] = LifeIn(k) /\ DOMAIN LifeIn(k) = Live(k)
  BY <1>1, LifeByLayer DEF LifeIn
<1>15. CASE m.add
  <2>1. Live(k)' = Live(k) \union m.edge
    BY <1>15, <1>2, <1>3, <1>5, <1>6, <1>9, <1>12
  <2>2. ASSUME NEW p \in Live(k)'
        PROVE  edgeExpirations'[i][Ix(p)'] =
                 IF p \in m.edge /\ (end # Infinity \/ p \notin Live(k)) THEN end ELSE LifeIn(k)[p]
    <3>1. p \in Nids \X Nids /\ Ix(p)' \in IndexPairs
      BY <1>11
    <3>2. CASE p \notin m.edge
      BY <3>1, <3>2, <2>1, <1>3, <1>6, <1>12
    <3>3. CASE p \in m.edge /\ end # Infinity
      BY <3>1, <3>3, <1>3, <1>6, <1>8, <1>15
    <3>4. CASE p \in m.edge /\ end = Infinity /\ p \in Live(k)
      BY <3>1, <3>4, <1>3, <1>6, <1>8, <1>15, <1>12
    <3>5. CASE p \in m.edge /\ end = Infinity /\ p \notin Live(k)
      BY <3>1, <3>5, <1>3, <1>5, <1>6, <1>7, <1>8, <1>15
    <3>6. QED BY <3>2, <3>3, <3>4, <3>5
  <2>3. LifeIn(k)' = [p \in Live(k) \union m.edge |->
          IF p \in m.edge /\ (end # Infinity \/ p \notin Live(k)) THEN end ELSE LifeIn(k)[p]]
    BY <2>1, <2>2, <1>10
  <2>4. Lifetime!Add(k, m.edge, end)
    BY <2>3, <1>0, <1>13, <1>14 DEF Lifetime!Add
  <2>5. QED BY <2>4, <1>15 DEF end
<1>16. CASE ~ m.add
  <2>1. Live(k)' = Live(k) \ m.edge
    BY <1>16, <1>3, <1>5, <1>6, <1>9, <1>12
  <2>2. \A p \in Live(k)' : edgeExpirations'[i][Ix(p)'] = LifeIn(k)[p]
    BY <2>1, <1>3, <1>6, <1>11, <1>12
  <2>3. Live(k) \cap ((Nids \X Nids) \ m.edge) = Live(k) \ m.edge
    BY <1>12
  <2>4. LifeIn(k)' = [p \in Live(k) \cap ((Nids \X Nids) \ m.edge) |-> LifeIn(k)[p]]
    BY <2>1, <2>2, <2>3, <1>10
  <2>5. Lifetime!Remove(k, m.edge)
    BY <2>4, <1>0, <1>13, <1>14 DEF Lifetime!Remove, Lifetime!Keep, Lifetime!Pairs
  <2>6. QED BY <2>5, <1>16
<1>17. QED BY <1>15, <1>16

\* doMaintanence ends the lives that are over, in the layers that are active.
LEMMA MaintenanceImplements ==
  ASSUME IInv, NEW now \in Times, doMaintanence(now)
  PROVE  \E L \in SUBSET LayerNames : Lifetime!Expire(L, now)
<1> DEFINE over(j) == IF j \in isActive THEN {p \in edges[j] : Expired(now, edgeExpirations[j][p])} ELSE {}
           L == {l \in LayerNames : layerIndexMap[l] # NoIndex /\ layerIndexMap[l] \in isActive}
<1>1. /\ \A j \in LayerIndex : edges'[j] = edges[j] \ over(j)
      /\ \A j \in LayerIndex, p \in IndexPairs : p \notin over(j) => edgeExpirations'[j][p] = edgeExpirations[j][p]
      /\ UNCHANGED <<nid2IndexMap, layerIndexMap, timeForward>>
  BY DEF doMaintanence, indexVars
<1>2. ASSUME NEW l \in LayerNames
      PROVE  LifeIn(l)' = IF l \in L
                          THEN [p \in Live(l) \cap {q \in Live(l) : ~ Lifetime!Over(now, LifeIn(l)[q])} |-> LifeIn(l)[p]]
                          ELSE LifeIn(l)
  <2>0. \A p : Ix(p)' = Ix(p)
    BY <1>1 DEF Ix
  <2>1. LifeIn(l)' = [p \in Live(l)' |-> edgeExpirations'[layerIndexMap[l]][Ix(p)]]
    BY <2>0, <1>1 DEF LifeIn
  <2>2. CASE layerIndexMap[l] = NoIndex
    <3>1. Live(l) = {} /\ Live(l)' = {} /\ l \notin L
      BY <2>2, <1>1 DEF Live, NoIndex
    <3>2. QED BY <3>1, <2>1 DEF LifeIn
  <2>3. CASE layerIndexMap[l] # NoIndex
    <3> DEFINE j == layerIndexMap[l]
    <3>1. j \in LayerIndex
      BY <2>3 DEF IInv, LayersOK
    <3>2. edges[j] \subseteq IndexPairs
      BY <3>1 DEF IInv, EdgesOK
    <3>3. Live(l) = {p \in Nids \X Nids : Ix(p) \in edges[j]}
      BY <2>3 DEF Live
    <3>4. Live(l)' = {p \in Nids \X Nids : Ix(p) \in edges[j] \ over(j)}
      BY <2>3, <2>0, <3>1, <1>1 DEF Live, NoIndex
    <3>5. \A p \in Live(l)' : edgeExpirations'[j][Ix(p)] = edgeExpirations[j][Ix(p)]
      BY <3>1, <3>2, <3>4, <1>1
    <3>6. \A p \in Live(l) : LifeIn(l)[p] = edgeExpirations[j][Ix(p)]
      BY DEF LifeIn
    <3>7. CASE l \in L
      <4>1. j \in isActive
        BY <3>7
      <4>2. \A p \in Live(l) : Ix(p) \in over(j) <=> Lifetime!Over(now, LifeIn(l)[p])
        BY <4>1, <3>3, <3>6 DEF Lifetime!Over, Expired
      <4>3. Live(l)' = Live(l) \cap {q \in Live(l) : ~ Lifetime!Over(now, LifeIn(l)[q])}
        BY <4>2, <3>3, <3>4
      <4>4. \A p \in Live(l)' : edgeExpirations'[j][Ix(p)] = LifeIn(l)[p]
        BY <3>5, <3>6, <4>3
      <4>5. QED BY <3>7, <4>3, <4>4, <2>1
    <3>8. CASE l \notin L
      <4>1. over(j) = {}
        BY <3>8, <2>3
      <4>2. Live(l)' = Live(l)
        BY <4>1, <3>3, <3>4
      <4>3. QED BY <3>8, <4>2, <3>5, <2>1 DEF LifeIn
    <3>9. QED BY <3>7, <3>8
  <2>4. QED BY <2>2, <2>3
<1>3. L \in SUBSET LayerNames
  OBVIOUS
<1> HIDE DEF L
<1>4. \A l \in LayerNames : Life[l] = LifeIn(l) /\ DOMAIN Life[l] = Live(l)
  BY LifeByLayer DEF LifeIn
<1>5. Life' = [l \in LayerNames |-> IF l \in L
                 THEN [p \in Live(l) \cap {q \in Live(l) : ~ Lifetime!Over(now, LifeIn(l)[q])} |-> LifeIn(l)[p]]
                 ELSE LifeIn(l)]
  BY <1>2, LifeByLayer
<1>6. Life' = [l \in LayerNames |-> IF l \in L
                 THEN Lifetime!Keep(Life[l], {p \in DOMAIN Life[l] : ~ Lifetime!Over(now, Life[l][p])})
                 ELSE Life[l]]
  BY <1>4, <1>5 DEF Lifetime!Keep
<1>7. QED BY <1>1, <1>3, <1>6 DEF Lifetime!Expire

\* A change of direction ends all lives.
LEMMA TurnImplements ==
  ASSUME IInv, NEW f \in BOOLEAN, setTimeDirectionForward(f)
  PROVE  Lifetime!Turn
<1>1. /\ \A j \in LayerIndex : edges'[j] = {}
      /\ UNCHANGED <<nid2IndexMap, layerIndexMap>> /\ timeForward' = ~ timeForward
  BY DEF setTimeDirectionForward, clear, WithoutEdges, NoEdges, indexVars, IInv
<1>2. ASSUME NEW l \in LayerNames
      PROVE  LifeIn(l)' = [p \in {} |-> Infinity]
  <2>1. Live(l)' = {}
    BY <1>1 DEF Live, IInv, LayersOK, NoIndex
  <2>2. QED BY <2>1 DEF LifeIn
<1>3. QED BY <1>1, <1>2, LifeByLayer DEF Lifetime!Turn, Lifetime!None

\* Clearing the view ends all lives too, or clears no edges.
LEMMA ClearImplements ==
  ASSUME IInv, viewClears
  PROVE  Lifetime!Clear \/ (Life' = Life /\ timeForward' = timeForward)
<1>1. UNCHANGED <<nid2IndexMap, layerIndexMap, timeForward>>
  BY DEF viewClears, indexVars
<1>2. (\A j \in LayerIndex : edges'[j] = {}) \/ UNCHANGED <<edges, edgeExpirations>>
  BY DEF viewClears, clearAll, clearAllEdges, clearAllLabels, clear, WithoutEdges, NoEdges
<1>3. CASE UNCHANGED <<edges, edgeExpirations>>
  BY <1>1, <1>3 DEF Life, Live, Ix
<1>4. CASE \A j \in LayerIndex : edges'[j] = {}
  <2>1. ASSUME NEW l \in LayerNames
        PROVE  LifeIn(l)' = [p \in {} |-> Infinity]
    <3>1. Live(l)' = {}
      BY <1>1, <1>4 DEF Live, IInv, LayersOK, NoIndex
    <3>2. QED BY <3>1 DEF LifeIn
  <2>2. QED BY <1>1, <2>1, LifeByLayer DEF Lifetime!Clear, Lifetime!None
<1>5. QED BY <1>2, <1>3, <1>4

\* An empty graph has no edges that live.
LEMMA InitImplements == Init => Lifetime!EdgesInit
<1> SUFFICES ASSUME Init PROVE Lifetime!EdgesInit
  OBVIOUS
<1>1. ASSUME NEW l \in LayerNames
      PROVE  LifeIn(l) = [p \in {} |-> Infinity]
  <2>1. Live(l) = {}
    BY DEF Init, Live, NoIndex
  <2>2. QED BY <2>1 DEF LifeIn
<1>2. QED BY <1>1, LifeByLayer DEF Init, Lifetime!EdgesInit, Lifetime!None

\* Every step of the graph is one of the edges' lives, or changes none of them.
LEMMA NextImplements == IInv /\ [Next]_vars => [Lifetime!EdgesNext]_<<Life, timeForward>>
<1> SUFFICES ASSUME IInv, [Next]_vars PROVE Lifetime!EdgesNext \/ (Life' = Life /\ timeForward' = timeForward)
  OBVIOUS
<1>1. ASSUME NEW m \in Messages, addNodeNeighbors(m)
      PROVE  Lifetime!EdgesNext
  <2>1. m.layer \in LayerNames /\ m.from \in Nids /\ m.neighbors \in SUBSET Nids
    BY <1>1, MessageFields DEF addNodeNeighbors
  <2>2. QED BY <1>1, <2>1, NeighborsImplements DEF Lifetime!EdgesNext
<1>2. ASSUME NEW m \in Messages, addEdge(m)
      PROVE  Lifetime!EdgesNext
  <2>1. m.layer \in LayerNames /\ m.edge \in Lifetime!Edges /\ m.timestamp \in Times /\ m.lifetime \in Lifetimes
    BY <1>2, MessageFields DEF addEdge, Edges, Lifetime!Edges, Lifetime!Pairs
  <2>2. Expiration(m.timestamp, m.lifetime) \in Lifetime!Ends
    BY <2>1 DEF Lifetime!Ends, Lifetime!End, Expiration
  <2>3. QED BY <1>2, <2>1, <2>2, EdgeImplements DEF Lifetime!EdgesNext
<1>3. ASSUME NEW m \in Messages, addRemoveLabel(m) \/ updateNode(m)
      PROVE  Life' = Life /\ timeForward' = timeForward
  <2>1. /\ Indices(m) /\ UNCHANGED <<edges, edgeExpirations>>
    BY <1>3 DEF addRemoveLabel, updateNode
  <2>2. NodesOK' /\ NodesGrow(NodesOf(m)) /\ LayersOK' /\ LayersGrow /\ timeForward' = timeForward
    BY <2>1, IndicesStep
  <2>3. QED BY <2>1, <2>2, QuietStutters
<1>4. ASSUME NEW m \in Messages, Exit(m)
      PROVE  Life' = Life /\ timeForward' = timeForward
  BY <1>4 DEF Exit, indexVars, Life, Live, Ix
<1>5. ASSUME NEW now \in Times, doMaintanence(now)
      PROVE  Lifetime!EdgesNext
  BY <1>5, MaintenanceImplements DEF Lifetime!EdgesNext
<1>6. ASSUME NEW f \in BOOLEAN, setTimeDirectionForward(f)
      PROVE  Lifetime!EdgesNext
  BY <1>6, TurnImplements DEF Lifetime!EdgesNext
<1>7. ASSUME NEW l \in LayerNames, layerToggle(l)
      PROVE  Life' = Life /\ timeForward' = timeForward
  <2>1. NoNewNode /\ UNCHANGED <<edges, edgeExpirations, timeForward>>
    BY <1>7 DEF layerToggle
  <2>2. NodesOK' /\ NodesGrow({})
    BY <2>1, NoNodesStep DEF IInv
  <2>3. LayersOK' 
    BY <1>7, ToggleStep DEF IInv
  <2>4. LayersGrow
    <3>1. CASE IsNewLayer(l)
      BY <1>7, <3>1, LayersStep DEF layerToggle, IInv
    <3>2. CASE ~ IsNewLayer(l)
      BY <1>7, <3>2 DEF layerToggle, IInv, LayersOK, LayersGrow, NoIndex
    <3>3. QED BY <3>1, <3>2
  <2>5. QED BY <2>1, <2>2, <2>3, <2>4, QuietStutters
<1>8. CASE viewClears
  BY <1>8, ClearImplements DEF Lifetime!EdgesNext
<1>9. CASE UNCHANGED vars
  BY <1>9 DEF vars, indexVars, Life, Live, Ix
<1>10. QED BY <1>1, <1>2, <1>3, <1>4, <1>5, <1>6, <1>7, <1>8, <1>9 DEF Next, updateGraph

(* The graph implements the lives of its edges: which edges there are, and *)
(* until when, does not depend on the order in which nodes and layers were *)
(* first heard of, and no step loses or invents one.                       *)
THEOREM Refinement == Spec => ImplementsEdges
<1>1. Spec => Lifetime!EdgesInit /\ [][Lifetime!EdgesNext]_<<Life, timeForward>>
  BY Invariance, InitImplements, NextImplements, PTL DEF Spec
<1>2. QED BY <1>1 DEF ImplementsEdges, Lifetime!EdgesSpec
=============================================================================
