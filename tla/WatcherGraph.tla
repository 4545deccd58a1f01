----------------------------- MODULE WatcherGraph -----------------------------
(***************************************************************************)
(* The graph the clients build from the messages they receive, one message *)
(* at a time (watcherGraph.cpp, watcherLayerData.cpp).  Nodes and layers   *)
(* get indices as they are first heard of; the edges of a layer are in one *)
(* matrix and the times at which they expire in another.  What only is     *)
(* drawn (colours, positions, shapes) is left out.                         *)
(***************************************************************************)
EXTENDS Integers, FiniteSets, Functions

CONSTANTS
  Nids,           \* the addresses of nodes
  LayerNames,
  Physical,       \* PHYSICAL_LAYER
  Texts,          \* the texts of labels
  MaxNumNodes,
  MaxNumLayers,
  Times,          \* the timestamps of messages and of maintenance
  Lifetimes,      \* how long edges and labels are to live, Infinity among them
  Messages        \* the messages that may arrive

Infinity == -1
NoIndex == -1

(* An edge message is about one edge or, if it is bidirectional, about two *)
(* opposite ones.  Of the labels it may carry one is modelled, on the edge *)
(* or on one of its nodes.                                                 *)
Labels == [text : Texts, add : BOOLEAN, lifetime : Lifetimes]
Edges == {{p} : p \in Nids \X Nids} \union {{<<a, b>>, <<b, a>>} : a, b \in Nids}

AllMessages ==
  [type : {"connectivity"}, layer : LayerNames, from : Nids, neighbors : SUBSET Nids]
    \union [type : {"edge"}, layer : LayerNames, edge : Edges, add : BOOLEAN, timestamp : Times,
            lifetime : Lifetimes, where : {"none", "middle", "node1", "node2"}, label : Labels]
    \union [type : {"label"}, layer : LayerNames, from : Nids, floats : BOOLEAN,
            timestamp : Times, label : Labels]
    \union [type : {"gps", "color"}, from : Nids]
    \union [type : {"properties"}, layer : LayerNames, from : Nids]

ASSUME GraphAssumption ==
  /\ Physical \in LayerNames
  /\ MaxNumNodes \in Nat /\ MaxNumLayers \in Nat \ {0}
  /\ Times \subseteq Nat
  /\ Lifetimes \subseteq Nat \union {Infinity}
  /\ \A ts \in Times, e \in Lifetimes : e <= ts
  /\ Messages \subseteq AllMessages

VARIABLES
  nid2IndexMap, index2nidMap, numValidNodes,
  layerIndexMap, layerName, numValidLayers,
  isActive,          \* the active layers
  edges,             \* the edges of a layer
  edgeExpirations,
  labels,            \* the labels of a layer, at a node, at an edge or floating
  timeForward,
  exited             \* the program has called exit()

indexVars == <<nid2IndexMap, index2nidMap, numValidNodes, layerIndexMap, layerName, numValidLayers>>
vars == <<indexVars, isActive, edges, edgeExpirations, labels, timeForward, exited>>

NodeIndex == 0 .. MaxNumNodes - 1
LayerIndex == 0 .. MaxNumLayers - 1
IndexPairs == NodeIndex \X NodeIndex
Floating == <<>>
Places == {Floating} \union {<<n>> : n \in NodeIndex} \union IndexPairs

NoEdges == {}
NeverExpires == [p \in IndexPairs |-> Infinity]
NoLabels == [place \in Places |-> {}]

(* Layer 0 is the physical layer, but it is not in the map of the names.   *)
Init ==
  /\ nid2IndexMap = [n \in Nids |-> NoIndex]
  /\ index2nidMap = [i \in {} |-> NoIndex]
  /\ numValidNodes = 0
  /\ layerIndexMap = [l \in LayerNames |-> NoIndex]
  /\ layerName = [i \in {0} |-> Physical]
  /\ numValidLayers = 1
  /\ isActive = {0}
  /\ edges = [l \in LayerIndex |-> NoEdges]
  /\ edgeExpirations = [l \in LayerIndex |-> NeverExpires]
  /\ labels = [l \in LayerIndex |-> NoLabels]
  /\ timeForward = TRUE
  /\ exited = FALSE

-----------------------------------------------------------------------------
New(N) == {n \in N : nid2IndexMap[n] = NoIndex}

\* Mutant of nid2Index: a new node does not use up its index.
nid2Index_reused(N) ==
  /\ nid2IndexMap' = [n \in Nids |-> IF n \in New(N) THEN numValidNodes ELSE nid2IndexMap[n]]
  /\ index2nidMap' = [i \in DOMAIN index2nidMap \union (IF New(N) = {} THEN {} ELSE {numValidNodes}) |->
                        IF i \in DOMAIN index2nidMap THEN index2nidMap[i] ELSE CHOOSE n \in New(N) : TRUE]
  /\ numValidNodes' = numValidNodes + (IF New(N) = {} THEN 0 ELSE 1)

(* nid2Index() for the nodes N: those that are new get the next indices,   *)
(* in the order in which the message names them.                           *)
nid2Index(N) ==
  \E k \in numValidNodes .. MaxNumNodes :
    \E index \in Bijection(New(N), numValidNodes .. k - 1) :
      /\ nid2IndexMap' = [n \in Nids |-> IF n \in New(N) THEN index[n] ELSE nid2IndexMap[n]]
      /\ index2nidMap' = [i \in 0 .. k - 1 |->
                            IF i < numValidNodes THEN index2nidMap[i]
                            ELSE CHOOSE n \in New(N) : index[n] = i]
      /\ numValidNodes' = k

NoNewNode == UNCHANGED <<nid2IndexMap, index2nidMap, numValidNodes>>

IsNewLayer(l) == layerIndexMap[l] = NoIndex

(* name2LayerIndex(): a layer not in the map is initialised as the next.   *)
name2LayerIndex(l) ==
  IF IsNewLayer(l)
  THEN /\ layerIndexMap' = [layerIndexMap EXCEPT ![l] = numValidLayers]
       /\ layerName' = [i \in 0 .. numValidLayers |-> IF i = numValidLayers THEN l ELSE layerName[i]]
       /\ numValidLayers' = numValidLayers + 1
       /\ isActive' = isActive \union {numValidLayers}
  ELSE UNCHANGED <<layerIndexMap, layerName, numValidLayers, isActive>>

NoNewLayer == UNCHANGED <<layerIndexMap, layerName, numValidLayers, isActive>>

(* The nodes a message names, and its layer. *)
NodesOf(m) ==
  {n \in Nids :
     \/ m.type = "edge" /\ \E p \in m.edge : n \in {p[1], p[2]}
     \/ m.type = "connectivity" /\ n \in m.neighbors
     \/ m.type # "edge" /\ n = m.from /\ (m.type = "label" => ~ m.floats)}

LayersOf(m) == IF m.type \in {"gps", "color"} THEN {} ELSE {m.layer}

\* Mutant of Fits: the test for the last layer is off by one.
Fits_offByOne(N, L) ==
  /\ numValidNodes + Cardinality(New(N)) <= MaxNumNodes
  /\ numValidLayers + Cardinality({l \in L : IsNewLayer(l)}) <= MaxNumLayers + 1

(* The arrays have room for what a message names, or the program exits.    *)
Fits(N, L) ==
  /\ numValidNodes + Cardinality(New(N)) <= MaxNumNodes
  /\ numValidLayers + Cardinality({l \in L : IsNewLayer(l)}) <= MaxNumLayers

Exit(m) ==
  /\ ~ exited /\ ~ Fits(NodesOf(m), LayersOf(m))
  /\ exited' = TRUE
  /\ UNCHANGED <<indexVars, isActive, edges, edgeExpirations, labels, timeForward>>

(* Every handler finds the indices first, and makes those that are new.    *)
Indices(m) ==
  /\ ~ exited /\ Fits(NodesOf(m), LayersOf(m))
  /\ nid2Index(NodesOf(m))
  /\ IF LayersOf(m) = {} THEN NoNewLayer ELSE name2LayerIndex(m.layer)
  /\ UNCHANGED <<timeForward, exited>>

-----------------------------------------------------------------------------
Expiration(ts, lifetime) ==
  IF lifetime = Infinity THEN Infinity ELSE IF timeForward THEN ts + lifetime ELSE ts - lifetime

Expired(now, expiration) ==
  expiration # Infinity /\ IF timeForward THEN now > expiration ELSE now < expiration

Index(P) == {<<nid2IndexMap'[p[1]], nid2IndexMap'[p[2]]>> : p \in P}

(* addNodeNeighbors: the edges of the node are those to its neighbours.    *)
addNodeNeighbors(m) ==
  /\ m.type = "connectivity"
  /\ Indices(m)
  /\ LET i == layerIndexMap'[m.layer]
         row == {nid2IndexMap'[m.from]} \X NodeIndex
     IN /\ edges' = [edges EXCEPT ![i] = (@ \ row) \union Index({m.from} \X m.neighbors)]
        /\ edgeExpirations' = [edgeExpirations EXCEPT ![i] =
                                 [p \in IndexPairs |-> IF p \in row THEN Infinity ELSE @[p]]]
  /\ UNCHANGED labels

\* forward is the direction of time when the label came; only properties read it.
Shown(ts, label) ==
  [text |-> label.text, expiration |-> Expiration(ts, label.lifetime), forward |-> timeForward]

(* The labels are ordered by their text, and insert() leaves one that is   *)
(* there already as it is.                                                 *)
AddRemove(S, ts, label) ==
  LET same == {s \in S : s.text = label.text} IN
  IF label.add THEN IF same = {} THEN S \union {Shown(ts, label)} ELSE S ELSE S \ same

addRemoveAt(i, P, m) ==
  labels' = [labels EXCEPT ![i] = [place \in Places |->
    IF place \in P THEN AddRemove(@[place], m.timestamp, m.label) ELSE @[place]]]

(* Where the label of an edge message goes.  The code swaps the nodes for  *)
(* the way back, and so a label for one node goes to both.                 *)
LabelPlaces(m, E) ==
  {q \in E : m.where = "middle" /\ m.add}
    \union {<<q[1]>> : q \in {r \in E : m.where = "node1"}}
    \union {<<q[2]>> : q \in {r \in E : m.where = "node2"}}

\* Mutant of addEdge: a removed edge keeps its expiration.
addEdge_keepsExpiration(m) ==
  /\ m.type = "edge"
  /\ Indices(m)
  /\ LET i == layerIndexMap'[m.layer]
         E == Index(m.edge)
     IN /\ edges' = [edges EXCEPT ![i] = IF m.add THEN @ \union E ELSE @ \ E]
        /\ edgeExpirations' = [edgeExpirations EXCEPT ![i] =
             [p \in IndexPairs |-> IF p \notin E \/ ~ m.add \/ m.lifetime = Infinity THEN @[p]
                                   ELSE Expiration(m.timestamp, m.lifetime)]]
        /\ addRemoveAt(i, LabelPlaces(m, E), m)

(* addEdge: one edge, or both of a bidirectional message.  An edge added   *)
(* without a lifetime keeps the expiration it has.                         *)
addEdge(m) ==
  /\ m.type = "edge"
  /\ Indices(m)
  /\ LET i == layerIndexMap'[m.layer]
         E == Index(m.edge)
     IN /\ edges' = [edges EXCEPT ![i] = IF m.add THEN @ \union E ELSE @ \ E]
        /\ edgeExpirations' = [edgeExpirations EXCEPT ![i] =
             [p \in IndexPairs |-> IF p \notin E THEN @[p]
                                   ELSE IF ~ m.add THEN Infinity
                                   ELSE IF m.lifetime = Infinity THEN @[p]
                                   ELSE Expiration(m.timestamp, m.lifetime)]]
        /\ addRemoveAt(i, LabelPlaces(m, E), m)

(* addRemoveLabel: a label at a position floats, any other is its node's.  *)
addRemoveLabel(m) ==
  /\ m.type = "label"
  /\ Indices(m)
  /\ addRemoveAt(layerIndexMap'[m.layer],
                 {IF m.floats THEN Floating ELSE <<nid2IndexMap'[m.from]>>}, m)
  /\ UNCHANGED <<edges, edgeExpirations>>

(* updateNodeLocation, updateNodeColor, updateNodeProperties: the node is  *)
(* known from now on, and the layer of the last.                           *)
updateNode(m) ==
  /\ m.type \in {"gps", "color", "properties"}
  /\ Indices(m)
  /\ UNCHANGED <<edges, edgeExpirations, labels>>

updateGraph(m) ==
  \/ addNodeNeighbors(m) \/ addEdge(m) \/ addRemoveLabel(m) \/ updateNode(m)
  \/ Exit(m)

\* Mutant of doMaintanence: the expiration of a removed edge is left behind.
doMaintanence_keepsExpiration(now) ==
  /\ ~ exited
  /\ edges' = [l \in LayerIndex |->
       {p \in edges[l] : ~ (l \in isActive /\ Expired(now, edgeExpirations[l][p]))}]
  /\ labels' = [l \in LayerIndex |-> [place \in Places |->
       {s \in labels[l][place] : ~ (l \in isActive /\ Expired(now, s.expiration))}]]
  /\ UNCHANGED <<indexVars, isActive, edgeExpirations, timeForward, exited>>

(* doMaintanence: what has expired goes, in the active layers. *)
doMaintanence(now) ==
  /\ ~ exited
  /\ LET over(l) == IF l \in isActive THEN {p \in edges[l] : Expired(now, edgeExpirations[l][p])} ELSE {}
     IN /\ edges' = [l \in LayerIndex |-> edges[l] \ over(l)]
        /\ edgeExpirations' = [l \in LayerIndex |-> [p \in IndexPairs |->
             IF p \in over(l) THEN Infinity ELSE edgeExpirations[l][p]]]
  /\ labels' = [l \in LayerIndex |-> [place \in Places |->
       {s \in labels[l][place] : ~ (l \in isActive /\ Expired(now, s.expiration))}]]
  /\ UNCHANGED <<indexVars, isActive, timeForward, exited>>

WithoutEdges ==
  /\ edges' = [l \in LayerIndex |-> NoEdges]
  /\ edgeExpirations' = [l \in LayerIndex |-> NeverExpires]

WithoutLabels == labels' = [l \in LayerIndex |-> NoLabels]

\* Mutant of clear: the labels stay.
clear_leavesLabels == WithoutEdges /\ UNCHANGED labels

\* Slots of layers and nodes that are not in use are empty anyway.
clear == WithoutEdges /\ WithoutLabels

(* setTimeDirectionForward: a change of direction empties the layers. *)
setTimeDirectionForward(forward) ==
  /\ ~ exited /\ timeForward # forward
  /\ clear
  /\ timeForward' = forward
  /\ UNCHANGED <<indexVars, isActive, exited>>

(* The view is cleared: all of it by the user, by a move of the slider and *)
(* while there is no connection; by the user also the edges alone (their   *)
(* labels stay) or the labels alone.                                       *)
clearAll       == clear
clearAllEdges  == WithoutEdges /\ UNCHANGED labels
clearAllLabels == WithoutLabels /\ UNCHANGED <<edges, edgeExpirations>>

viewClears ==
  /\ ~ exited
  /\ clearAll \/ clearAllEdges \/ clearAllLabels
  /\ UNCHANGED <<indexVars, isActive, timeForward, exited>>

(* A user shows or hides a layer (layerToggle of the legacy watcher). *)
layerToggle(l) ==
  /\ ~ exited /\ Fits({}, {l})
  /\ IF IsNewLayer(l)
       THEN name2LayerIndex(l)
       ELSE /\ \E S \in SUBSET {layerIndexMap[l]} : isActive' = (isActive \ {layerIndexMap[l]}) \union S
            /\ UNCHANGED <<layerIndexMap, layerName, numValidLayers>>
  /\ NoNewNode
  /\ UNCHANGED <<edges, edgeExpirations, labels, timeForward, exited>>

Next ==
  \/ \E m \in Messages : updateGraph(m)
  \/ \E now \in Times : doMaintanence(now)
  \/ \E forward \in BOOLEAN : setTimeDirectionForward(forward)
  \/ viewClears
  \/ \E l \in LayerNames : layerToggle(l)

Spec == Init /\ [][Next]_vars

-----------------------------------------------------------------------------
TypeOK ==
  /\ nid2IndexMap \in [Nids -> NodeIndex \union {NoIndex}]
  /\ numValidNodes \in 0 .. MaxNumNodes
  /\ index2nidMap \in [0 .. numValidNodes - 1 -> Nids]
  /\ layerIndexMap \in [LayerNames -> LayerIndex \union {NoIndex}]
  /\ numValidLayers \in 1 .. MaxNumLayers
  /\ layerName \in [0 .. numValidLayers - 1 -> LayerNames]
  /\ isActive \subseteq 0 .. numValidLayers - 1
  /\ edges \in [LayerIndex -> SUBSET IndexPairs]
  /\ edgeExpirations \in [LayerIndex -> [IndexPairs -> Int]]
  /\ labels \in [LayerIndex -> [Places ->
                 SUBSET [text : Texts, expiration : Int, forward : BOOLEAN]]]
  /\ timeForward \in BOOLEAN
  /\ exited \in BOOLEAN

(***************************************************************************)
(* The two maps of the nodes are inverse to each other and use the first   *)
(* indices, one each; the map of the layers gives every layer that is in   *)
(* it the slot that bears its name, and leaves out only slot 0.  Edges are *)
(* between nodes that have an index.                                       *)
(***************************************************************************)
IndexesAgree ==
  /\ \A n \in Nids : nid2IndexMap[n] # NoIndex =>
       nid2IndexMap[n] < numValidNodes /\ index2nidMap[nid2IndexMap[n]] = n
  /\ \A i \in 0 .. numValidNodes - 1 : nid2IndexMap[index2nidMap[i]] = i
  /\ \A l \in LayerNames : layerIndexMap[l] # NoIndex =>
       layerIndexMap[l] \in 1 .. numValidLayers - 1 /\ layerName[layerIndexMap[l]] = l
  /\ \A i \in 1 .. numValidLayers - 1 : layerIndexMap[layerName[i]] = i
  /\ \A l \in LayerIndex : \A p \in edges[l] : p[1] < numValidNodes /\ p[2] < numValidNodes

(***************************************************************************)
(* Where there is no edge there is no expiration either, whichever of the  *)
(* messages, of maintenance and of a change of direction took the edge     *)
(* away: an edge added there later without a lifetime does not inherit one.*)
(* Slots that no layer has yet are empty.                                  *)
(***************************************************************************)
AbsentHasNoExpiration ==
  \A l \in LayerIndex, p \in IndexPairs :
    /\ p \notin edges[l] => edgeExpirations[l][p] = Infinity
    /\ l \notin 1 .. numValidLayers - 1 => p \notin edges[l]

(***************************************************************************)
(* No label is shown that came while time ran in the other direction: its  *)
(* expiration would be compared the wrong way round.  No two labels of a   *)
(* place have the same text.                                               *)
(***************************************************************************)
LabelsOfThisDirection ==
  \A l \in LayerIndex, place \in Places : \A s, t \in labels[l][place] :
    /\ s.forward = timeForward
    /\ s.text = t.text => s = t

(***************************************************************************)
(* The graph implements the lifetimes of edges between named nodes in      *)
(* named layers: neither the indices, nor the second matrix, nor the       *)
(* layers that are inactive change which edges live and until when.        *)
(***************************************************************************)
Ix(p) == <<nid2IndexMap[p[1]], nid2IndexMap[p[2]]>>
Live(l) == {p \in Nids \X Nids : layerIndexMap[l] # NoIndex /\ Ix(p) \in edges[layerIndexMap[l]]}

Life == [l \in LayerNames |-> [p \in Live(l) |-> edgeExpirations[layerIndexMap[l]][Ix(p)]]]

Lifetime == INSTANCE EdgeLifetimes WITH life <- Life, forward <- timeForward

ImplementsEdges == Lifetime!EdgesSpec
=============================================================================
