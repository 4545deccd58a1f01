---------------------------- MODULE MCWatcherGraph ----------------------------
(* Instance of WatcherGraph for TLC: on the layer hop everything happens,  *)
(* on the physical layer one permanent edge comes and goes.  There is no   *)
(* room for a third layer, beside the slot of the physical layer.          *)
EXTENDS WatcherGraph, TLC

CONSTANTS n1, n2, hop, extra, t

MCTimes == {1, 3}
MCLifetimes == {Infinity, 1}

Shows == [text |-> t, add |-> TRUE, lifetime |-> 1]
Hides == [text |-> t, add |-> FALSE, lifetime |-> Infinity]
Both  == {<<n1, n2>>, <<n2, n1>>}

MCMessages == {m \in AllMessages :
  CASE m.type = "connectivity" -> m.layer = hop /\ m.from = n1 /\ n1 \notin m.neighbors
    [] m.type = "edge" -> /\ m.edge \in {{<<n1, n2>>}, Both}
                          /\ m.where = "none" => m.label = Hides
                          /\ m.where # "none" => m.where = "node1" /\ m.label = Shows /\ m.lifetime = Infinity
                          /\ m.layer # hop => /\ m.layer = Physical /\ m.edge # Both
                                              /\ m.where = "none" /\ m.lifetime = Infinity
                                              /\ m.timestamp = 1
    [] m.type = "label" -> /\ m.layer = hop /\ m.from = n2 /\ m.timestamp = 1
                           /\ m.label \in {Shows, Hides}
                           /\ m.floats => m.label = Shows
    [] m.type = "properties" -> m.layer = extra /\ m.from = n1
    [] m.type = "color" -> FALSE
    [] OTHER -> TRUE}
=============================================================================
