---------------------------- MODULE EdgeLifetimes ----------------------------
(***************************************************************************)
(* What a WatcherGraph promises of its edges (watcherGraph.h): the edges   *)
(* of a layer between nodes, by their names, and until when each lives.    *)
(* There are no indices, no arrays of a fixed size and no second array for *)
(* the expirations.                                                        *)
(***************************************************************************)
EXTENDS Integers

CONSTANTS Nids, LayerNames, Times, Lifetimes, Infinity

VARIABLES
  life,     \* the live edges of a layer, each with the time its life ends
  forward   \* the direction of time

Pairs == Nids \X Nids
None == [p \in {} |-> Infinity]

EdgesInit ==
  /\ life = [l \in LayerNames |-> None]
  /\ forward = TRUE

End(ts, lifetime) ==
  IF lifetime = Infinity THEN Infinity ELSE IF forward THEN ts + lifetime ELSE ts - lifetime

Over(now, end) == end # Infinity /\ IF forward THEN now > end ELSE now < end

Keep(f, P) == [p \in DOMAIN f \intersect P |-> f[p]]

(* The edges P live until the given time; without one, an edge that lives  *)
(* already keeps the end it has.                                           *)
Add(l, P, end) ==
  /\ life' = [life EXCEPT ![l] =
       [p \in DOMAIN @ \union P |-> IF p \in P /\ (end # Infinity \/ p \notin DOMAIN @) THEN end ELSE @[p]]]
  /\ UNCHANGED forward

Remove(l, P) ==
  /\ life' = [life EXCEPT ![l] = Keep(@, Pairs \ P)]
  /\ UNCHANGED forward

(* A node tells all its neighbours in a layer. *)
Neighbors(l, a, N) ==
  /\ life' = [life EXCEPT ![l] =
       [p \in (DOMAIN @ \ ({a} \X Nids)) \union ({a} \X N) |-> IF p[1] = a THEN Infinity ELSE @[p]]]
  /\ UNCHANGED forward

Expire(L, now) ==
  /\ life' = [l \in LayerNames |->
       IF l \in L THEN Keep(life[l], {p \in DOMAIN life[l] : ~ Over(now, life[l][p])}) ELSE life[l]]
  /\ UNCHANGED forward

(* Nothing of one direction of time is known in the other. *)
Turn ==
  /\ life' = [l \in LayerNames |-> None]
  /\ forward' = ~ forward

(* The view is cleared, by the user or without a connection. *)
Clear ==
  /\ life' = [l \in LayerNames |-> None]
  /\ UNCHANGED forward

Edges == {{p} : p \in Pairs} \union {{<<a, b>>, <<b, a>>} : a, b \in Nids}
Ends == {End(ts, e) : ts \in Times, e \in Lifetimes}

EdgesNext ==
  \/ \E l \in LayerNames, P \in Edges : Remove(l, P) \/ \E end \in Ends : Add(l, P, end)
  \/ \E l \in LayerNames, a \in Nids, N \in SUBSET Nids : Neighbors(l, a, N)
  \/ \E L \in SUBSET LayerNames, now \in Times : Expire(L, now)
  \/ Turn \/ Clear

EdgesSpec == EdgesInit /\ [][EdgesNext]_<<life, forward>>
=============================================================================
