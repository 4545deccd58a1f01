--------------------------- MODULE PlaybackCursor ---------------------------
(***************************************************************************)
(* What a subscriber of a replayed stream is promised, without timers,     *)
(* prefetching or threads: playback is a sequence of segments.  A segment  *)
(* starts at a timestamp and goes in one direction; in it, every recorded  *)
(* message on its side of the start is shown in the order of the           *)
(* timestamps, once, and the messages of one millisecond together.  Only a *)
(* message recorded behind others that were there before it may be missed. *)
(***************************************************************************)
EXTENDS EventDB

CONSTANT Positions    \* where a segment may start

VARIABLES
  from,    \* the timestamp after which the current segment starts
  dir,     \* its direction: 1 forward, -1 reverse
  shown,   \* the messages of the segment that were shown
  missed   \* the messages of the segment that will not be shown

cursorVars == <<db, from, dir, shown, missed>>

Ahead(r) == Before(from, r.ts, dir)
ToShow   == {r \in db : Ahead(r)} \ (shown \union missed)

CursorInit ==
  /\ db = {}
  /\ from \in Positions
  /\ dir \in {1, -1}
  /\ shown = {}
  /\ missed = {}

(* A message is recorded.  It may be missed when the segment already has a *)
(* message at its timestamp or further on.                                 *)
Record(r) ==
  /\ storeEvent(r)
  /\ \/ missed' = missed
     \/ /\ Ahead(r)
        /\ \E q \in db : Ahead(q) /\ ~ Before(q.ts, r.ts, dir)
        /\ missed' = missed \union {r}
  /\ UNCHANGED <<from, dir, shown>>

(* The next messages are shown: none that is left comes before, or at the  *)
(* same time as, one of them.                                              *)
Show(B) ==
  /\ B # {}
  /\ \A b \in B, q \in ToShow \ B : Before(b.ts, q.ts, dir)
  /\ shown' = shown \union B
  /\ UNCHANGED <<db, from, dir, missed>>

(* A seek, or a change of direction, starts another segment. *)
Restart ==
  /\ from' \in Positions
  /\ dir' \in {1, -1}
  /\ shown' = {}
  /\ missed' = {}
  /\ UNCHANGED db

CursorNext ==
  \/ \E r \in Row : Record(r)
  \/ \E B \in SUBSET ToShow : Show(B)
  \/ Restart

CursorSpec == CursorInit /\ [][CursorNext]_cursorVars
=============================================================================
