---------------------------- MODULE ReplayClaims ----------------------------
(***************************************************************************)
(* What the repository says about playback and the code does not do.       *)
(***************************************************************************)
EXTENDS ReplayState

(***************************************************************************)
(* README.changelog on 0.6.4.2: replay no longer drops messages when there *)
(* were many messages at the same timestamp; sqliteDatabase.cpp:113-115    *)
(* makes sure all events of one millisecond are read.  So in a forward     *)
(* segment a message is missed only if it came late, when a later one was  *)
(* already recorded.  Messages of one millisecond are recorded one by one, *)
(* though, and a query may come between them.                              *)
(***************************************************************************)
MissedOnlyIfLate ==
  speed > 0 => \A r \in missed : \E q \in db : r.ts < q.ts
=============================================================================
