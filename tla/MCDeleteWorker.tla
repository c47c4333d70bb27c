--------------------------- MODULE MCDeleteWorker ---------------------------
(***************************************************************************)
(* The delete requests that TLC runs the worker with.  alice owns c1 and   *)
(* c2, bob owns c3, and c4 has no row.                                     *)
(***************************************************************************)
EXTENDS DeleteWorker, TLC

CONSTANTS alice, bob, c1, c2, c3, c4, t1, t2, t3, t4

MCOwner == c1 :> alice @@ c2 :> alice @@ c3 :> bob @@ c4 :> NoOwner

MCTaskUID == t1 :> alice @@ t2 :> bob @@ t3 :> alice @@ t4 :> bob

\* Codes of others, a code twice, and a missing code in front of others.
MCTaskCodes ==
  t1 :> <<c1, c3>> @@ t2 :> <<c3>> @@ t3 :> <<c4, c2>> @@ t4 :> <<c1, c3, c3>>

\* Every code has a row.
MCKnownCodes ==
  t1 :> <<c1, c3>> @@ t2 :> <<c3>> @@ t3 :> <<c2>> @@ t4 :> <<c1, c3, c3>>

Small == [queueSize |-> 2, maxSize |-> 2]
Wide == [queueSize |-> 1, maxSize |-> 3]
NoOption == [queueSize |-> 0, maxSize |-> 0]
=============================================================================
