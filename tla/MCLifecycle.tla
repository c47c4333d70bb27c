---------------------------- MODULE MCLifecycle ----------------------------
(***************************************************************************)
(* The delete requests that TLC runs the process with.  alice owns c1, bob *)
(* owns c3.                                                                *)
(***************************************************************************)
EXTENDS Lifecycle, TLC

CONSTANTS alice, bob, c1, c3, t1, t2, t3

MCOwner == c1 :> alice @@ c3 :> bob
MCTaskUID == t1 :> alice @@ t2 :> bob @@ t3 :> alice
MCTaskCodes == t1 :> <<c1, c3>> @@ t2 :> <<c3, c3>> @@ t3 :> <<c3>>

Sizes == [queueSize |-> 2, maxSize |-> 1]
NoOption == [queueSize |-> 0, maxSize |-> 0]
=============================================================================
