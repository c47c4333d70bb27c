----------------------- MODULE MCFileCacheRepository -----------------------
(***************************************************************************)
(* The calls that TLC lets the clients of FileCacheRepository make.        *)
(***************************************************************************)
EXTENDS FileCacheRepository

CONSTANTS c1, c2, u1, u2, alice, bob, p1, p2

NewRow(c, u, uid) ==
  [shortCode |-> c, originalURL |-> u, userID |-> uid, isDeleted |-> FALSE]

\* A create and a batch that meet in a code and in a URL, and deletes of one or
\* both of the codes, which may be missing or on their way.  The second row of
\* the batch has the long URL; the first may reach the file without it.
MCRequests ==
  {[op |-> "create", row |-> NewRow(c2, u1, alice)],
   [op |-> "createBatch", rows |-> <<NewRow(c1, u1, bob), NewRow(c2, u2, bob)>>],
   [op |-> "softDelete", uid |-> bob, shortCodes |-> <<c1>>],
   [op |-> "softDelete", uid |-> bob, shortCodes |-> <<c1, c2>>]}
=============================================================================
