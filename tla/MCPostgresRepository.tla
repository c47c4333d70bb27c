----------------------- MODULE MCPostgresRepository -----------------------
(***************************************************************************)
(* The calls that TLC lets the clients of PostgresRepository make.  The    *)
(* batches take the same codes in opposite order, and the second one sends *)
(* a code twice; each of the four insertions shares a URL with another,    *)
(* and all but the first share a code.                                     *)
(***************************************************************************)
EXTENDS PostgresRepository

CONSTANTS c1, c2, c3, u1, u2, u3, alice, bob

New(c, u, uid) ==
  [shortCode |-> c, originalURL |-> u, userID |-> uid, isDeleted |-> FALSE]
CreateOf(c, u, uid) == [op |-> "create", row |-> New(c, u, uid)]
BatchOf(batch) == [op |-> "createBatch", rows |-> batch]

MCRequests ==
  {CreateOf(c3, u1, alice), CreateOf(c1, u3, bob),
   BatchOf(<<New(c1, u1, alice), New(c2, u2, alice)>>),
   BatchOf(<<New(c2, u3, bob), New(c1, u2, bob), New(c2, u1, bob)>>),
   [op |-> "softDelete", uid |-> alice, shortCodes |-> <<c1, c2>>],
   [op |-> "get", shortCode |-> c1], [op |-> "getURLs", uid |-> alice]}
=============================================================================
