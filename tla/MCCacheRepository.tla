------------------------- MODULE MCCacheRepository -------------------------
(***************************************************************************)
(* The calls that TLC lets the clients of CacheRepository make.            *)
(***************************************************************************)
EXTENDS CacheRepository

CONSTANTS c1, c2, c3, u1, u2, alice, bob

New(c, u, uid) ==
  [shortCode |-> c, originalURL |-> u, userID |-> uid, isDeleted |-> FALSE]

CreateOf(c, u, uid) == [op |-> "create", row |-> New(c, u, uid)]
BatchOf(batch) == [op |-> "createBatch", rows |-> batch]
DeleteOf(uid, codes) == [op |-> "softDelete", uid |-> uid, shortCodes |-> codes]

(* Codes collide between alice's creates, within a batch and between a      *)
(* batch and the table; both users send a URL the other one sends; deletes  *)
(* name the other user's codes, a code twice, and codes that may be missing.*)
MCRequests ==
  {CreateOf(c1, u1, alice), CreateOf(c1, u2, alice), CreateOf(c2, u1, bob),
   BatchOf(<<New(c2, u1, bob), New(c1, u2, bob)>>),
   BatchOf(<<New(c3, u1, alice), New(c2, u2, alice)>>),
   BatchOf(<<New(c3, u1, alice), New(c3, u2, alice)>>),
   BatchOf(<<>>),
   DeleteOf(alice, <<c1, c2>>), DeleteOf(bob, <<c2, c3, c2>>),
   DeleteOf(bob, <<>>),
   [op |-> "get", shortCode |-> c1], [op |-> "get", shortCode |-> c2],
   [op |-> "getURLs", uid |-> alice], [op |-> "getURLs", uid |-> bob]}

\* Fewer calls, for the run about other users' rows.
MCFewRequests ==
  {CreateOf(c1, u1, alice), CreateOf(c1, u2, alice),
   BatchOf(<<New(c2, u1, bob), New(c1, u2, bob)>>),
   DeleteOf(alice, <<c1, c2>>),
   [op |-> "get", shortCode |-> c1]}
=============================================================================
