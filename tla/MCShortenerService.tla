------------------------ MODULE MCShortenerService ------------------------
(***************************************************************************)
(* The HTTP requests and the deletes that TLC runs ShortenerService with.  *)
(***************************************************************************)
EXTENDS ShortenerService, TLC

CONSTANTS c1, c2, u1, u2, alice, bob

ShortenOf(body, u, uid) ==
  [kind |-> "shorten", uid |-> uid, body |-> body, urls |-> <<u>>]
BatchOf(body, urls, uid) ==
  [kind |-> "batch", uid |-> uid, body |-> body, urls |-> urls]

\* A text body that is cut after a MiB turns from one URL into another.
MCFirstMiB == [u \in Link |-> IF u = u1 THEN u2 ELSE NotURL]

CreateOf(body, u, uid) == [ShortenOf(body, u, uid) EXCEPT !.kind = "create"]

\* Users send the same URL; with as few codes as this most codes collide.
MCHTTPRequests ==
  {CreateOf("large", u1, alice), BatchOf("ok", <<u1, u2>>, bob),
   BatchOf("ok", <<u2, NotURL>>, alice), [kind |-> "redirect", shortCode |-> c1]}

\* Requests of every kind, for the temporal property.
MCFewHTTPRequests ==
  {CreateOf("large", u2, bob), CreateOf("bad", u1, bob),
   ShortenOf("ok", u1, bob), ShortenOf("large", u1, bob),
   BatchOf("ok", <<u1, u2>>, bob), BatchOf("ok", <<u2>>, alice),
   BatchOf("bad", <<>>, alice), BatchOf("large", <<u1>>, alice),
   [kind |-> "redirect", shortCode |-> c1], [kind |-> "list", uid |-> bob]}

HandlerSymmetry == Permutations(Handlers)

NoDeletes == {}

MCDeletes ==
  {[op |-> "softDelete", uid |-> bob, shortCodes |-> <<c1>>]}
=============================================================================
