------------------------------ MODULE URLModel ------------------------------
(***************************************************************************)
(* The data that passes through the URLRepository interface of the         *)
(* service: rows (model.ShortenedURL), the five requests, the answers.     *)
(*                                                                         *)
(* A short code, a URL and a user id are members of small sets.  A row's   *)
(* own UUID is never read back by any operation, so it is left out.        *)
(***************************************************************************)
EXTENDS Naturals, Sequences

CONSTANTS
  ShortCodes,    (* the codes the generator can return                     *)
  OriginalURLs,  (* the URLs users shorten                                 *)
  Users,         (* user ids, already parsed from the cookie               *)
  NoRow,         (* what a lookup of an unknown code yields                *)
  Clients,       (* the goroutines that call the repository                *)
  Requests,      (* the calls they may make                                *)
  NoCall         (* the call of a client that makes none                   *)

ShortenedURL ==
  [shortCode : ShortCodes, originalURL : OriginalURLs,
   userID : Users, isDeleted : BOOLEAN]

\* The service only ever passes rows with IsDeleted false to Create.
NewURL == {row \in ShortenedURL : ~row.isDeleted}

ASSUME NoRowAssumption == NoRow \notin ShortenedURL

-----------------------------------------------------------------------------
(***************************************************************************)
(* Requests: one record per call of an interface method.                   *)
(***************************************************************************)
CreateRequest == [op : {"create"}, row : NewURL]
CreateBatchRequest == [op : {"createBatch"}, rows : Seq(NewURL)]
GetRequest == [op : {"get"}, shortCode : ShortCodes]
GetURLsRequest == [op : {"getURLs"}, uid : Users]
SoftDeleteRequest ==
  [op : {"softDelete"}, uid : Users, shortCodes : Seq(ShortCodes)]

AnyRequest ==
  CreateRequest \cup CreateBatchRequest \cup GetRequest \cup GetURLsRequest
    \cup SoftDeleteRequest

ASSUME RequestsAssumption == Requests \subseteq AnyRequest
ASSUME NoCallAssumption == NoCall \notin Requests

-----------------------------------------------------------------------------
(***************************************************************************)
(* Answers: the error value, and with it what the method returns.  The     *)
(* rows of GetURLs are named by their codes; a map walk has no order, so   *)
(* they form a set.                                                        *)
(***************************************************************************)
Nothing == [err |-> "nil"]
CtxError == [err |-> "ctx.Err"]
ErrConflictShortCode == [err |-> "ErrConflictShortCode"]
ErrNotExists == [err |-> "ErrNotExists"]
ErrRowGone == [err |-> "ErrRowGone"]
ErrNoRows == [err |-> "ErrNoRows"]
BatchConflictError(i) == [err |-> "BatchConflictError", index |-> i]
OriginalURLConflictError(c) ==
  [err |-> "OriginalURLConflictError", shortCode |-> c]
Found(url) == [err |-> "nil", originalURL |-> url]
Listed(codes) == [err |-> "nil", shortCodes |-> codes]

Answer ==
  {Nothing, CtxError, ErrConflictShortCode, ErrNotExists, ErrRowGone, ErrNoRows}
    \cup [err : {"BatchConflictError"}, index : Nat]
    \cup [err : {"OriginalURLConflictError"}, shortCode : ShortCodes]
    \cup [err : {"nil"}, originalURL : OriginalURLs]
    \cup [err : {"nil"}, shortCodes : SUBSET ShortCodes]

\* Faulty variant: the zero row of an unknown code is taken for a row.
GetAnswerUnchecked(row) ==
  IF row = NoRow THEN Found(NoRow)
  ELSE IF row.isDeleted THEN ErrRowGone ELSE Found(row.originalURL)

(***************************************************************************)
(* What Get answers about one row.                                         *)
(***************************************************************************)
GetAnswer(row) ==
  IF row = NoRow THEN ErrNotExists
  ELSE IF row.isDeleted THEN ErrRowGone
  ELSE Found(row.originalURL)

\* A row that GetURLs lists for user uid.
ListedFor(row, uid) == row # NoRow /\ row.userID = uid /\ ~row.isDeleted

Deleted(row) == [row EXCEPT !.isDeleted = TRUE]

\* The codes a batch of rows carries, and the row it carries for one of them.
CodesOf(batch) == {batch[i].shortCode : i \in DOMAIN batch}
RowFor(batch, c) ==
  batch[CHOOSE i \in DOMAIN batch : batch[i].shortCode = c]
=============================================================================
