-------------------------- MODULE ShortenerService --------------------------
(***************************************************************************)
(* The requests that create, follow and list short links: the handlers of  *)
(* internal/handler, the methods of URLShortenerService that they call,    *)
(* and the repository under them, which is the abstract URLStore.          *)
(*                                                                         *)
(* Each request has a goroutine.  What it does between two calls of the    *)
(* repository touches nothing that is shared, and is one step.  The delete *)
(* worker is a client of the repository that makes the calls in Requests.  *)
(*                                                                         *)
(* A storage may also fail for a reason of its own (a broken connection, a *)
(* full disk, a URL that a batch repeats), with the effect of the call or  *)
(* without it; the service has no name for such an error.                  *)
(***************************************************************************)
EXTENDS URLStore, FiniteSets

CONSTANTS
  Handlers,      (* the goroutines of the HTTP server                  *)
  Deleter,       (* the goroutine of the delete worker                 *)
  HTTPRequests,  (* the requests that arrive                           *)
  NoHTTP,        (* the request of a goroutine that serves none        *)
  NotURL,        (* a string that the validator refuses as an http_url *)
  FirstMiB       (* what io.LimitReader lets through of a large body   *)

Link == OriginalURLs \cup {NotURL}
AnyHTTPRequest ==
  [kind : {"create", "shorten"}, uid : Users, body : {"ok", "bad", "large"},
   urls : Seq(Link)]
    \cup [kind : {"batch"}, uid : Users, body : {"ok", "bad", "large"}, urls : Seq(Link)]
    \cup [kind : {"redirect"}, shortCode : ShortCodes]
    \cup [kind : {"list"}, uid : Users]

ASSUME ClientsAssumption == Clients = Handlers \cup {Deleter} /\ Deleter \notin Handlers
ASSUME HTTPRequestsAssumption ==
  /\ HTTPRequests \subseteq AnyHTTPRequest
  /\ \A h \in HTTPRequests : h.kind \in {"create", "shorten"} => Len(h.urls) = 1
  /\ NoHTTP \notin HTTPRequests
  /\ NotURL \notin OriginalURLs
  /\ FirstMiB \in [Link -> Link]
ASSUME HandlersCallAssumption == NoCall \notin AnyRequest

VARIABLES
  http,      (* the request each handler serves                             *)
  pc,        (* where each handler is                                       *)
  gone,      (* the client has gone: the request's context is cancelled     *)
  attempt,   (* the counter of the retry loop                               *)
  new,       (* shortenedURLs, or the one row of CreateShortURL             *)
  resp,      (* the codes of the answer that CreateURLBatch prepares        *)
  repoErr,   (* the error that the repository's method returned             *)
  response,  (* the answer to each handler's last request                   *)
  before,    (* auxiliary: the row a redirect was to find when it arrived   *)
  made       (* auxiliary: the codes that the handler's request has stored  *)

handlerVars ==
  <<http, pc, gone, attempt, new, resp, repoErr, response, before, made>>
serviceVars == <<storeVars, handlerVars>>

NoResponse == [status |-> 0, content |-> <<>>]

ServiceInit ==
  /\ StoreInit
  /\ http = [p \in Handlers |-> NoHTTP]
  /\ pc = [p \in Handlers |-> "idle"]
  /\ gone = [p \in Handlers |-> FALSE]
  /\ attempt = [p \in Handlers |-> 0]
  /\ new = [p \in Handlers |-> <<>>]
  /\ resp = [p \in Handlers |-> <<>>]
  /\ repoErr = [p \in Handlers |-> "nil"]
  /\ response = [p \in Handlers |-> NoResponse]
  /\ before = [p \in Handlers |-> NoRow]
  /\ made = [p \in Handlers |-> {}]

-----------------------------------------------------------------------------
\* A goroutine that serves no request, or has answered its last one, begins
\* with a new request.
Arrive(p) ==
  /\ pc[p] \in {"idle", "done"}
  /\ \E h \in HTTPRequests :
       /\ http' = [http EXCEPT ![p] = h]
       /\ before' = [before EXCEPT ![p] =
                       IF h.kind = "redirect" THEN rows[h.shortCode] ELSE NoRow]
  /\ pc' = [pc EXCEPT ![p] = "handler"]
  /\ gone' = [gone EXCEPT ![p] = FALSE]
  /\ attempt' = [attempt EXCEPT ![p] = 0]
  /\ new' = [new EXCEPT ![p] = <<>>]
  /\ resp' = [resp EXCEPT ![p] = <<>>]
  /\ repoErr' = [repoErr EXCEPT ![p] = "nil"]
  /\ response' = [response EXCEPT ![p] = NoResponse]
  /\ made' = [made EXCEPT ![p] = {}]
  /\ UNCHANGED storeVars

ClientGoes(p) ==
  /\ pc[p] \in {"handler", "repo"}
  /\ ~gone[p]
  /\ gone' = [gone EXCEPT ![p] = TRUE]
  /\ UNCHANGED <<storeVars, http, pc, attempt, new, resp, repoErr, response, before, made>>

\* The handler writes its answer and returns; the repository's answer, which
\* it held in a local variable, is gone.
Respond(p, status, content) ==
  /\ response' = [response EXCEPT ![p] = [status |-> status, content |-> content]]
  /\ pc' = [pc EXCEPT ![p] = "done"]
  /\ reply' = [reply EXCEPT ![p] = Nothing]
  /\ UNCHANGED <<rows, call, http, gone, attempt, new, resp, repoErr, before, made>>

Serves(p, kind) == pc[p] = "handler" /\ http[p].kind = kind

CallRepo(p, r) ==
  /\ call' = [call EXCEPT ![p] = r]
  /\ pc' = [pc EXCEPT ![p] = "repo"]
  /\ UNCHANGED <<rows, reply, http, gone, repoErr, response, before, made>>

Row(code, url, uid) ==
  [shortCode |-> code, originalURL |-> url, userID |-> uid, isDeleted |-> FALSE]

\* Faulty variant: one attempt too many.
MayRetryLate(p) == attempt[p] < 3

\* Both loops try three times: with the attempts 0, 1 and 2.
MayRetry(p) == attempt[p] < 2

-----------------------------------------------------------------------------
(***************************************************************************)
(* POST / and POST /api/shorten: Create, Shorten, CreateShortURL.  Shorten *)
(* refuses a large body; Create cuts it and goes on with what is left.     *)
(***************************************************************************)
\* The URLs that the handler of request h gives to the service.
Given(h) ==
  IF h.kind = "create" /\ h.body = "large" THEN <<FirstMiB[h.urls[1]]>> ELSE h.urls

\* One turn of the loop: a generated code, and the call of repo.Create.
TryCreate(p, k) ==
  \E code \in ShortCodes :
    LET row == Row(code, Given(http[p])[1], http[p].uid)
    IN /\ new' = [new EXCEPT ![p] = <<row>>]
       /\ attempt' = [attempt EXCEPT ![p] = k]
       /\ CallRepo(p, [op |-> "create", row |-> row])
       /\ UNCHANGED resp

CreateShortURL(p) ==
  \/ gone[p] /\ Respond(p, 499, <<>>)
  \/ ~gone[p] /\ Given(http[p])[1] = NotURL /\ Respond(p, 400, <<>>)
  \/ ~gone[p] /\ Given(http[p])[1] # NotURL /\ TryCreate(p, 0)

Shorten(p) ==
  /\ Serves(p, "shorten")
  /\ \/ http[p].body # "ok" /\ Respond(p, 400, <<>>)
     \/ http[p].body = "ok" /\ CreateShortURL(p)

CreateText(p) ==
  /\ Serves(p, "create")
  /\ \/ http[p].body = "bad" /\ Respond(p, 400, <<>>)
     \/ http[p].body # "bad" /\ CreateShortURL(p)

\* What CreateShortURL and the two handlers make of the answer of repo.Create.
AfterCreate(p) ==
  /\ pc[p] = "repo" /\ call[p] = NoCall /\ http[p].kind \in {"create", "shorten"}
  /\ LET err == repoErr[p]
     IN \/ err = "nil" /\ Respond(p, 201, <<new[p][1].shortCode>>)
        \/ err = "ErrConflictShortCode" /\ MayRetry(p) /\ TryCreate(p, attempt[p] + 1)
        \/ err = "ErrConflictShortCode" /\ ~MayRetry(p) /\ Respond(p, 500, <<>>)
        \/ /\ err = "OriginalURLConflictError"
           /\ Respond(p, 409, <<reply[p].shortCode>>)
        \/ err = "ctx.Err" /\ Respond(p, 499, <<>>)
        \/ err = "error" /\ Respond(p, 500, <<>>)

-----------------------------------------------------------------------------
(***************************************************************************)
(* POST /api/shorten/batch: ShortenBatch, CreateURLBatch.                  *)
(***************************************************************************)
TryBatch(p, k, batch, codes) ==
  /\ new' = [new EXCEPT ![p] = batch]
  /\ resp' = [resp EXCEPT ![p] = codes]
  /\ attempt' = [attempt EXCEPT ![p] = k]
  /\ CallRepo(p, [op |-> "createBatch", rows |-> batch])

ShortenBatch(p) ==
  /\ Serves(p, "batch")
  /\ LET h == http[p]
     IN \/ h.body = "large" /\ Respond(p, 413, <<>>)
        \/ h.body = "bad" /\ Respond(p, 400, <<>>)
        \/ h.body = "ok" /\ gone[p] /\ Respond(p, 499, <<>>)
        \/ /\ h.body = "ok" /\ ~gone[p]
           /\ \/ /\ h.urls = <<>> \/ \E k \in DOMAIN h.urls : h.urls[k] = NotURL
                 /\ Respond(p, 400, <<>>)
              \/ /\ h.urls # <<>> /\ \A k \in DOMAIN h.urls : h.urls[k] # NotURL
                 /\ \E codes \in [DOMAIN h.urls -> ShortCodes] :
                      TryBatch(p, 0,
                        [k \in DOMAIN h.urls |-> Row(codes[k], h.urls[k], h.uid)],
                        codes)

\* Faulty variant: the answer keeps the code that collided.
RetryBatchOnly(p, k) ==
  \E code \in ShortCodes :
    TryBatch(p, attempt[p] + 1, [new[p] EXCEPT ![k].shortCode = code], resp[p])

\* Faulty variant: the attempts are not counted.
RetryBatchForever(p, k) ==
  \E code \in ShortCodes :
    TryBatch(p, attempt[p], [new[p] EXCEPT ![k].shortCode = code],
             [resp[p] EXCEPT ![k] = code])

\* A new code for the row that collided, in the batch and in the answer.
RetryBatch(p, k) ==
  \E code \in ShortCodes :
    TryBatch(p, attempt[p] + 1, [new[p] EXCEPT ![k].shortCode = code],
             [resp[p] EXCEPT ![k] = code])

AfterBatch(p) ==
  /\ pc[p] = "repo" /\ call[p] = NoCall /\ http[p].kind = "batch"
  /\ LET err == repoErr[p]
     IN \/ err = "nil" /\ Respond(p, 201, resp[p])
        \/ err = "BatchConflictError" /\ MayRetry(p) /\ RetryBatch(p, reply[p].index)
        \/ err = "BatchConflictError" /\ ~MayRetry(p) /\ Respond(p, 500, <<>>)
        \/ err = "ctx.Err" /\ Respond(p, 499, <<>>)
        \/ err = "error" /\ Respond(p, 500, <<>>)

-----------------------------------------------------------------------------
(***************************************************************************)
(* GET /{id} and GET /api/user/urls.                                       *)
(***************************************************************************)
\* A cancelled context has no case of its own in Redirect.
Redirect(p) ==
  /\ Serves(p, "redirect")
  /\ \/ gone[p] /\ Respond(p, 500, <<>>)
     \/ /\ ~gone[p]
        /\ CallRepo(p, [op |-> "get", shortCode |-> http[p].shortCode])
        /\ UNCHANGED <<attempt, new, resp>>

\* Faulty variant: a deleted row is answered as an unknown one.
RedirectStatusNotGone(err) ==
  CASE err = "nil" -> 307
    [] err \in {"ErrNotExists", "ErrRowGone"} -> 404
    [] OTHER -> 500

\* Faulty variant: ErrRowGone has no case.
RedirectStatusNoCase(err) ==
  CASE err = "nil" -> 307
    [] err = "ErrNotExists" -> 404
    [] OTHER -> 500

RedirectStatus(err) ==
  CASE err = "nil" -> 307
    [] err = "ErrNotExists" -> 404
    [] err = "ErrRowGone" -> 410
    [] OTHER -> 500

AfterGet(p) ==
  /\ pc[p] = "repo" /\ call[p] = NoCall /\ http[p].kind = "redirect"
  /\ Respond(p, RedirectStatus(repoErr[p]),
             IF repoErr[p] = "nil" THEN <<reply[p].originalURL>> ELSE <<>>)

ListURLs(p) ==
  /\ Serves(p, "list")
  /\ \/ gone[p] /\ Respond(p, 499, <<>>)
     \/ /\ ~gone[p]
        /\ CallRepo(p, [op |-> "getURLs", uid |-> http[p].uid])
        /\ UNCHANGED <<attempt, new, resp>>

AfterGetURLs(p) ==
  /\ pc[p] = "repo" /\ call[p] = NoCall /\ http[p].kind = "list"
  /\ LET err == repoErr[p]
     IN \/ err = "nil" /\ Respond(p, 200, reply[p].shortCodes)
        \/ err = "ErrNoRows" /\ Respond(p, 204, <<>>)
        \/ err = "ctx.Err" /\ Respond(p, 499, <<>>)
        \/ err = "error" /\ Respond(p, 500, <<>>)

-----------------------------------------------------------------------------
\* The error a storage may return in place of its answer, whether or not it has
\* stored the rows: one without a name, or the context's if the context is done.
Fails(p) ==
  \E err \in {"error"} \cup (IF gone[p] THEN {"ctx.Err"} ELSE {}) :
    repoErr' = [repoErr EXCEPT ![p] = err]

Answers(p) == repoErr' = [repoErr EXCEPT ![p] = reply'[p].err]

\* The repository's part of a handler's call.
RepoStep(p) ==
  /\ pc[p] = "repo"
  /\ \/ Refuse(p) /\ Fails(p)
     \/ (Create(p) \/ CreateBatch(p)) /\ (Answers(p) \/ Fails(p))
     \/ (Get(p) \/ GetURLs(p)) /\ Answers(p)
  /\ made' = [made EXCEPT ![p] = @ \cup {c \in ShortCodes : rows'[c] # rows[c]}]
  /\ UNCHANGED <<http, pc, gone, attempt, new, resp, response, before>>

DeleterStep ==
  /\ Invoke(Deleter) \/ Refuse(Deleter) \/ SoftDelete(Deleter)
  /\ UNCHANGED handlerVars

HandlerStep(p) ==
  \/ CreateText(p) \/ Shorten(p) \/ AfterCreate(p)
  \/ ShortenBatch(p) \/ AfterBatch(p)
  \/ Redirect(p) \/ AfterGet(p)
  \/ ListURLs(p) \/ AfterGetURLs(p)
  \/ RepoStep(p)

ServiceNext ==
  \/ \E p \in Handlers :
       Arrive(p) \/ ClientGoes(p) \/ HandlerStep(p)
  \/ DeleterStep

ServiceSpec == ServiceInit /\ [][ServiceNext]_serviceVars

\* The goroutine of a request runs on, and the repository answers or fails.
ServiceFairSpec ==
  ServiceSpec /\ \A p \in Handlers : WF_serviceVars(HandlerStep(p))

-----------------------------------------------------------------------------
ServiceTypeOK ==
  /\ http \in [Handlers -> HTTPRequests \cup {NoHTTP}]
  /\ pc \in [Handlers -> {"idle", "handler", "repo", "done"}]
  /\ gone \in [Handlers -> BOOLEAN]
  /\ attempt \in [Handlers -> 0 .. 2]
  /\ \A p \in Handlers :
       /\ new[p] \in Seq(NewURL) /\ resp[p] \in Seq(ShortCodes)
       /\ call[p] # NoCall => pc[p] = "repo" /\ call[p] \in AnyRequest
       /\ response[p].status \in {0, 200, 201, 204, 307, 400, 404, 409, 410, 413, 499, 500}
       /\ response[p].status # 0 <=> pc[p] = "done"
       /\ repoErr[p] \in {"nil", "ctx.Err", "error", "ErrConflictShortCode", "ErrNotExists",
                          "ErrRowGone", "ErrNoRows", "BatchConflictError",
                          "OriginalURLConflictError"}
       /\ made[p] \subseteq ShortCodes

(***************************************************************************)
(* A 201 carries, at the place of each URL given to the service, a code    *)
(* that now stands for that URL and belongs to the sender, however many    *)
(* collisions and retries there were, and nothing else was stored.  A 409  *)
(* carries a code that stands for the URL.  Any other answer has stored    *)
(* nothing, unless the storage failed with an error of its own or of the   *)
(* context: then the last attempt was stored whole or not at all, and no   *)
(* earlier one was.                                                        *)
(***************************************************************************)
StandsFor(code, url) == rows[code] # NoRow /\ rows[code].originalURL = url

StorageFailed(p) == repoErr[p] \in {"error", "ctx.Err"}

AnswersMatchTheStore ==
  \A p \in Handlers : pc[p] = "done" =>
    LET answer == response[p]
        codes == answer.content
        urls == Given(http[p])
    IN /\ answer.status = 201 =>
            /\ Len(codes) = Len(urls)
            /\ made[p] = {codes[k] : k \in DOMAIN codes}
            /\ \A k \in DOMAIN codes :
                 /\ StandsFor(codes[k], urls[k])
                 /\ rows[codes[k]].userID = http[p].uid
       /\ answer.status = 409 => StandsFor(codes[1], urls[1])
       /\ answer.status # 201 /\ made[p] # {} =>
            StorageFailed(p) /\ made[p] = CodesOf(new[p])

(***************************************************************************)
(* A redirect sees every create and every delete that ended before it came *)
(* in: 404 only for a code that was unknown then, 410 only for a deleted   *)
(* row, 307 to the URL of the row, and not if it was deleted before.       *)
(***************************************************************************)
RedirectsAreCurrent ==
  \A p \in Handlers : pc[p] = "done" /\ http[p].kind = "redirect" =>
    LET row == rows[http[p].shortCode]
    IN /\ response[p].status = 404 => before[p] = NoRow
       /\ response[p].status = 410 => row # NoRow /\ row.isDeleted
       /\ response[p].status = 307 =>
            /\ StandsFor(http[p].shortCode, response[p].content[1])
            /\ before[p] # NoRow => ~before[p].isDeleted

(***************************************************************************)
(* A 499 is the client's own doing, and a 500 an unnamed failure of the    *)
(* storage, the third collision in a row, or a redirect whose client left: *)
(* every named error has its case in the service and in the handler.  And  *)
(* no failure of the storage passes for an answer.                         *)
(***************************************************************************)
Collides(batch) ==
  \E k \in DOMAIN batch :
    \/ rows[batch[k].shortCode] # NoRow
    \/ \E j \in DOMAIN batch : j # k /\ batch[j].shortCode = batch[k].shortCode

ErrorsHaveCause ==
  \A p \in Handlers :
    /\ response[p].status = 499 => gone[p]
    /\ response[p].status = 500 =>
         \/ repoErr[p] = "error"
         \/ http[p].kind = "redirect" /\ gone[p]
         \/ attempt[p] = 2 /\ Collides(new[p])
    /\ pc[p] = "done" /\ StorageFailed(p) => response[p].status \in {499, 500}

(***************************************************************************)
(* Every request is answered, even when every generated code collides.     *)
(***************************************************************************)
EveryRequestIsAnswered == \A p \in Handlers : pc[p] = "handler" ~> pc[p] = "done"
=============================================================================
