----------------------- MODULE ShortenerServiceProofs -----------------------
(***************************************************************************)
(* Proofs about ShortenerService: for every set of handlers, of requests   *)
(* and of codes, and with any deletes, the answers are true of the store,  *)
(* redirects are current, and errors have their cause.                     *)
(*                                                                         *)
(* The invariant says of each handler what it has sent to the repository   *)
(* (Sent), what the answer in its hands still tells of the rows, although  *)
(* other requests have changed them since, or what a failure may have left *)
(* of the call (Returned), and that the answer it wrote is right           *)
(* (Answered).  Other handlers and the delete worker can only make rows    *)
(* appear and mark them (Grows), and lemma Undisturbed shows once that     *)
(* this disturbs none of the three.                                        *)
(***************************************************************************)
EXTENDS ShortenerService, URLModelProofs

-----------------------------------------------------------------------------
Statuses == {0, 200, 201, 204, 307, 400, 404, 409, 410, 413, 499, 500}
Errors ==
  {"nil", "ctx.Err", "error", "ErrConflictShortCode", "ErrNotExists", "ErrRowGone",
   "ErrNoRows", "BatchConflictError", "OriginalURLConflictError"}
Contents == Seq(ShortCodes) \cup Seq(OriginalURLs) \cup SUBSET ShortCodes

Types ==
  /\ rows \in [ShortCodes -> ShortenedURL \cup {NoRow}]
  /\ call \in [Clients -> AnyRequest \cup {NoCall}]
  /\ reply \in [Clients -> Answer]
  /\ http \in [Handlers -> HTTPRequests \cup {NoHTTP}]
  /\ pc \in [Handlers -> {"idle", "handler", "repo", "done"}]
  /\ gone \in [Handlers -> BOOLEAN]
  /\ attempt \in [Handlers -> 0 .. 2]
  /\ new \in [Handlers -> Seq(NewURL)]
  /\ resp \in [Handlers -> Seq(ShortCodes)]
  /\ repoErr \in [Handlers -> Errors]
  /\ response \in [Handlers -> [status : Statuses, content : Contents]]
  /\ before \in [Handlers -> ShortenedURL \cup {NoRow}]
  /\ made \in [Handlers -> SUBSET ShortCodes]

\* What a handler's variables are at each place of its code.
Stage(p) ==
  /\ pc[p] # "idle" => http[p] \in HTTPRequests
  /\ pc[p] # "repo" => call[p] = NoCall
  /\ response[p].status # 0 <=> pc[p] = "done"
  /\ pc[p] \in {"idle", "handler"} \/ call[p] # NoCall => made[p] = {}
  /\ pc[p] \in {"idle", "handler"} => repoErr[p] = "nil"

\* The requests that store one URL.
Single(p) == http[p].kind \in {"create", "shorten"}

\* A handler calls the method of its request, with the rows of its request.
SentRow(p) ==
  /\ Given(http[p])[1] # NotURL
  /\ \E code \in ShortCodes :
       new[p] = <<Row(code, Given(http[p])[1], http[p].uid)>>
  /\ call[p] # NoCall => call[p] = [op |-> "create", row |-> new[p][1]]

SentBatch(p) ==
  /\ Len(new[p]) = Len(http[p].urls) /\ Len(resp[p]) = Len(http[p].urls)
  /\ \A k \in DOMAIN http[p].urls :
       /\ http[p].urls[k] # NotURL
       /\ new[p][k] = Row(resp[p][k], http[p].urls[k], http[p].uid)
  /\ call[p] # NoCall => call[p] = [op |-> "createBatch", rows |-> new[p]]

Sent(p) ==
  pc[p] = "repo" =>
    /\ Single(p) => SentRow(p)
    /\ http[p].kind = "batch" => SentBatch(p)
    /\ http[p].kind = "redirect" /\ call[p] # NoCall =>
         call[p] = [op |-> "get", shortCode |-> http[p].shortCode]
    /\ http[p].kind = "list" /\ call[p] # NoCall =>
         call[p] = [op |-> "getURLs", uid |-> http[p].uid]

\* The row of a code after its row was a: rows are marked, never removed.
Later(a, b) ==
  a # NoRow =>
    /\ b # NoRow /\ b.originalURL = a.originalURL /\ b.userID = a.userID
    /\ a.isDeleted => b.isDeleted

\* The row that a redirect was to find is still there.
Past(p) ==
  pc[p] # "idle" /\ http[p].kind = "redirect" =>
    Later(before[p], rows[http[p].shortCode])

\* The code is the sender's, and stands for the URL.
Mine(p, code, url) == StandsFor(code, url) /\ rows[code].userID = http[p].uid

\* What the answer of the repository still says of the rows.
CreateReturned(p) ==
  LET code == new[p][1].shortCode
  IN \/ /\ reply[p].err = "nil" /\ made[p] = {code}
        /\ Mine(p, code, Given(http[p])[1])
     \/ /\ made[p] = {}
        /\ \/ reply[p].err = "ErrConflictShortCode" /\ rows[code] # NoRow
           \/ /\ reply[p].err = "OriginalURLConflictError"
              /\ reply[p].shortCode \in ShortCodes
              /\ StandsFor(reply[p].shortCode, Given(http[p])[1])

BatchReturned(p) ==
  \/ /\ reply[p].err = "nil"
     /\ made[p] = {resp[p][k] : k \in DOMAIN resp[p]}
     /\ \A k \in DOMAIN resp[p] : Mine(p, resp[p][k], http[p].urls[k])
  \/ /\ made[p] = {} /\ reply[p].err = "BatchConflictError"
     /\ reply[p].index \in DOMAIN new[p]
     /\ Collides(new[p])

GetReturned(p) ==
  LET code == http[p].shortCode
  IN /\ made[p] = {}
     /\ \/ /\ reply[p].err = "nil" /\ reply[p].originalURL \in OriginalURLs
           /\ StandsFor(code, reply[p].originalURL)
           /\ before[p] # NoRow => ~before[p].isDeleted
        \/ reply[p].err = "ErrNotExists" /\ before[p] = NoRow
        \/ /\ reply[p].err = "ErrRowGone"
           /\ rows[code] # NoRow /\ rows[code].isDeleted

ListReturned(p) ==
  /\ made[p] = {}
  /\ \/ reply[p].err = "nil" /\ reply[p].shortCodes \in SUBSET ShortCodes
     \/ reply[p].err = "ErrNoRows"

Told(p) ==
  /\ Single(p) => CreateReturned(p)
  /\ http[p].kind = "batch" => BatchReturned(p)
  /\ http[p].kind = "redirect" => GetReturned(p)
  /\ http[p].kind = "list" => ListReturned(p)

\* The storage has failed, and stored the last attempt whole or not at all.
Unanswered(p) ==
  /\ repoErr[p] = "error" \/ (repoErr[p] = "ctx.Err" /\ gone[p])
  /\ made[p] = {} \/ made[p] = CodesOf(new[p])

Returned(p) ==
  pc[p] = "repo" /\ call[p] = NoCall =>
    Unanswered(p) \/ (repoErr[p] = reply[p].err /\ Told(p))

\* The three properties, of one handler and one answer.
Matches(p, status, codes) ==
  /\ status = 201 =>
       /\ Len(codes) = Len(Given(http[p]))
       /\ made[p] = {codes[k] : k \in DOMAIN codes}
       /\ \A k \in DOMAIN codes :
            /\ StandsFor(codes[k], Given(http[p])[k])
            /\ rows[codes[k]].userID = http[p].uid
       /\ codes \in Seq(ShortCodes)
  /\ status = 409 =>
       codes[1] \in ShortCodes /\ StandsFor(codes[1], Given(http[p])[1])
  /\ status # 201 /\ made[p] # {} =>
       StorageFailed(p) /\ made[p] = CodesOf(new[p])

Current(p, status, content) ==
  http[p].kind = "redirect" =>
    LET row == rows[http[p].shortCode]
    IN /\ status = 404 => before[p] = NoRow
       /\ status = 410 => row # NoRow /\ row.isDeleted
       /\ status = 307 =>
            /\ StandsFor(http[p].shortCode, content[1])
            /\ before[p] # NoRow => ~before[p].isDeleted

Caused(p, status) ==
  /\ status = 499 => gone[p]
  /\ status = 500 =>
       \/ repoErr[p] = "error"
       \/ http[p].kind = "redirect" /\ gone[p]
       \/ attempt[p] = 2 /\ Collides(new[p])
  /\ StorageFailed(p) => status \in {499, 500}

Right(p, status, content) ==
  Matches(p, status, content) /\ Current(p, status, content) /\ Caused(p, status)

Answered(p) ==
  pc[p] = "done" => Right(p, response[p].status, response[p].content)

HandlerInv(p) == Stage(p) /\ Sent(p) /\ Past(p) /\ Returned(p) /\ Answered(p)

IInv == Types /\ \A p \in Handlers : HandlerInv(p)

-----------------------------------------------------------------------------
(***************************************************************************)
(* Facts about the data.                                                   *)
(***************************************************************************)
\* The fields of an HTTP request, by its kind, and the URLs it gives on.
LEMMA HTTPShapes ==
  ASSUME NEW h \in HTTPRequests
  PROVE  /\ h.kind \in {"create", "shorten", "batch", "redirect", "list"}
         /\ h.kind \in {"create", "shorten"} =>
              /\ h.uid \in Users
              /\ Len(Given(h)) = 1 /\ Given(h)[1] \in Link
         /\ h.kind = "batch" =>
              h.uid \in Users /\ h.urls \in Seq(Link) /\ Given(h) = h.urls
         /\ h.kind = "redirect" => h.shortCode \in ShortCodes
         /\ h.kind = "list" => h.uid \in Users
<1>1. /\ h \in AnyHTTPRequest
      /\ h.kind \in {"create", "shorten"} => Len(h.urls) = 1
  BY HTTPRequestsAssumption
<1>2. /\ h.kind \in {"create", "shorten", "batch", "redirect", "list"}
      /\ h.kind \in {"create", "shorten"} => h.uid \in Users /\ h.urls \in Seq(Link)
      /\ h.kind = "batch" => h.uid \in Users /\ h.urls \in Seq(Link)
      /\ h.kind = "redirect" => h.shortCode \in ShortCodes
      /\ h.kind = "list" => h.uid \in Users
  BY <1>1 DEF AnyHTTPRequest
<1>3. h.kind = "batch" => Given(h) = h.urls
  BY DEF Given
<1>4. ASSUME h.kind \in {"create", "shorten"}
      PROVE  Len(Given(h)) = 1 /\ Given(h)[1] \in Link
  <2>1. h.urls[1] \in Link /\ Len(h.urls) = 1
    BY <1>1, <1>2, <1>4
  <2>2. FirstMiB[h.urls[1]] \in Link
    BY <2>1, HTTPRequestsAssumption
  <2>. QED
    BY <2>1, <2>2 DEF Given
<1>. QED
  BY <1>2, <1>3, <1>4

\* The errors that the answers of the store carry.
LEMMA ErrorNames == \A answer \in Answer : answer.err \in Errors
  BY DEF Answer, Errors, Nothing, CtxError, ErrConflictShortCode, ErrNotExists,
         ErrRowGone, ErrNoRows

\* The row that is made for a code and a URL.
LEMMA RowShape ==
  ASSUME NEW code \in ShortCodes, NEW url \in OriginalURLs, NEW uid \in Users
  PROVE  /\ Row(code, url, uid) \in NewURL
         /\ Row(code, url, uid).shortCode = code
         /\ Row(code, url, uid).originalURL = url
         /\ Row(code, url, uid).userID = uid
         /\ Row(code, url, uid) # NoRow
<1>1. Row(code, url, uid) \in ShortenedURL /\ ~Row(code, url, uid).isDeleted
  BY DEF Row, ShortenedURL
<1>2. Row(code, url, uid) \in NewURL
  BY <1>1 DEF NewURL
<1>. QED
  BY <1>1, <1>2, NoRowAssumption DEF Row

\* Another code for a row.
LEMMA RowRecoded ==
  ASSUME NEW a, NEW url, NEW uid, NEW code
  PROVE  [Row(a, url, uid) EXCEPT !.shortCode = code] = Row(code, url, uid)
<1>. DEFINE R(c, d) ==
              [shortCode |-> c, originalURL |-> url, userID |-> uid, isDeleted |-> d]
<1>1. \A d : [R(a, d) EXCEPT !.shortCode = code] = R(code, d)
  OBVIOUS
<1>2. Row(a, url, uid) = R(a, FALSE) /\ Row(code, url, uid) = R(code, FALSE)
  BY DEF Row
<1>. HIDE DEF R
<1>. QED
  BY <1>1, <1>2

\* Every step of every actor lets rows appear or be marked, nothing else.
Grows == \A c \in ShortCodes : Later(rows[c], rows'[c])

\* The step is not one of p.
Same(p) ==
  /\ call'[p] = call[p] /\ reply'[p] = reply[p]
  /\ http'[p] = http[p] /\ pc'[p] = pc[p] /\ gone'[p] = gone[p]
  /\ attempt'[p] = attempt[p] /\ new'[p] = new[p] /\ resp'[p] = resp[p]
  /\ repoErr'[p] = repoErr[p]
  /\ response'[p] = response[p] /\ before'[p] = before[p] /\ made'[p] = made[p]

\* What a code stands for is not changed by a step.
LEMMA StandsForStays ==
  ASSUME Types, Grows, NEW c \in ShortCodes
  PROVE  /\ rows[c] # NoRow => rows'[c] # NoRow
         /\ \A u : StandsFor(c, u) => StandsFor(c, u)'
         /\ \A p \in Handlers : \A u :
              Mine(p, c, u) /\ http'[p] = http[p] => Mine(p, c, u)'
         /\ rows[c] # NoRow => rows'[c].userID = rows[c].userID
         /\ rows[c] # NoRow /\ rows[c].isDeleted => rows'[c].isDeleted
  BY DEF Grows, Later, StandsFor, Mine

\* A batch that collides goes on colliding.
LEMMA CollidesStays ==
  ASSUME Types, Grows, NEW batch \in Seq(NewURL), Collides(batch)
  PROVE  Collides(batch)'
<1>1. \A k \in DOMAIN batch : batch[k].shortCode \in ShortCodes
  BY DEF NewURL, ShortenedURL
<1>2. \A k \in DOMAIN batch :
        rows[batch[k].shortCode] # NoRow => rows'[batch[k].shortCode] # NoRow
  BY <1>1, StandsForStays
<1>. QED
  BY <1>2 DEF Collides

\* What an answer of the repository tells of the rows stays true.
LEMMA ToldStays ==
  ASSUME Types, Grows, NEW p \in Handlers, Same(p), http[p] \in HTTPRequests,
         pc[p] = "repo", Sent(p), Told(p)
  PROVE  Told(p)'
<1>. USE DEF Same
<1>1. Single(p)' = Single(p)
  BY DEF Single
<1>2. Single(p) => CreateReturned(p)'
  <2>1. SUFFICES ASSUME Single(p)
                 PROVE  CreateReturned(p)'
    OBVIOUS
  <2>2. PICK code \in ShortCodes :
          new[p] = <<Row(code, Given(http[p])[1], http[p].uid)>>
    BY <2>1 DEF Sent, SentRow
  <2>3. new[p][1].shortCode = code
    BY <2>2 DEF Row
  <2>4. CreateReturned(p)
    BY <2>1 DEF Told
  <2>. QED
    BY <2>3, <2>4, StandsForStays DEF CreateReturned
<1>3. http[p].kind = "batch" => BatchReturned(p)'
  <2>1. SUFFICES ASSUME http[p].kind = "batch"
                 PROVE  BatchReturned(p)'
    OBVIOUS
  <2>2. BatchReturned(p)
    BY <2>1 DEF Told
  <2>3. \A k \in DOMAIN resp[p] : resp[p][k] \in ShortCodes
    BY DEF Types
  <2>4. Collides(new[p]) => Collides(new[p])'
    <3>1. new[p] \in Seq(NewURL)
      BY DEF Types
    <3>. QED
      BY <3>1, CollidesStays DEF Collides
  <2>. QED
    BY <2>2, <2>3, <2>4, StandsForStays DEF BatchReturned
<1>4. http[p].kind = "redirect" => GetReturned(p)'
  <2>1. SUFFICES ASSUME http[p].kind = "redirect"
                 PROVE  GetReturned(p)'
    OBVIOUS
  <2>2. GetReturned(p) /\ http[p].shortCode \in ShortCodes
    BY <2>1, HTTPShapes DEF Told
  <2>. QED
    BY <2>2, StandsForStays DEF GetReturned
<1>5. http[p].kind = "list" => ListReturned(p)'
  BY DEF Told, ListReturned
<1>. QED
  BY <1>1, <1>2, <1>3, <1>4, <1>5 DEF Told

\* The steps of the others do not disturb a handler.
LEMMA Undisturbed ==
  ASSUME Types, Grows, NEW p \in Handlers, Same(p), HandlerInv(p)
  PROVE  HandlerInv(p)'
<1>. USE DEF HandlerInv, Same
<1>1. Stage(p)'
  BY DEF Stage
<1>2. Sent(p)'
  BY DEF Sent, SentRow, SentBatch, Single
<1>3. Past(p)'
  <2>1. SUFFICES ASSUME pc[p] # "idle", http[p].kind = "redirect"
                 PROVE  Later(before[p], rows'[http[p].shortCode])
    BY DEF Past
  <2>2. http[p].shortCode \in ShortCodes
    BY <2>1, HTTPShapes DEF Stage
  <2>3. Later(before[p], rows[http[p].shortCode])
    BY <2>1 DEF Past
  <2>. QED
    BY <2>2, <2>3 DEF Grows, Later
<1>4. Returned(p)'
  <2>1. SUFFICES ASSUME pc[p] = "repo", call[p] = NoCall
                 PROVE  Returned(p)'
    BY DEF Returned
  <2>2. http[p] \in HTTPRequests /\ Sent(p) /\ Returned(p)
    BY <2>1 DEF Stage
  <2>3. CASE Unanswered(p)
    BY <2>1, <2>3 DEF Returned, Unanswered
  <2>4. CASE repoErr[p] = reply[p].err /\ Told(p)
    <3>1. Told(p)'
      BY <2>1, <2>2, <2>4, ToldStays
    <3>. QED
      BY <2>4, <3>1 DEF Returned
  <2>. QED
    BY <2>1, <2>2, <2>3, <2>4 DEF Returned
<1>5. Answered(p)'
  <2>1. SUFFICES ASSUME pc[p] = "done"
                 PROVE  Answered(p)'
    BY DEF Answered
  <2>. DEFINE status == response[p].status
              content == response[p].content
  <2>2. http[p] \in HTTPRequests /\ Right(p, status, content)
    BY <2>1 DEF Stage, Answered
  <2>3. Matches(p, status, content)'
    <3>1. Matches(p, status, content)
      BY <2>2 DEF Right
    <3>2. status = 201 => \A k \in DOMAIN content : content[k] \in ShortCodes
      BY <3>1 DEF Matches
    <3>3. status = 409 => StandsFor(content[1], Given(http[p])[1])'
      BY <3>1, StandsForStays DEF Matches
    <3>4. status = 201 =>
            \A k \in DOMAIN content :
              /\ StandsFor(content[k], Given(http[p])[k])'
              /\ rows'[content[k]].userID = http[p].uid
      BY <3>1, <3>2, StandsForStays DEF Matches, StandsFor
    <3>. QED
      BY <3>1, <3>3, <3>4 DEF Matches, StorageFailed
  <2>4. Current(p, status, content)'
    <3>1. CASE http[p].kind = "redirect"
      <4>1. Current(p, status, content) /\ http[p].shortCode \in ShortCodes
        BY <2>2, <3>1, HTTPShapes DEF Right
      <4>. QED
        BY <3>1, <4>1, StandsForStays DEF Current
    <3>2. CASE http[p].kind # "redirect"
      BY <3>2 DEF Current
    <3>. QED
      BY <3>1, <3>2
  <2>5. Caused(p, status)'
    <3>1. Caused(p, status) /\ new[p] \in Seq(NewURL)
      BY <2>2 DEF Right, Types
    <3>2. Collides(new[p]) => Collides(new[p])'
      BY <3>1, CollidesStays DEF Collides
    <3>. QED
      BY <3>1, <3>2 DEF Caused, StorageFailed
  <2>. QED
    BY <2>3, <2>4, <2>5 DEF Answered, Right
<1>. QED
  BY <1>1, <1>2, <1>3, <1>4, <1>5

-----------------------------------------------------------------------------
(***************************************************************************)
(* The steps of a handler.                                                 *)
(***************************************************************************)
\* A step of q keeps the invariant if it keeps q's part and the rows grow.
LEMMA StepOf ==
  ASSUME IInv, Types', Grows, NEW q \in Handlers,
         \A p \in Handlers \ {q} : Same(p), HandlerInv(q)'
  PROVE  IInv'
<1>1. \A p \in Handlers \ {q} : HandlerInv(p)'
  BY Undisturbed DEF IInv
<1>. QED
  BY <1>1 DEF IInv

\* Rows that do not change grow.
LEMMA GrowsTrivially ==
  ASSUME rows' = rows
  PROVE  Grows
  BY DEF Grows, Later

\* The clients are the handlers and the delete worker.
LEMMA HandlersAreClients == Handlers \subseteq Clients /\ Deleter \notin Handlers
  BY ClientsAssumption

\* An answer that is right when it is written keeps the invariant.
LEMMA RespondKeeps ==
  ASSUME IInv, NEW p \in Handlers, NEW status \in Statuses \ {0},
         NEW content \in Contents,
         pc[p] \in {"handler", "repo"}, call[p] = NoCall,
         Right(p, status, content), Respond(p, status, content)
  PROVE  IInv'
<1>1. p \in Clients
  BY HandlersAreClients
<1>2. Types /\ HandlerInv(p)
  BY DEF IInv
<1>3. Nothing \in Answer
  BY AnswerTypes
<1>4. [status |-> status, content |-> content]
        \in [status : Statuses, content : Contents]
  OBVIOUS
<1>5. Types'
  BY <1>2, <1>3, <1>4 DEF Types, Respond
<1>6. Grows
  BY GrowsTrivially DEF Respond
<1>7. \A q \in Handlers \ {p} : Same(q)
  BY <1>2 DEF Types, Respond, Same
<1>8. /\ pc'[p] = "done" /\ call'[p] = NoCall
      /\ response'[p].status = status /\ response'[p].content = content
      /\ UNCHANGED <<rows, http, gone, attempt, new, repoErr, before, made>>
  BY <1>2 DEF Types, Respond
<1>9. HandlerInv(p)'
  <2>1. Stage(p)'
    BY <1>2, <1>8 DEF HandlerInv, Stage
  <2>2. Sent(p)' /\ Returned(p)'
    BY <1>8 DEF Sent, Returned
  <2>3. Past(p)'
    BY <1>2, <1>8 DEF HandlerInv, Past
  <2>4. Answered(p)'
    BY <1>8 DEF Answered, Right, Matches, Current, Caused, StandsFor, Collides, StorageFailed
  <2>. QED
    BY <2>1, <2>2, <2>3, <2>4 DEF HandlerInv
<1>. QED
  BY <1>5, <1>6, <1>7, <1>9, StepOf

\* A call that carries the rows of the request keeps the invariant.
LEMMA CallKeeps ==
  ASSUME IInv, NEW p \in Handlers, NEW r \in AnyRequest, CallRepo(p, r),
         new' \in [Handlers -> Seq(NewURL)], resp' \in [Handlers -> Seq(ShortCodes)],
         attempt' \in [Handlers -> 0 .. 2],
         \A q \in Handlers \ {p} :
           new'[q] = new[q] /\ resp'[q] = resp[q] /\ attempt'[q] = attempt[q],
         pc[p] \in {"handler", "repo"}, made[p] = {}, Sent(p)'
  PROVE  IInv'
<1>1. p \in Clients
  BY HandlersAreClients
<1>2. Types /\ HandlerInv(p)
  BY DEF IInv
<1>3. Types'
  BY <1>2 DEF Types, CallRepo
<1>4. Grows
  BY GrowsTrivially DEF CallRepo
<1>5. \A q \in Handlers \ {p} : Same(q)
  BY <1>2, HandlersAreClients DEF Types, CallRepo, Same
<1>6. /\ pc'[p] = "repo" /\ call'[p] = r
      /\ UNCHANGED <<rows, http, gone, repoErr, response, before, made>>
  BY <1>1, <1>2 DEF Types, CallRepo
<1>7. call'[p] # NoCall
  BY <1>6, HandlersCallAssumption
<1>8. HandlerInv(p)'
  <2>1. Stage(p)'
    BY <1>2, <1>6, <1>7 DEF HandlerInv, Stage
  <2>2. Past(p)'
    BY <1>2, <1>6 DEF HandlerInv, Past
  <2>3. Answered(p)' /\ Returned(p)'
    BY <1>6, <1>7 DEF Answered, Returned
  <2>. QED
    BY <2>1, <2>2, <2>3 DEF HandlerInv
<1>. QED
  BY <1>3, <1>4, <1>5, <1>8, StepOf

\* <<>> is a sequence of anything.
LEMMA EmptyContent == <<>> \in Contents
<1>1. <<>> \in Seq(ShortCodes)
  OBVIOUS
<1>. QED
  BY <1>1 DEF Contents

\* The loops try with the attempts 0, 1 and 2.
LEMMA AttemptBounds ==
  ASSUME IInv, NEW p \in Handlers
  PROVE  /\ MayRetry(p) => attempt[p] + 1 \in 0 .. 2
         /\ ~MayRetry(p) => attempt[p] = 2
<1>1. attempt[p] \in 0 .. 2
  BY DEF IInv, Types
<1>. QED
  BY <1>1 DEF MayRetry

\* The server starts with nothing sent and nothing answered.
THEOREM InitInv == ServiceInit => IInv
<1>1. SUFFICES ASSUME ServiceInit
               PROVE  IInv
  OBVIOUS
<1>2. Nothing \in Answer
  BY AnswerTypes
<1>3. NoResponse \in [status : Statuses, content : Contents]
  BY EmptyContent DEF NoResponse, Statuses
<1>4. Types
  BY <1>1, <1>2, <1>3 DEF ServiceInit, StoreInit, Types, Errors
<1>5. \A p \in Handlers : HandlerInv(p)
  <2>1. SUFFICES ASSUME NEW p \in Handlers
                 PROVE  HandlerInv(p)
    OBVIOUS
  <2>2. /\ pc[p] = "idle" /\ call[p] = NoCall /\ made[p] = {}
        /\ response[p].status = 0 /\ repoErr[p] = "nil"
    BY <1>1, HandlersAreClients DEF ServiceInit, StoreInit, NoResponse
  <2>. QED
    BY <2>2 DEF HandlerInv, Stage, Sent, Past, Returned, Answered
<1>. QED
  BY <1>4, <1>5 DEF IInv

\* A new request starts with nothing sent and nothing stored.
LEMMA ArriveKeeps ==
  ASSUME IInv, NEW p \in Handlers, Arrive(p)
  PROVE  IInv'
<1>. USE DEF Arrive, storeVars
<1>1. Types /\ HandlerInv(p)
  BY DEF IInv
<1>2. PICK h \in HTTPRequests :
        /\ http' = [http EXCEPT ![p] = h]
        /\ before' = [before EXCEPT ![p] =
                        IF h.kind = "redirect" THEN rows[h.shortCode] ELSE NoRow]
  OBVIOUS
<1>3. h.kind = "redirect" => rows[h.shortCode] \in ShortenedURL \cup {NoRow}
  BY <1>1, HTTPShapes DEF Types
<1>4. NoResponse \in [status : Statuses, content : Contents]
  BY EmptyContent DEF NoResponse, Statuses
<1>5. before' \in [Handlers -> ShortenedURL \cup {NoRow}]
  BY <1>1, <1>2, <1>3 DEF Types
<1>6. Types'
  BY <1>1, <1>2, <1>4, <1>5 DEF Types, Errors
<1>7. Grows
  BY GrowsTrivially
<1>8. \A q \in Handlers \ {p} : Same(q)
  BY <1>1, <1>2 DEF Types, Same
<1>9. /\ pc'[p] = "handler" /\ http'[p] = h /\ call'[p] = call[p]
      /\ response'[p].status = 0 /\ made'[p] = {} /\ rows' = rows
      /\ repoErr'[p] = "nil"
      /\ h.kind = "redirect" => before'[p] = rows[h.shortCode]
  BY <1>1, <1>2 DEF Types, NoResponse
<1>10. call[p] = NoCall
  BY <1>1 DEF HandlerInv, Stage
<1>11. Past(p)'
  BY <1>9 DEF Past, Later
<1>12. HandlerInv(p)'
  BY <1>9, <1>10, <1>11 DEF HandlerInv, Stage, Sent, Returned, Answered
<1>. QED
  BY <1>6, <1>7, <1>8, <1>12, StepOf

\* The client leaves; what is said of a cancelled context becomes true.
LEMMA ClientGoesKeeps ==
  ASSUME IInv, NEW p \in Handlers, ClientGoes(p)
  PROVE  IInv'
<1>. USE DEF ClientGoes, storeVars
<1>1. Types /\ HandlerInv(p)
  BY DEF IInv
<1>2. Types'
  BY <1>1 DEF Types
<1>3. Grows
  BY GrowsTrivially
<1>4. \A q \in Handlers \ {p} : Same(q)
  BY <1>1 DEF Types, Same
<1>5. gone'[p] /\ pc[p] # "done"
  BY <1>1 DEF Types
<1>6. Returned(p)'
  <2>1. Returned(p)
    BY <1>1 DEF HandlerInv
  <2>2. Unanswered(p) => Unanswered(p)'
    BY <1>5 DEF Unanswered
  <2>3. CreateReturned(p) => CreateReturned(p)'
    BY DEF CreateReturned, Mine, StandsFor
  <2>4. BatchReturned(p) => BatchReturned(p)'
    BY DEF BatchReturned, Mine, StandsFor, Collides
  <2>5. GetReturned(p) => GetReturned(p)'
    BY DEF GetReturned, StandsFor
  <2>6. ListReturned(p) => ListReturned(p)'
    BY DEF ListReturned
  <2>7. Told(p) => Told(p)'
    BY <2>3, <2>4, <2>5, <2>6 DEF Told, Single
  <2>. QED
    BY <2>1, <2>2, <2>7 DEF Returned
<1>7. Stage(p)' /\ Past(p)' /\ Answered(p)'
  BY <1>1, <1>5 DEF HandlerInv, Stage, Past, Answered
<1>8. Sent(p)'
  BY <1>1 DEF HandlerInv, Sent, SentRow, SentBatch, Single
<1>9. HandlerInv(p)'
  BY <1>6, <1>7, <1>8 DEF HandlerInv
<1>. QED
  BY <1>2, <1>3, <1>4, <1>9, StepOf

\* One turn of CreateShortURL's loop.
LEMMA TryCreateKeeps ==
  ASSUME IInv, NEW p \in Handlers, NEW k \in 0 .. 2, TryCreate(p, k),
         http[p] \in HTTPRequests, Single(p),
         Given(http[p])[1] # NotURL, pc[p] \in {"handler", "repo"}, made[p] = {}
  PROVE  IInv'
<1>1. Types
  BY DEF IInv
<1>2. PICK code \in ShortCodes :
        LET row == Row(code, Given(http[p])[1], http[p].uid)
        IN /\ new' = [new EXCEPT ![p] = <<row>>]
           /\ attempt' = [attempt EXCEPT ![p] = k]
           /\ CallRepo(p, [op |-> "create", row |-> row])
           /\ UNCHANGED resp
  BY DEF TryCreate
<1>. DEFINE row == Row(code, Given(http[p])[1], http[p].uid)
            r == [op |-> "create", row |-> row]
<1>3. Given(http[p])[1] \in OriginalURLs /\ http[p].uid \in Users
  BY HTTPShapes DEF Link, Single
<1>4. row \in NewURL
  BY <1>3, RowShape
<1>5. r \in AnyRequest
  BY <1>4 DEF AnyRequest, CreateRequest
<1>. HIDE DEF row
<1>6. <<row>> \in Seq(NewURL)
  BY <1>4
<1>7. /\ new' \in [Handlers -> Seq(NewURL)]
      /\ resp' \in [Handlers -> Seq(ShortCodes)]
      /\ attempt' \in [Handlers -> 0 .. 2]
  BY <1>1, <1>2, <1>6 DEF Types, row
<1>8. \A q \in Handlers \ {p} :
        new'[q] = new[q] /\ resp'[q] = resp[q] /\ attempt'[q] = attempt[q]
  BY <1>1, <1>2 DEF Types
<1>9. CallRepo(p, r)
  BY <1>2 DEF row
<1>10. /\ http'[p] = http[p] /\ call'[p] = r /\ new'[p] = <<row>>
  BY <1>1, <1>2, <1>9, HandlersAreClients DEF Types, CallRepo, row
<1>11. <<row>>[1] = row
  OBVIOUS
<1>12. Sent(p)'
  BY <1>10, <1>11 DEF Sent, SentRow, Single, row
<1>. HIDE DEF r
<1>. QED
  BY <1>5, <1>7, <1>8, <1>9, <1>12, CallKeeps

\* An answer by a handler that has not called the repository.
LEMMA RefusalKeeps ==
  ASSUME IInv, NEW p \in Handlers, pc[p] = "handler",
         NEW status \in {400, 413, 499, 500}, Respond(p, status, <<>>),
         status = 499 => gone[p],
         status = 500 => http[p].kind = "redirect" /\ gone[p]
  PROVE  IInv'
<1>1. call[p] = NoCall /\ made[p] = {} /\ repoErr[p] = "nil"
  BY DEF IInv, HandlerInv, Stage
<1>2. Right(p, status, <<>>)
  BY <1>1 DEF Right, Matches, Current, Caused, Single, StorageFailed
<1>3. status \in Statuses \ {0}
  BY DEF Statuses
<1>. QED
  BY <1>1, <1>2, <1>3, EmptyContent, RespondKeeps

\* The answers of CreateShortURL that need no repository, and the first try.
LEMMA CreateShortURLKeeps ==
  ASSUME IInv, NEW p \in Handlers, pc[p] = "handler", Single(p), CreateShortURL(p)
  PROVE  IInv'
<1>1. http[p] \in HTTPRequests /\ made[p] = {}
  BY DEF IInv, HandlerInv, Stage
<1>2. CASE gone[p] /\ Respond(p, 499, <<>>)
  BY <1>2, RefusalKeeps
<1>3. CASE Respond(p, 400, <<>>)
  BY <1>3, RefusalKeeps
<1>4. CASE Given(http[p])[1] # NotURL /\ TryCreate(p, 0)
  BY <1>1, <1>4, TryCreateKeeps
<1>. QED
  BY <1>2, <1>3, <1>4 DEF CreateShortURL

\* Shorten and Create: a body that is refused, and one that is not.
LEMMA ShortenKeeps ==
  ASSUME IInv, NEW p \in Handlers, Shorten(p) \/ CreateText(p)
  PROVE  IInv'
<1>1. pc[p] = "handler" /\ Single(p)
  BY DEF Shorten, CreateText, Serves, Single
<1>2. CASE Respond(p, 400, <<>>)
  BY <1>1, <1>2, RefusalKeeps
<1>3. CASE CreateShortURL(p)
  BY <1>1, <1>3, CreateShortURLKeeps
<1>. QED
  BY <1>2, <1>3 DEF Shorten, CreateText

\* The answers to a failure of the storage are right.
LEMMA FailureKeeps ==
  ASSUME IInv, NEW p \in Handlers, pc[p] = "repo", call[p] = NoCall, Unanswered(p),
         NEW status \in {499, 500}, Respond(p, status, <<>>),
         \/ repoErr[p] = "error" /\ status = 500
         \/ repoErr[p] = "ctx.Err" /\ (status = 500 => http[p].kind = "redirect")
  PROVE  IInv'
<1>1. Right(p, status, <<>>)
  BY DEF Unanswered, Right, Matches, Current, Caused, StorageFailed
<1>2. status \in Statuses \ {0}
  BY DEF Statuses
<1>. QED
  BY <1>1, <1>2, EmptyContent, RespondKeeps

\* A handler holds an answer of the repository, or its failure.
LEMMA Holds ==
  ASSUME IInv, NEW p \in Handlers, pc[p] = "repo", call[p] = NoCall
  PROVE  /\ http[p] \in HTTPRequests /\ Sent(p)
         /\ repoErr[p] \in {"error", "ctx.Err"} => Unanswered(p)
         /\ repoErr[p] \notin {"error", "ctx.Err"} =>
              ~StorageFailed(p) /\ repoErr[p] = reply[p].err /\ Told(p)
<1>1. HandlerInv(p)
  BY DEF IInv
<1>2. http[p] \in HTTPRequests /\ Sent(p)
  BY <1>1 DEF HandlerInv, Stage
<1>3. Unanswered(p) => repoErr[p] \in {"error", "ctx.Err"}
  BY DEF Unanswered
<1>4. Told(p) => reply[p].err \notin {"error", "ctx.Err"}
  BY <1>2, HTTPShapes
  DEF Told, Single, CreateReturned, BatchReturned, GetReturned, ListReturned
<1>5. Unanswered(p) \/ (repoErr[p] = reply[p].err /\ Told(p))
  BY <1>1 DEF HandlerInv, Returned
<1>. QED
  BY <1>2, <1>3, <1>4, <1>5 DEF StorageFailed

\* What CreateShortURL makes of the answer of the repository.
LEMMA AfterCreateKeeps ==
  ASSUME IInv, NEW p \in Handlers, AfterCreate(p)
  PROVE  IInv'
<1>1. pc[p] = "repo" /\ call[p] = NoCall /\ Single(p)
  BY DEF AfterCreate, Single
<1>2. /\ http[p] \in HTTPRequests /\ SentRow(p)
      /\ repoErr[p] \in {"error", "ctx.Err"} => Unanswered(p)
      /\ repoErr[p] \notin {"error", "ctx.Err"} =>
           ~StorageFailed(p) /\ repoErr[p] = reply[p].err /\ CreateReturned(p)
  BY <1>1, Holds DEF Sent, Told
<1>3. PICK code \in ShortCodes :
        new[p] = <<Row(code, Given(http[p])[1], http[p].uid)>>
  BY <1>2 DEF SentRow
<1>4. new[p][1].shortCode = code /\ Len(new[p]) = 1 /\ DOMAIN new[p] = {1}
  BY <1>3 DEF Row
<1>5. CASE repoErr[p] = "nil"
  <2>1. Respond(p, 201, <<code>>)
    BY <1>4, <1>5 DEF AfterCreate
  <2>2. ~StorageFailed(p) /\ made[p] = {code} /\ Mine(p, code, Given(http[p])[1])
    BY <1>2, <1>4, <1>5 DEF CreateReturned
  <2>3. /\ <<code>> \in Seq(ShortCodes) /\ Len(<<code>>) = 1
        /\ DOMAIN <<code>> = {1} /\ <<code>>[1] = code
    OBVIOUS
  <2>4. Len(Given(http[p])) = 1
    BY <1>1, <1>2, HTTPShapes DEF Single
  <2>5. Right(p, 201, <<code>>)
    BY <1>1, <2>2, <2>3, <2>4 DEF Right, Matches, Current, Caused, Single, Mine
  <2>6. <<code>> \in Contents /\ 201 \in Statuses \ {0}
    BY <2>3 DEF Contents, Statuses
  <2>. QED
    BY <1>1, <2>1, <2>5, <2>6, RespondKeeps
<1>6. CASE /\ repoErr[p] = "ErrConflictShortCode" /\ MayRetry(p)
           /\ TryCreate(p, attempt[p] + 1)
  <2>1. attempt[p] + 1 \in 0 .. 2
    BY <1>6, AttemptBounds
  <2>2. made[p] = {} /\ Given(http[p])[1] # NotURL
    BY <1>2, <1>6 DEF CreateReturned, SentRow
  <2>. QED
    BY <1>1, <1>2, <1>6, <2>1, <2>2, TryCreateKeeps
<1>7. CASE /\ repoErr[p] = "ErrConflictShortCode" /\ ~MayRetry(p)
           /\ Respond(p, 500, <<>>)
  <2>1. attempt[p] = 2
    BY <1>7, AttemptBounds
  <2>2. ~StorageFailed(p) /\ made[p] = {} /\ rows[code] # NoRow
    BY <1>2, <1>4, <1>7 DEF CreateReturned
  <2>3. Collides(new[p])
    BY <1>4, <2>2 DEF Collides
  <2>4. Right(p, 500, <<>>)
    BY <1>1, <2>1, <2>2, <2>3 DEF Right, Matches, Current, Caused, Single
  <2>. QED
    BY <1>1, <1>7, <2>4, EmptyContent, RespondKeeps DEF Statuses
<1>8. CASE /\ repoErr[p] = "OriginalURLConflictError"
           /\ Respond(p, 409, <<reply[p].shortCode>>)
  <2>. DEFINE known == reply[p].shortCode
  <2>1. /\ ~StorageFailed(p) /\ made[p] = {} /\ known \in ShortCodes
        /\ StandsFor(known, Given(http[p])[1])
    BY <1>2, <1>8 DEF CreateReturned
  <2>2. <<known>> \in Seq(ShortCodes) /\ <<known>>[1] = known
    BY <2>1
  <2>3. Right(p, 409, <<known>>)
    BY <1>1, <2>1, <2>2 DEF Right, Matches, Current, Caused, Single
  <2>4. <<known>> \in Contents /\ 409 \in Statuses \ {0}
    BY <2>2 DEF Contents, Statuses
  <2>. QED
    BY <1>1, <1>8, <2>3, <2>4, RespondKeeps
<1>9. CASE \/ repoErr[p] = "ctx.Err" /\ Respond(p, 499, <<>>)
           \/ repoErr[p] = "error" /\ Respond(p, 500, <<>>)
  BY <1>1, <1>2, <1>9, FailureKeeps
<1>. QED
  BY <1>5, <1>6, <1>7, <1>8, <1>9 DEF AfterCreate

\* A try of CreateURLBatch: a code for each URL, in the batch and the answer.
LEMMA TryBatchKeeps ==
  ASSUME IInv, NEW p \in Handlers, NEW k \in 0 .. 2,
         NEW batch \in Seq(NewURL), NEW codes \in Seq(ShortCodes),
         TryBatch(p, k, batch, codes),
         http[p].kind = "batch", pc[p] \in {"handler", "repo"}, made[p] = {},
         Len(batch) = Len(http[p].urls), Len(codes) = Len(http[p].urls),
         \A j \in DOMAIN http[p].urls :
           /\ http[p].urls[j] # NotURL
           /\ batch[j] = Row(codes[j], http[p].urls[j], http[p].uid)
  PROVE  IInv'
<1>1. Types
  BY DEF IInv
<1>. DEFINE r == [op |-> "createBatch", rows |-> batch]
<1>2. r \in AnyRequest
  BY DEF AnyRequest, CreateBatchRequest
<1>3. /\ new' = [new EXCEPT ![p] = batch] /\ resp' = [resp EXCEPT ![p] = codes]
      /\ attempt' = [attempt EXCEPT ![p] = k] /\ CallRepo(p, r)
  BY DEF TryBatch
<1>. HIDE DEF r
<1>4. /\ new' \in [Handlers -> Seq(NewURL)]
      /\ resp' \in [Handlers -> Seq(ShortCodes)]
      /\ attempt' \in [Handlers -> 0 .. 2]
  BY <1>1, <1>3 DEF Types
<1>5. \A q \in Handlers \ {p} :
        new'[q] = new[q] /\ resp'[q] = resp[q] /\ attempt'[q] = attempt[q]
  BY <1>1, <1>3 DEF Types
<1>6. /\ http'[p] = http[p] /\ call'[p] = r /\ new'[p] = batch /\ resp'[p] = codes
  BY <1>1, <1>3, HandlersAreClients DEF Types, CallRepo
<1>7. SentBatch(p)'
  BY <1>6 DEF SentBatch, r
<1>8. Sent(p)'
  BY <1>6, <1>7 DEF Sent, Single
<1>. QED
  BY <1>2, <1>3, <1>4, <1>5, <1>8, CallKeeps

\* ShortenBatch: the refusals, and the first try.
LEMMA ShortenBatchKeeps ==
  ASSUME IInv, NEW p \in Handlers, ShortenBatch(p)
  PROVE  IInv'
<1>1. Types /\ HandlerInv(p) /\ pc[p] = "handler" /\ http[p].kind = "batch"
  BY DEF IInv, ShortenBatch, Serves
<1>2. http[p] \in HTTPRequests /\ call[p] = NoCall /\ made[p] = {}
  BY <1>1 DEF HandlerInv, Stage
<1>3. CASE \E status \in {400, 413, 499} :
             Respond(p, status, <<>>) /\ (status = 499 => gone[p])
  BY <1>1, <1>3, RefusalKeeps
<1>. DEFINE urls == http[p].urls
            batch(codes) ==
              [k \in DOMAIN urls |-> Row(codes[k], urls[k], http[p].uid)]
<1>4. CASE /\ \A k \in DOMAIN urls : urls[k] # NotURL
           /\ \E codes \in [DOMAIN urls -> ShortCodes] :
                TryBatch(p, 0, batch(codes), codes)
  <2>1. PICK codes \in [DOMAIN urls -> ShortCodes] :
          TryBatch(p, 0, batch(codes), codes)
    BY <1>4
  <2>2. urls \in Seq(Link) /\ http[p].uid \in Users
    BY <1>1, <1>2, HTTPShapes
  <2>3. \A k \in DOMAIN urls : urls[k] \in OriginalURLs
    BY <1>4, <2>2 DEF Link
  <2>4. codes \in Seq(ShortCodes) /\ Len(codes) = Len(urls)
    BY <2>2
  <2>5. \A k \in DOMAIN urls : Row(codes[k], urls[k], http[p].uid) \in NewURL
    BY <2>2, <2>3, RowShape
  <2>6. /\ batch(codes) \in Seq(NewURL) /\ Len(batch(codes)) = Len(urls)
    BY <2>2, <2>5
  <2>7. \A k \in DOMAIN urls :
          /\ urls[k] # NotURL
          /\ batch(codes)[k] = Row(codes[k], urls[k], http[p].uid)
    BY <1>4
  <2>. HIDE DEF batch
  <2>. QED
    BY <1>1, <1>2, <2>1, <2>4, <2>6, <2>7, TryBatchKeeps
<1>5. \/ \E status \in {400, 413, 499} :
           Respond(p, status, <<>>) /\ (status = 499 => gone[p])
      \/ /\ \A k \in DOMAIN urls : urls[k] # NotURL
         /\ \E codes \in [DOMAIN urls -> ShortCodes] :
              TryBatch(p, 0, batch(codes), codes)
  BY DEF ShortenBatch
<1>. QED
  BY <1>3, <1>4, <1>5

\* A new code for one row keeps batch and answer in step with the request.
LEMMA RetryBatchKeeps ==
  ASSUME IInv, NEW p \in Handlers, NEW j \in DOMAIN new[p],
         http[p] \in HTTPRequests, http[p].kind = "batch", pc[p] = "repo",
         made[p] = {}, SentBatch(p), MayRetry(p), RetryBatch(p, j)
  PROVE  IInv'
<1>1. Types
  BY DEF IInv
<1>. DEFINE batch(code) == [new[p] EXCEPT ![j].shortCode = code]
            codes(code) == [resp[p] EXCEPT ![j] = code]
<1>2. PICK code \in ShortCodes :
        TryBatch(p, attempt[p] + 1, batch(code), codes(code))
  BY DEF RetryBatch
<1>3. new[p] \in Seq(NewURL) /\ resp[p] \in Seq(ShortCodes)
  BY <1>1 DEF Types
<1>4. Len(new[p]) = Len(http[p].urls) /\ Len(resp[p]) = Len(http[p].urls)
  BY DEF SentBatch
<1>5. http[p].urls \in Seq(Link) /\ http[p].uid \in Users
  BY HTTPShapes
<1>6. /\ DOMAIN new[p] = DOMAIN http[p].urls
      /\ DOMAIN resp[p] = DOMAIN http[p].urls
  BY <1>3, <1>4, <1>5
<1>7. \A k \in DOMAIN http[p].urls : http[p].urls[k] \in OriginalURLs
  BY <1>5 DEF SentBatch, Link
<1>8. codes(code) \in Seq(ShortCodes) /\ Len(codes(code)) = Len(http[p].urls)
  BY <1>3, <1>4
<1>9. \A k \in DOMAIN http[p].urls :
        batch(code)[k] = Row(codes(code)[k], http[p].urls[k], http[p].uid)
  <2>1. SUFFICES ASSUME NEW k \in DOMAIN http[p].urls
                 PROVE  batch(code)[k]
                          = Row(codes(code)[k], http[p].urls[k], http[p].uid)
    OBVIOUS
  <2>2. new[p][k] = Row(resp[p][k], http[p].urls[k], http[p].uid)
    BY DEF SentBatch
  <2>3. CASE k # j
    <3>1. batch(code)[k] = new[p][k] /\ codes(code)[k] = resp[p][k]
      BY <1>3, <1>6, <2>3
    <3>. QED
      BY <2>2, <3>1
  <2>4. CASE k = j
    <3>1. batch(code)[k] = [new[p][k] EXCEPT !.shortCode = code]
      BY <1>3, <1>6, <2>4
    <3>2. codes(code)[k] = code
      BY <1>3, <1>6, <2>4
    <3>. HIDE DEF batch, codes
    <3>. QED
      BY <2>2, <3>1, <3>2, RowRecoded
  <2>. QED
    BY <2>3, <2>4
<1>10. \A k \in DOMAIN http[p].urls : codes(code)[k] \in ShortCodes
  BY <1>3, <1>6
<1>11. \A k \in DOMAIN http[p].urls : batch(code)[k] \in NewURL
  BY <1>5, <1>7, <1>9, <1>10, RowShape
<1>12. batch(code) \in Seq(NewURL) /\ Len(batch(code)) = Len(http[p].urls)
  BY <1>3, <1>4, <1>6, <1>11
<1>13. attempt[p] + 1 \in 0 .. 2
  BY AttemptBounds
<1>14. \A k \in DOMAIN http[p].urls : http[p].urls[k] # NotURL
  BY DEF SentBatch
<1>. HIDE DEF batch, codes
<1>. QED
  BY <1>2, <1>8, <1>9, <1>12, <1>13, <1>14, TryBatchKeeps

\* What CreateURLBatch makes of the answer of the repository.
LEMMA AfterBatchKeeps ==
  ASSUME IInv, NEW p \in Handlers, AfterBatch(p)
  PROVE  IInv'
<1>1. pc[p] = "repo" /\ call[p] = NoCall /\ http[p].kind = "batch"
  BY DEF AfterBatch
<1>2. /\ http[p] \in HTTPRequests /\ SentBatch(p) /\ Given(http[p]) = http[p].urls
      /\ repoErr[p] \in {"error", "ctx.Err"} => Unanswered(p)
      /\ repoErr[p] \notin {"error", "ctx.Err"} =>
           ~StorageFailed(p) /\ repoErr[p] = reply[p].err /\ BatchReturned(p)
  BY <1>1, Holds, HTTPShapes DEF Sent, Told
<1>3. CASE repoErr[p] = "nil" /\ Respond(p, 201, resp[p])
  <2>1. resp[p] \in Seq(ShortCodes)
    BY DEF IInv, Types
  <2>2. /\ ~StorageFailed(p) /\ made[p] = {resp[p][k] : k \in DOMAIN resp[p]}
        /\ \A k \in DOMAIN resp[p] : Mine(p, resp[p][k], http[p].urls[k])
    BY <1>2, <1>3 DEF BatchReturned
  <2>3. Right(p, 201, resp[p])
    BY <1>1, <1>2, <2>1, <2>2
    DEF Right, Matches, Current, Caused, Mine, SentBatch
  <2>4. resp[p] \in Contents /\ 201 \in Statuses \ {0}
    BY <2>1 DEF Contents, Statuses
  <2>. QED
    BY <1>1, <1>3, <2>3, <2>4, RespondKeeps
<1>4. CASE /\ repoErr[p] = "BatchConflictError" /\ MayRetry(p)
           /\ RetryBatch(p, reply[p].index)
  <2>1. made[p] = {} /\ reply[p].index \in DOMAIN new[p]
    BY <1>2, <1>4 DEF BatchReturned
  <2>. QED
    BY <1>1, <1>2, <1>4, <2>1, RetryBatchKeeps
<1>5. CASE /\ repoErr[p] = "BatchConflictError" /\ ~MayRetry(p)
           /\ Respond(p, 500, <<>>)
  <2>1. attempt[p] = 2
    BY <1>5, AttemptBounds
  <2>2. ~StorageFailed(p) /\ made[p] = {} /\ Collides(new[p])
    BY <1>2, <1>5 DEF BatchReturned
  <2>3. Right(p, 500, <<>>)
    BY <1>1, <2>1, <2>2 DEF Right, Matches, Current, Caused
  <2>. QED
    BY <1>1, <1>5, <2>3, EmptyContent, RespondKeeps DEF Statuses
<1>6. CASE \/ repoErr[p] = "ctx.Err" /\ Respond(p, 499, <<>>)
           \/ repoErr[p] = "error" /\ Respond(p, 500, <<>>)
  BY <1>1, <1>2, <1>6, FailureKeeps
<1>. QED
  BY <1>3, <1>4, <1>5, <1>6 DEF AfterBatch

\* A call of a method that reads: Get and GetURLs.
LEMMA ReadKeeps ==
  ASSUME IInv, NEW p \in Handlers, NEW r \in AnyRequest, CallRepo(p, r),
         UNCHANGED <<attempt, new, resp>>, pc[p] = "handler", made[p] = {},
         \/ /\ http[p].kind = "redirect"
            /\ r = [op |-> "get", shortCode |-> http[p].shortCode]
         \/ http[p].kind = "list" /\ r = [op |-> "getURLs", uid |-> http[p].uid]
  PROVE  IInv'
<1>1. Types
  BY DEF IInv
<1>2. /\ new' \in [Handlers -> Seq(NewURL)]
      /\ resp' \in [Handlers -> Seq(ShortCodes)]
      /\ attempt' \in [Handlers -> 0 .. 2]
  BY <1>1 DEF Types
<1>3. http'[p] = http[p] /\ call'[p] = r
  BY <1>1, HandlersAreClients DEF Types, CallRepo
<1>4. Sent(p)'
  BY <1>3 DEF Sent, Single
<1>. QED
  BY <1>2, <1>4, CallKeeps

\* Redirect.
LEMMA RedirectKeeps ==
  ASSUME IInv, NEW p \in Handlers, Redirect(p)
  PROVE  IInv'
<1>1. Types /\ HandlerInv(p) /\ pc[p] = "handler" /\ http[p].kind = "redirect"
  BY DEF IInv, Redirect, Serves
<1>2. http[p] \in HTTPRequests /\ call[p] = NoCall /\ made[p] = {}
  BY <1>1 DEF HandlerInv, Stage
<1>3. CASE gone[p] /\ Respond(p, 500, <<>>)
  BY <1>1, <1>3, RefusalKeeps
<1>. DEFINE r == [op |-> "get", shortCode |-> http[p].shortCode]
<1>4. CASE CallRepo(p, r) /\ UNCHANGED <<attempt, new, resp>>
  <2>1. http[p].shortCode \in ShortCodes
    BY <1>1, <1>2, HTTPShapes
  <2>2. r \in AnyRequest
    BY <2>1 DEF AnyRequest, GetRequest
  <2>. QED
    BY <1>1, <1>2, <1>4, <2>2, ReadKeeps
<1>. QED
  BY <1>3, <1>4 DEF Redirect

\* What Redirect makes of the answer of Get.
LEMMA AfterGetKeeps ==
  ASSUME IInv, NEW p \in Handlers, AfterGet(p)
  PROVE  IInv'
<1>1. pc[p] = "repo" /\ call[p] = NoCall /\ http[p].kind = "redirect"
  BY DEF AfterGet
<1>2. /\ repoErr[p] \in {"error", "ctx.Err"} => Unanswered(p)
      /\ repoErr[p] \notin {"error", "ctx.Err"} =>
           ~StorageFailed(p) /\ repoErr[p] = reply[p].err /\ GetReturned(p)
  BY <1>1, Holds DEF Told
<1>. DEFINE status == RedirectStatus(repoErr[p])
            content ==
              IF repoErr[p] = "nil" THEN <<reply[p].originalURL>> ELSE <<>>
<1>3. Respond(p, status, content)
  BY DEF AfterGet
<1>4. CASE repoErr[p] \in {"error", "ctx.Err"}
  <2>1. status = 500 /\ content = <<>>
    BY <1>4 DEF RedirectStatus
  <2>. QED
    BY <1>1, <1>2, <1>3, <1>4, <2>1, FailureKeeps
<1>5. CASE repoErr[p] \notin {"error", "ctx.Err"}
  <2>1. repoErr[p] \in {"nil", "ErrNotExists", "ErrRowGone"}
    BY <1>2, <1>5 DEF GetReturned
  <2>2. content \in Contents /\ status \in Statuses \ {0}
    <3>1. repoErr[p] = "nil" => <<reply[p].originalURL>> \in Seq(OriginalURLs)
      BY <1>2, <1>5 DEF GetReturned
    <3>. QED
      BY <2>1, <3>1, EmptyContent DEF Contents, Statuses, RedirectStatus
  <2>3. Right(p, status, content)
    BY <1>1, <1>2, <1>5
    DEF GetReturned, RedirectStatus, Right, Matches, Current, Caused
  <2>. HIDE DEF status, content
  <2>. QED
    BY <1>1, <1>3, <2>2, <2>3, RespondKeeps
<1>. QED
  BY <1>4, <1>5

\* The list of a user's URLs.
LEMMA ListURLsKeeps ==
  ASSUME IInv, NEW p \in Handlers, ListURLs(p)
  PROVE  IInv'
<1>1. Types /\ HandlerInv(p) /\ pc[p] = "handler" /\ http[p].kind = "list"
  BY DEF IInv, ListURLs, Serves
<1>2. http[p] \in HTTPRequests /\ call[p] = NoCall /\ made[p] = {}
  BY <1>1 DEF HandlerInv, Stage
<1>3. CASE gone[p] /\ Respond(p, 499, <<>>)
  BY <1>1, <1>3, RefusalKeeps
<1>. DEFINE r == [op |-> "getURLs", uid |-> http[p].uid]
<1>4. CASE CallRepo(p, r) /\ UNCHANGED <<attempt, new, resp>>
  <2>1. http[p].uid \in Users
    BY <1>1, <1>2, HTTPShapes
  <2>2. r \in AnyRequest
    BY <2>1 DEF AnyRequest, GetURLsRequest
  <2>. QED
    BY <1>1, <1>2, <1>4, <2>2, ReadKeeps
<1>. QED
  BY <1>3, <1>4 DEF ListURLs

\* What the handler makes of the answer of GetURLs.
LEMMA AfterGetURLsKeeps ==
  ASSUME IInv, NEW p \in Handlers, AfterGetURLs(p)
  PROVE  IInv'
<1>1. pc[p] = "repo" /\ call[p] = NoCall /\ http[p].kind = "list"
  BY DEF AfterGetURLs
<1>2. /\ repoErr[p] \in {"error", "ctx.Err"} => Unanswered(p)
      /\ repoErr[p] \notin {"error", "ctx.Err"} =>
           ~StorageFailed(p) /\ repoErr[p] = reply[p].err /\ ListReturned(p)
  BY <1>1, Holds DEF Told
<1>3. CASE \/ repoErr[p] = "ctx.Err" /\ Respond(p, 499, <<>>)
           \/ repoErr[p] = "error" /\ Respond(p, 500, <<>>)
  BY <1>1, <1>2, <1>3, FailureKeeps
<1>4. ASSUME repoErr[p] \in {"nil", "ErrNoRows"},
             NEW status \in {200, 204}, NEW content \in Contents,
             Respond(p, status, content)
      PROVE  IInv'
  <2>1. Right(p, status, content)
    BY <1>1, <1>2, <1>4 DEF ListReturned, Right, Matches, Current, Caused
  <2>2. status \in Statuses \ {0}
    BY DEF Statuses
  <2>. QED
    BY <1>1, <1>4, <2>1, <2>2, RespondKeeps
<1>5. repoErr[p] = "nil" => reply[p].shortCodes \in Contents
  BY <1>2 DEF ListReturned, Contents
<1>. QED
  BY <1>3, <1>4, <1>5, EmptyContent DEF AfterGetURLs

-----------------------------------------------------------------------------
(***************************************************************************)
(* The steps of the repository.                                            *)
(***************************************************************************)
\* The end of a call, whether it told of the rows or failed.
LEMMA EndKeeps ==
  ASSUME IInv, NEW p \in Handlers, NEW answer \in Answer,
         pc[p] = "repo", call[p] # NoCall, Return(p, answer),
         rows' \in [ShortCodes -> ShortenedURL \cup {NoRow}], Grows,
         made' \in [Handlers -> SUBSET ShortCodes],
         \A q \in Handlers \ {p} : made'[q] = made[q],
         NEW err \in Errors, repoErr' = [repoErr EXCEPT ![p] = err],
         UNCHANGED <<http, pc, gone, attempt, new, resp, response, before>>,
         Returned(p)'
  PROVE  IInv'
<1>1. Types /\ HandlerInv(p)
  BY DEF IInv
<1>2. Types'
  BY <1>1 DEF Types, Return
<1>3. \A q \in Handlers \ {p} : Same(q)
  BY <1>1, HandlersAreClients DEF Types, Return, Same
<1>4. call'[p] = NoCall /\ http[p] \in HTTPRequests
  BY <1>1, HandlersAreClients DEF Types, Return, HandlerInv, Stage
<1>5. Stage(p)'
  BY <1>1, <1>4 DEF HandlerInv, Stage
<1>6. Sent(p)'
  BY <1>1, <1>4 DEF HandlerInv, Sent, SentRow, SentBatch, Single
<1>7. Past(p)'
  <2>1. CASE http[p].kind = "redirect"
    <3>1. http[p].shortCode \in ShortCodes
      BY <1>4, <2>1, HTTPShapes
    <3>2. Later(before[p], rows[http[p].shortCode])
      BY <1>1, <2>1 DEF HandlerInv, Past
    <3>. QED
      BY <3>1, <3>2 DEF Past, Grows, Later
  <2>2. CASE http[p].kind # "redirect"
    BY <2>2 DEF Past
  <2>. QED
    BY <2>1, <2>2
<1>8. Answered(p)'
  BY DEF Answered
<1>9. HandlerInv(p)'
  BY <1>5, <1>6, <1>7, <1>8 DEF HandlerInv
<1>. QED
  BY <1>2, <1>3, <1>9, StepOf

\* What a handler in the repository has sent, by its method.
LEMMA SentCalls ==
  ASSUME IInv, NEW p \in Handlers, pc[p] = "repo", call[p] # NoCall
  PROVE  /\ http[p] \in HTTPRequests /\ made[p] = {}
         /\ call[p].op = "create" =>
              /\ Single(p) /\ SentRow(p)
              /\ call[p].row = new[p][1]
         /\ call[p].op = "createBatch" =>
              http[p].kind = "batch" /\ SentBatch(p) /\ call[p].rows = new[p]
         /\ call[p].op = "get" =>
              http[p].kind = "redirect" /\ call[p].shortCode = http[p].shortCode
         /\ call[p].op = "getURLs" =>
              http[p].kind = "list" /\ call[p].uid = http[p].uid
<1>1. HandlerInv(p)
  BY DEF IInv
<1>2. http[p] \in HTTPRequests /\ made[p] = {} /\ Sent(p)
  BY <1>1 DEF HandlerInv, Stage
<1>3. Single(p) \/ http[p].kind \in {"batch", "redirect", "list"}
  BY <1>2, HTTPShapes DEF Single
<1>4. CASE Single(p)
  BY <1>2, <1>4 DEF Sent, SentRow
<1>5. CASE http[p].kind = "batch"
  BY <1>2, <1>5 DEF Sent, SentBatch, Single
<1>6. CASE http[p].kind = "redirect"
  BY <1>2, <1>6 DEF Sent, Single
<1>7. CASE http[p].kind = "list"
  BY <1>2, <1>7 DEF Sent, Single
<1>. QED
  BY <1>3, <1>4, <1>5, <1>6, <1>7

\* The codes that a step of the repository stores for p.
Stores(p) ==
  made' = [made EXCEPT ![p] = @ \cup {c \in ShortCodes : rows'[c] # rows[c]}]

\* What a handler's call adds to the table is counted as made by it.
LEMMA StoresType ==
  ASSUME Types, NEW p \in Handlers, Stores(p)
  PROVE  /\ made' \in [Handlers -> SUBSET ShortCodes]
         /\ \A q \in Handlers \ {p} : made'[q] = made[q]
         /\ made'[p] = made[p] \cup {c \in ShortCodes : rows'[c] # rows[c]}
         /\ rows' = rows => made'[p] = made[p]
  BY DEF Types, Stores

\* A failure has a name or none, and belongs to this call.
LEMMA FailsShape ==
  ASSUME IInv, NEW p \in Handlers, Fails(p)
  PROVE  \E err \in Errors :
           /\ repoErr' = [repoErr EXCEPT ![p] = err]
           /\ repoErr'[p] = err
           /\ err = "error" \/ (err = "ctx.Err" /\ gone[p])
<1>1. PICK err \in {"error"} \cup (IF gone[p] THEN {"ctx.Err"} ELSE {}) :
        repoErr' = [repoErr EXCEPT ![p] = err]
  BY DEF Fails
<1>2. err = "error" \/ (err = "ctx.Err" /\ gone[p])
  BY <1>1
<1>. QED
  BY <1>1, <1>2 DEF IInv, Types, Errors

\* What is made is the whole of the last attempt, or nothing.
LEMMA MadeWhole ==
  ASSUME IInv, NEW p \in Handlers, pc[p] = "repo", call[p] # NoCall,
         UNCHANGED <<http, new, resp>>, Told(p)'
  PROVE  made'[p] = {} \/ made'[p] = CodesOf(new[p])
<1>1. http[p] \in HTTPRequests /\ Sent(p)
  BY DEF IInv, HandlerInv, Stage
<1>2. CASE Single(p)
  <2>1. PICK row : new[p] = <<row>>
    BY <1>1, <1>2 DEF Sent, SentRow
  <2>2. CodesOf(new[p]) = {new[p][1].shortCode}
    BY <2>1 DEF CodesOf
  <2>. QED
    BY <1>2, <2>2 DEF Told, Single, CreateReturned
<1>3. CASE http[p].kind = "batch"
  <2>1. SentBatch(p) /\ http[p].urls \in Seq(Link)
    BY <1>1, <1>3, HTTPShapes DEF Sent
  <2>2. new[p] \in Seq(NewURL) /\ resp[p] \in Seq(ShortCodes)
    BY DEF IInv, Types
  <2>3. DOMAIN new[p] = DOMAIN http[p].urls /\ DOMAIN resp[p] = DOMAIN http[p].urls
    BY <2>1, <2>2 DEF SentBatch
  <2>4. \A k \in DOMAIN new[p] : new[p][k].shortCode = resp[p][k]
    <3>1. \A k \in DOMAIN new[p] :
            new[p][k] = Row(resp[p][k], http[p].urls[k], http[p].uid)
      BY <2>1, <2>3 DEF SentBatch
    <3>2. \A c, u, d : Row(c, u, d).shortCode = c
      BY DEF Row
    <3>. QED
      BY <3>1, <3>2
  <2>5. CodesOf(new[p]) = {resp[p][k] : k \in DOMAIN resp[p]}
    BY <2>3, <2>4 DEF CodesOf
  <2>. QED
    BY <1>3, <2>5 DEF Told, BatchReturned
<1>4. CASE http[p].kind \in {"redirect", "list"}
  BY <1>4 DEF Told, GetReturned, ListReturned
<1>. QED
  BY <1>1, <1>2, <1>3, <1>4, HTTPShapes DEF Single

\* A call that returns an answer that is true of the rows, or fails instead.
LEMMA ReturnKeeps ==
  ASSUME IInv, NEW p \in Handlers, NEW answer \in Answer,
         pc[p] = "repo", call[p] # NoCall, Return(p, answer),
         rows' \in [ShortCodes -> ShortenedURL \cup {NoRow}], Grows,
         made' \in [Handlers -> SUBSET ShortCodes],
         \A q \in Handlers \ {p} : made'[q] = made[q],
         Answers(p) \/ Fails(p),
         UNCHANGED <<http, pc, gone, attempt, new, resp, response, before>>,
         Told(p)'
  PROVE  IInv'
<1>1. CASE Answers(p)
  <2>1. reply'[p] = answer /\ answer.err \in Errors
    BY HandlersAreClients, ErrorNames DEF IInv, Types, Return
  <2>2. repoErr' = [repoErr EXCEPT ![p] = answer.err] /\ repoErr'[p] = answer.err
    BY <1>1, <2>1 DEF Answers, IInv, Types
  <2>3. Returned(p)'
    BY <2>1, <2>2 DEF Returned
  <2>. QED
    BY <2>1, <2>2, <2>3, EndKeeps
<1>2. CASE Fails(p)
  <2>1. PICK err \in Errors :
          /\ repoErr' = [repoErr EXCEPT ![p] = err]
          /\ repoErr'[p] = err
          /\ err = "error" \/ (err = "ctx.Err" /\ gone[p])
    BY <1>2, FailsShape
  <2>2. Returned(p)'
    BY <2>1, MadeWhole DEF Returned, Unanswered
  <2>. QED
    BY <2>1, <2>2, EndKeeps
<1>. QED
  BY <1>1, <1>2

\* The repository fails before it has done anything.
LEMMA RefuseKeeps ==
  ASSUME IInv, NEW p \in Handlers, pc[p] = "repo", Refuse(p), Fails(p), Stores(p),
         UNCHANGED <<http, pc, gone, attempt, new, resp, response, before>>
  PROVE  IInv'
<1>1. Types /\ call[p] # NoCall /\ rows' = rows /\ Return(p, CtxError)
  BY DEF IInv, Refuse
<1>2. CtxError \in Answer
  BY AnswerTypes
<1>3. Grows
  BY <1>1, GrowsTrivially
<1>4. made'[p] = {}
  BY <1>1, SentCalls, StoresType
<1>5. PICK err \in Errors :
        /\ repoErr' = [repoErr EXCEPT ![p] = err]
        /\ repoErr'[p] = err
        /\ err = "error" \/ (err = "ctx.Err" /\ gone[p])
  BY FailsShape
<1>6. Returned(p)'
  BY <1>4, <1>5 DEF Returned, Unanswered
<1>7. rows' \in [ShortCodes -> ShortenedURL \cup {NoRow}]
  BY <1>1 DEF Types
<1>. QED
  BY <1>1, <1>2, <1>3, <1>5, <1>6, <1>7, StoresType, EndKeeps

\* Create stores the row, or finds its code or its URL.
LEMMA CreateKeeps ==
  ASSUME IInv, NEW p \in Handlers, pc[p] = "repo", Create(p), Stores(p),
         Answers(p) \/ Fails(p),
         UNCHANGED <<http, pc, gone, attempt, new, resp, response, before>>
  PROVE  IInv'
<1>1. Types /\ call[p] # NoCall /\ call[p].op = "create"
  BY DEF IInv, Create, InCall
<1>2. /\ http[p] \in HTTPRequests /\ Single(p)
      /\ made[p] = {} /\ SentRow(p) /\ call[p].row = new[p][1]
  BY <1>1, SentCalls
<1>3. PICK code \in ShortCodes :
        new[p] = <<Row(code, Given(http[p])[1], http[p].uid)>>
  BY <1>2 DEF SentRow
<1>. DEFINE row == Row(code, Given(http[p])[1], http[p].uid)
<1>4. Given(http[p])[1] \in OriginalURLs /\ http[p].uid \in Users
  BY <1>2, HTTPShapes DEF SentRow, Link, Single
<1>5. /\ row \in NewURL /\ row # NoRow /\ row.shortCode = code
      /\ row.originalURL = Given(http[p])[1] /\ row.userID = http[p].uid
  BY <1>4, RowShape
<1>. HIDE DEF row
<1>6. call[p].row = row /\ new[p][1] = row
  BY <1>2, <1>3 DEF row
<1>7. CASE /\ rows[code] = NoRow /\ rows' = [rows EXCEPT ![code] = row]
           /\ Return(p, Nothing)
  <2>1. Nothing \in Answer
    BY AnswerTypes
  <2>2. rows' \in [ShortCodes -> ShortenedURL \cup {NoRow}] /\ rows'[code] = row
    BY <1>1, <1>5, <1>7 DEF Types, NewURL
  <2>3. Grows
    BY <1>1, <1>7 DEF Types, Grows, Later
  <2>4. {c \in ShortCodes : rows'[c] # rows[c]} = {code}
    BY <1>1, <1>5, <1>7 DEF Types
  <2>5. reply'[p].err = "nil" /\ made'[p] = {code}
    BY <1>1, <1>2, <1>7, <2>4, StoresType, HandlersAreClients
    DEF Types, Return, Nothing
  <2>6. CreateReturned(p)'
    BY <1>5, <1>6, <2>2, <2>5 DEF CreateReturned, Mine, StandsFor
  <2>7. Told(p)'
    BY <1>2, <2>6 DEF Told, Single
  <2>. QED
    BY <1>1, <1>7, <2>1, <2>2, <2>3, <2>7, StoresType, ReturnKeeps
<1>8. CASE /\ rows[code] # NoRow /\ UNCHANGED rows
           /\ Return(p, ErrConflictShortCode)
  <2>1. ErrConflictShortCode \in Answer
    BY AnswerTypes
  <2>2. reply'[p].err = "ErrConflictShortCode" /\ made'[p] = {}
    BY <1>1, <1>2, <1>8, StoresType, HandlersAreClients
    DEF Types, Return, ErrConflictShortCode
  <2>3. Told(p)'
    BY <1>2, <1>5, <1>6, <1>8, <2>2 DEF Told, Single, CreateReturned
  <2>4. rows' \in [ShortCodes -> ShortenedURL \cup {NoRow}]
    BY <1>1, <1>8 DEF Types
  <2>. QED
    BY <1>1, <1>8, <2>1, <2>3, <2>4, GrowsTrivially, StoresType, ReturnKeeps
<1>9. CASE /\ \E c \in ShortCodes :
                /\ rows[c] # NoRow /\ rows[c].originalURL = row.originalURL
                /\ Return(p, OriginalURLConflictError(c))
           /\ UNCHANGED rows
  <2>1. PICK c \in ShortCodes :
          /\ rows[c] # NoRow /\ rows[c].originalURL = row.originalURL
          /\ Return(p, OriginalURLConflictError(c))
    BY <1>9
  <2>2. OriginalURLConflictError(c) \in Answer
    BY AnswerTypes
  <2>3. /\ reply'[p].err = "OriginalURLConflictError"
        /\ reply'[p].shortCode = c /\ made'[p] = {}
    BY <1>1, <1>2, <1>9, <2>1, StoresType, HandlersAreClients
    DEF Types, Return, OriginalURLConflictError
  <2>4. Told(p)'
    BY <1>2, <1>5, <1>9, <2>1, <2>3 DEF Told, Single, CreateReturned, StandsFor
  <2>5. rows' \in [ShortCodes -> ShortenedURL \cup {NoRow}]
    BY <1>1, <1>9 DEF Types
  <2>. QED
    BY <1>1, <1>9, <2>1, <2>2, <2>4, <2>5, GrowsTrivially, StoresType, ReturnKeeps
<1>. QED
  BY <1>5, <1>6, <1>7, <1>8, <1>9 DEF Create

\* CreateBatch stores the whole batch, or finds a code that is taken.
LEMMA CreateBatchKeeps ==
  ASSUME IInv, NEW p \in Handlers, pc[p] = "repo", CreateBatch(p), Stores(p),
         Answers(p) \/ Fails(p),
         UNCHANGED <<http, pc, gone, attempt, new, resp, response, before>>
  PROVE  IInv'
<1>1. Types /\ call[p] # NoCall /\ call[p].op = "createBatch"
  BY DEF IInv, CreateBatch, InCall
<1>2. /\ http[p] \in HTTPRequests /\ http[p].kind = "batch"
      /\ made[p] = {} /\ SentBatch(p) /\ call[p].rows = new[p]
  BY <1>1, SentCalls
<1>. DEFINE batch == new[p]
            urls == http[p].urls
<1>3. /\ batch \in Seq(NewURL) /\ resp[p] \in Seq(ShortCodes)
      /\ urls \in Seq(Link) /\ http[p].uid \in Users
  BY <1>1, <1>2, HTTPShapes DEF Types
<1>4. DOMAIN batch = DOMAIN urls /\ DOMAIN resp[p] = DOMAIN urls
  BY <1>2, <1>3 DEF SentBatch
<1>5. \A k \in DOMAIN urls :
        /\ resp[p][k] \in ShortCodes /\ batch[k] \in NewURL
        /\ batch[k] # NoRow
        /\ batch[k].shortCode = resp[p][k] /\ batch[k].originalURL = urls[k]
        /\ batch[k].userID = http[p].uid
  <2>1. \A k \in DOMAIN urls :
          /\ resp[p][k] \in ShortCodes /\ batch[k] \in NewURL
          /\ batch[k] = Row(resp[p][k], urls[k], http[p].uid)
    BY <1>2, <1>3, <1>4 DEF SentBatch
  <2>2. \A k \in DOMAIN urls : batch[k] # NoRow
    BY <2>1, NoRowAssumption DEF NewURL
  <2>3. \A c, u, d :
          /\ Row(c, u, d).shortCode = c /\ Row(c, u, d).originalURL = u
          /\ Row(c, u, d).userID = d
    BY DEF Row
  <2>. QED
    BY <2>1, <2>2, <2>3
<1>6. CASE /\ \A k \in DOMAIN batch :
                /\ rows[batch[k].shortCode] = NoRow
                /\ \A j \in DOMAIN batch :
                     batch[k].shortCode = batch[j].shortCode => k = j
           /\ rows' = [c \in ShortCodes |->
                         IF c \in CodesOf(batch) THEN RowFor(batch, c)
                         ELSE rows[c]]
           /\ Return(p, Nothing)
  <2>1. Nothing \in Answer
    BY AnswerTypes
  <2>2. \A k \in DOMAIN urls :
          /\ resp[p][k] \in CodesOf(batch)
          /\ RowFor(batch, resp[p][k]) = batch[k]
    <3>1. SUFFICES ASSUME NEW k \in DOMAIN urls
                   PROVE  /\ resp[p][k] \in CodesOf(batch)
                          /\ RowFor(batch, resp[p][k]) = batch[k]
      OBVIOUS
    <3>2. resp[p][k] \in CodesOf(batch)
      BY <1>4, <1>5 DEF CodesOf
    <3>3. PICK j \in DOMAIN batch :
            RowFor(batch, resp[p][k]) = batch[j] /\ batch[j].shortCode = resp[p][k]
      BY <1>3, <3>2, RowOfBatch
    <3>4. j = k
      BY <1>4, <1>5, <1>6, <3>3
    <3>. QED
      BY <3>2, <3>3, <3>4
  <2>3. \A c \in CodesOf(batch) :
          \E k \in DOMAIN urls : c = resp[p][k] /\ RowFor(batch, c) = batch[k]
    BY <1>4, <1>5, <2>2 DEF CodesOf
  <2>4. \A c \in ShortCodes :
          /\ c \in CodesOf(batch) => /\ rows[c] = NoRow /\ rows'[c] \in NewURL
                                     /\ rows'[c] # NoRow
          /\ c \notin CodesOf(batch) => rows'[c] = rows[c]
    BY <1>4, <1>5, <1>6, <2>3
  <2>5. rows' \in [ShortCodes -> ShortenedURL \cup {NoRow}]
    <3>1. \A c \in ShortCodes : rows'[c] \in ShortenedURL \cup {NoRow}
      BY <1>1, <2>4 DEF Types, NewURL
    <3>. QED
      BY <1>6, <3>1
  <2>6. Grows
    BY <2>4 DEF Grows, Later
  <2>7. {c \in ShortCodes : rows'[c] # rows[c]}
          = {resp[p][k] : k \in DOMAIN resp[p]}
    <3>1. \A k \in DOMAIN resp[p] :
            resp[p][k] \in ShortCodes /\ rows'[resp[p][k]] # rows[resp[p][k]]
      BY <1>4, <1>5, <2>2, <2>4
    <3>2. \A c \in ShortCodes :
            rows'[c] # rows[c] => \E k \in DOMAIN resp[p] : c = resp[p][k]
      BY <1>4, <2>3, <2>4
    <3>. QED
      BY <3>1, <3>2
  <2>8. reply'[p].err = "nil"
    BY <1>1, <1>6, HandlersAreClients DEF Types, Return, Nothing
  <2>9. made'[p] = {resp[p][k] : k \in DOMAIN resp[p]}
    BY <1>1, <1>2, <2>7, StoresType
  <2>10. \A k \in DOMAIN resp[p] :
           /\ rows'[resp[p][k]] # NoRow
           /\ rows'[resp[p][k]].originalURL = urls[k]
           /\ rows'[resp[p][k]].userID = http[p].uid
    BY <1>4, <1>5, <1>6, <2>2
  <2>11. BatchReturned(p)'
    BY <2>8, <2>9, <2>10 DEF BatchReturned, Mine, StandsFor
  <2>12. Told(p)'
    BY <1>2, <2>11 DEF Told, Single
  <2>. QED
    BY <1>1, <1>6, <2>1, <2>5, <2>6, <2>12, StoresType, ReturnKeeps
<1>7. CASE /\ \E k \in DOMAIN batch :
                /\ \/ rows[batch[k].shortCode] # NoRow
                   \/ \E j \in 1 .. k - 1 :
                        batch[j].shortCode = batch[k].shortCode
                /\ Return(p, BatchConflictError(k))
           /\ UNCHANGED rows
  <2>1. PICK k \in DOMAIN batch :
          /\ \/ rows[batch[k].shortCode] # NoRow
             \/ \E j \in 1 .. k - 1 : batch[j].shortCode = batch[k].shortCode
          /\ Return(p, BatchConflictError(k))
    BY <1>7
  <2>2. DOMAIN batch = 1 .. Len(batch) /\ Len(batch) \in Nat
    BY <1>3
  <2>3. \A j \in 1 .. k - 1 : j \in DOMAIN batch /\ j # k
    BY <2>2
  <2>4. Collides(batch)
    BY <2>1, <2>3 DEF Collides
  <2>5. k \in Nat
    BY <2>2
  <2>6. BatchConflictError(k) \in Answer
    BY <2>5, AnswerTypes
  <2>7. /\ reply'[p].err = "BatchConflictError" /\ reply'[p].index = k
        /\ made'[p] = {}
    BY <1>1, <1>2, <1>7, <2>1, StoresType, HandlersAreClients
    DEF Types, Return, BatchConflictError
  <2>8. Told(p)'
    BY <1>2, <1>7, <2>4, <2>7 DEF Told, Single, BatchReturned, Collides
  <2>9. rows' \in [ShortCodes -> ShortenedURL \cup {NoRow}]
    BY <1>1, <1>7 DEF Types
  <2>. QED
    BY <1>1, <1>7, <2>1, <2>6, <2>8, <2>9, GrowsTrivially, StoresType, ReturnKeeps
<1>. QED
  BY <1>2, <1>6, <1>7 DEF CreateBatch

\* Get answers what the row is now, which is what the redirect is to tell.
LEMMA GetKeeps ==
  ASSUME IInv, NEW p \in Handlers, pc[p] = "repo", Get(p), Stores(p), Answers(p),
         UNCHANGED <<http, pc, gone, attempt, new, resp, response, before>>
  PROVE  IInv'
<1>1. /\ Types /\ call[p] # NoCall /\ call[p].op = "get" /\ rows' = rows
  BY DEF IInv, Get, InCall
<1>2. /\ http[p] \in HTTPRequests /\ http[p].kind = "redirect"
      /\ made[p] = {} /\ call[p].shortCode = http[p].shortCode
  BY <1>1, SentCalls
<1>. DEFINE code == http[p].shortCode
            answer == GetAnswer(rows[code])
<1>3. code \in ShortCodes /\ rows[code] \in ShortenedURL \cup {NoRow}
  BY <1>1, <1>2, HTTPShapes DEF Types
<1>4. answer \in Answer /\ Return(p, answer)
  BY <1>2, <1>3, AnswerTypes DEF Get
<1>5. reply'[p] = answer /\ made'[p] = {}
  BY <1>1, <1>2, <1>4, StoresType, HandlersAreClients DEF Types, Return
<1>6. Later(before[p], rows[code])
  BY <1>2 DEF IInv, HandlerInv, Past
<1>7. GetReturned(p)'
  <2>1. CASE rows[code] = NoRow
    <3>1. reply'[p].err = "ErrNotExists"
      BY <1>5, <2>1 DEF GetAnswer, ErrNotExists
    <3>2. before[p] = NoRow
      BY <1>6, <2>1 DEF Later
    <3>. QED
      BY <1>5, <3>1, <3>2 DEF GetReturned
  <2>2. CASE rows[code] # NoRow /\ rows[code].isDeleted
    BY <1>1, <1>5, <2>2 DEF GetAnswer, ErrRowGone, GetReturned
  <2>3. CASE rows[code] # NoRow /\ ~rows[code].isDeleted
    <3>1. /\ reply'[p].err = "nil"
          /\ reply'[p].originalURL = rows[code].originalURL
      BY <1>5, <2>3 DEF GetAnswer, Found
    <3>2. rows[code].originalURL \in OriginalURLs
      BY <1>3, <2>3 DEF ShortenedURL
    <3>3. before[p] # NoRow => ~before[p].isDeleted
      BY <1>6, <2>3 DEF Later
    <3>. QED
      BY <1>1, <1>5, <2>3, <3>1, <3>2, <3>3 DEF GetReturned, StandsFor
  <2>. QED
    BY <2>1, <2>2, <2>3
<1>8. Told(p)'
  BY <1>2, <1>7 DEF Told, Single
<1>9. rows' \in [ShortCodes -> ShortenedURL \cup {NoRow}]
  BY <1>1 DEF Types
<1>. QED
  BY <1>1, <1>4, <1>8, <1>9, GrowsTrivially, StoresType, ReturnKeeps

\* GetURLs answers some list, or no rows.
LEMMA GetURLsKeeps ==
  ASSUME IInv, NEW p \in Handlers, pc[p] = "repo", GetURLs(p), Stores(p), Answers(p),
         UNCHANGED <<http, pc, gone, attempt, new, resp, response, before>>
  PROVE  IInv'
<1>1. Types /\ call[p] # NoCall /\ call[p].op = "getURLs" /\ rows' = rows
  BY DEF IInv, GetURLs, InCall
<1>2. http[p].kind = "list" /\ made[p] = {} /\ http[p] \in HTTPRequests
  BY <1>1, SentCalls
<1>3. PICK answer \in Answer :
        /\ Return(p, answer)
        /\ \/ answer.err = "nil" /\ answer.shortCodes \in SUBSET ShortCodes
           \/ answer.err = "ErrNoRows"
  <2>1. PICK codes \in SUBSET ShortCodes :
          Return(p, Listed(codes)) \/ Return(p, ErrNoRows)
    BY DEF GetURLs
  <2>2. /\ Listed(codes).err = "nil" /\ Listed(codes).shortCodes = codes
        /\ ErrNoRows.err = "ErrNoRows"
    BY DEF Listed, ErrNoRows
  <2>3. Listed(codes) \in Answer /\ ErrNoRows \in Answer
    BY AnswerTypes
  <2>. QED
    BY <2>1, <2>2, <2>3
<1>4. reply'[p] = answer /\ made'[p] = {}
  BY <1>1, <1>2, <1>3, StoresType, HandlersAreClients DEF Types, Return
<1>5. Told(p)'
  BY <1>2, <1>3, <1>4 DEF Told, Single, ListReturned
<1>6. rows' \in [ShortCodes -> ShortenedURL \cup {NoRow}]
  BY <1>1 DEF Types
<1>. QED
  BY <1>1, <1>3, <1>5, <1>6, GrowsTrivially, StoresType, ReturnKeeps

\* The repository's part of a handler's call.
LEMMA RepoStepKeeps ==
  ASSUME IInv, NEW p \in Handlers, RepoStep(p)
  PROVE  IInv'
<1>1. /\ pc[p] = "repo" /\ Stores(p)
      /\ UNCHANGED <<http, pc, gone, attempt, new, resp, response, before>>
      /\ \/ Refuse(p) /\ Fails(p)
         \/ (Create(p) \/ CreateBatch(p)) /\ (Answers(p) \/ Fails(p))
         \/ (Get(p) \/ GetURLs(p)) /\ Answers(p)
  BY DEF RepoStep, Stores
<1>. QED
  BY <1>1, RefuseKeeps, CreateKeeps, CreateBatchKeeps, GetKeeps, GetURLsKeeps

\* The delete worker marks rows; no handler is disturbed.
LEMMA DeleterKeeps ==
  ASSUME IInv, DeleterStep
  PROVE  IInv'
<1>1. Types /\ UNCHANGED handlerVars
  BY DEF IInv, DeleterStep
<1>2. Deleter \in Clients /\ \A p \in Handlers : p # Deleter
  BY ClientsAssumption
<1>3. CASE Invoke(Deleter)
  <2>1. PICK r \in Requests :
          call' = [call EXCEPT ![Deleter] = r] /\ UNCHANGED <<rows, reply>>
    BY <1>3 DEF Invoke
  <2>2. r \in AnyRequest
    BY RequestsAssumption
  <2>3. Types'
    BY <1>1, <2>1, <2>2 DEF Types, handlerVars
  <2>4. \A p \in Handlers : Same(p)
    BY <1>1, <1>2, <2>1 DEF Types, handlerVars, Same
  <2>5. Grows
    BY <2>1, GrowsTrivially
  <2>. QED
    BY <1>1, <2>3, <2>4, <2>5, Undisturbed DEF IInv
<1>4. ASSUME NEW answer \in Answer, Return(Deleter, answer), Grows,
             rows' \in [ShortCodes -> ShortenedURL \cup {NoRow}]
      PROVE  IInv'
  <2>1. Types'
    BY <1>1, <1>4 DEF Types, handlerVars, Return
  <2>2. \A p \in Handlers : Same(p)
    BY <1>1, <1>2, <1>4 DEF Types, handlerVars, Same, Return
  <2>. QED
    BY <1>1, <1>4, <2>1, <2>2, Undisturbed DEF IInv
<1>5. CASE Refuse(Deleter)
  <2>1. CtxError \in Answer /\ Return(Deleter, CtxError) /\ rows' = rows
    BY <1>5, AnswerTypes DEF Refuse
  <2>2. rows' \in [ShortCodes -> ShortenedURL \cup {NoRow}]
    BY <1>1, <2>1 DEF Types
  <2>. QED
    BY <2>1, <2>2, GrowsTrivially, <1>4
<1>6. CASE SoftDelete(Deleter)
  <2>1. PICK marked :
          /\ \A c \in marked : rows[c] # NoRow
          /\ rows' = [c \in ShortCodes |->
                        IF c \in marked THEN Deleted(rows[c]) ELSE rows[c]]
          /\ Return(Deleter, Nothing) \/ Return(Deleter, ErrNotExists)
    BY <1>6 DEF SoftDelete
  <2>2. \A c \in ShortCodes :
          \/ rows'[c] = rows[c]
          \/ /\ rows[c] # NoRow /\ rows[c] \in ShortenedURL
             /\ rows'[c] = Deleted(rows[c])
    BY <1>1, <2>1 DEF Types
  <2>3. \A c \in ShortCodes :
          rows'[c] \in ShortenedURL \cup {NoRow} /\ Later(rows[c], rows'[c])
    <3>1. SUFFICES ASSUME NEW c \in ShortCodes
                   PROVE  /\ rows'[c] \in ShortenedURL \cup {NoRow}
                          /\ Later(rows[c], rows'[c])
      OBVIOUS
    <3>2. CASE rows'[c] = rows[c]
      BY <1>1, <3>2 DEF Types, Later
    <3>3. CASE rows[c] \in ShortenedURL /\ rows'[c] = Deleted(rows[c])
      BY <3>3, DeletedType DEF Later
    <3>. QED
      BY <2>2, <3>2, <3>3
  <2>4. rows' \in [ShortCodes -> ShortenedURL \cup {NoRow}]
    BY <2>1, <2>3
  <2>5. Grows
    BY <2>3 DEF Grows
  <2>6. Nothing \in Answer /\ ErrNotExists \in Answer
    BY AnswerTypes
  <2>. QED
    BY <2>1, <2>4, <2>5, <2>6, <1>4
<1>. QED
  BY <1>3, <1>5, <1>6 DEF DeleterStep

\* Nothing happens.
LEMMA StutterKeeps ==
  ASSUME IInv, UNCHANGED serviceVars
  PROVE  IInv'
<1>. USE DEF serviceVars, storeVars, handlerVars
<1>1. Types'
  BY DEF IInv, Types
<1>2. \A p \in Handlers : Same(p)
  BY DEF Same
<1>. QED
  BY <1>1, <1>2, GrowsTrivially, Undisturbed DEF IInv

-----------------------------------------------------------------------------
(***************************************************************************)
(* The theorems.                                                           *)
(***************************************************************************)
\* Every step of every goroutine keeps the invariant.
THEOREM NextKeeps == IInv /\ [ServiceNext]_serviceVars => IInv'
<1>1. SUFFICES ASSUME IInv, [ServiceNext]_serviceVars
               PROVE  IInv'
  OBVIOUS
<1>2. ASSUME NEW p \in Handlers, Arrive(p) \/ ClientGoes(p) \/ HandlerStep(p)
      PROVE  IInv'
  <2>1. CASE Arrive(p)
    BY <1>1, <2>1, ArriveKeeps
  <2>2. CASE ClientGoes(p)
    BY <1>1, <2>2, ClientGoesKeeps
  <2>3. CASE Shorten(p) \/ CreateText(p)
    BY <1>1, <2>3, ShortenKeeps
  <2>4. CASE AfterCreate(p)
    BY <1>1, <2>4, AfterCreateKeeps
  <2>5. CASE ShortenBatch(p)
    BY <1>1, <2>5, ShortenBatchKeeps
  <2>6. CASE AfterBatch(p)
    BY <1>1, <2>6, AfterBatchKeeps
  <2>7. CASE Redirect(p)
    BY <1>1, <2>7, RedirectKeeps
  <2>8. CASE AfterGet(p)
    BY <1>1, <2>8, AfterGetKeeps
  <2>9. CASE ListURLs(p)
    BY <1>1, <2>9, ListURLsKeeps
  <2>10. CASE AfterGetURLs(p)
    BY <1>1, <2>10, AfterGetURLsKeeps
  <2>11. CASE RepoStep(p)
    BY <1>1, <2>11, RepoStepKeeps
  <2>. QED
    BY <1>2, <2>1, <2>2, <2>3, <2>4, <2>5, <2>6, <2>7, <2>8, <2>9, <2>10, <2>11
    DEF HandlerStep
<1>3. CASE DeleterStep
  BY <1>1, <1>3, DeleterKeeps
<1>4. CASE UNCHANGED serviceVars
  BY <1>1, <1>4, StutterKeeps
<1>. QED
  BY <1>1, <1>2, <1>3, <1>4 DEF ServiceNext

\* The inductive invariant holds of every behaviour.
THEOREM Invariance == ServiceSpec => []IInv
  BY InitInv, NextKeeps, PTL DEF ServiceSpec

\* Every variable has its type; a handler that awaits the repository is in it,
\* and one that is done has an answer.
THEOREM TypeCorrect == ServiceSpec => []ServiceTypeOK
<1>1. IInv => ServiceTypeOK
  <2>1. SUFFICES ASSUME IInv
                 PROVE  ServiceTypeOK
    OBVIOUS
  <2>2. Types
    BY <2>1 DEF IInv
  <2>3. ASSUME NEW p \in Handlers
        PROVE  /\ new[p] \in Seq(NewURL) /\ resp[p] \in Seq(ShortCodes)
               /\ call[p] # NoCall => pc[p] = "repo" /\ call[p] \in AnyRequest
               /\ response[p].status \in Statuses /\ repoErr[p] \in Errors
               /\ response[p].status # 0 <=> pc[p] = "done"
               /\ made[p] \subseteq ShortCodes
    <3>1. HandlerInv(p) /\ p \in Clients
      BY <2>1, HandlersAreClients DEF IInv
    <3>2. /\ new[p] \in Seq(NewURL) /\ resp[p] \in Seq(ShortCodes)
          /\ response[p].status \in Statuses /\ made[p] \subseteq ShortCodes
          /\ repoErr[p] \in Errors
          /\ call[p] \in AnyRequest \cup {NoCall}
      BY <2>2, <3>1 DEF Types
    <3>. QED
      BY <3>1, <3>2 DEF HandlerInv, Stage
  <2>. QED
    BY <2>2, <2>3 DEF ServiceTypeOK, Types, Statuses, Errors
<1>. QED
  BY <1>1, Invariance, PTL

\* A 201 carries, for each URL given to the service, a code that stands for it
\* and belongs to the sender, after any number of collisions and retries; any
\* other answer has stored nothing, unless the storage failed: then at most the
\* last attempt is stored, and stored whole.
THEOREM AnswersAreTrue == ServiceSpec => []AnswersMatchTheStore
<1>1. IInv => AnswersMatchTheStore
  BY DEF IInv, HandlerInv, Answered, Right, Matches, AnswersMatchTheStore
<1>. QED
  BY <1>1, Invariance, PTL

\* A redirect sees every create and delete that ended before it came in.
THEOREM RedirectsSeeThePast == ServiceSpec => []RedirectsAreCurrent
<1>1. IInv => RedirectsAreCurrent
  BY DEF IInv, HandlerInv, Answered, Right, Current, RedirectsAreCurrent
<1>. QED
  BY <1>1, Invariance, PTL

\* The errors a client sees are its own, unnamed failures of the storage, or a
\* third collision; and every failure of the storage is seen as an error.
THEOREM ErrorsAreExplained == ServiceSpec => []ErrorsHaveCause
<1>1. IInv => ErrorsHaveCause
  <2>1. SUFFICES ASSUME IInv, NEW p \in Handlers
                 PROVE  /\ response[p].status \in {499, 500} =>
                             Caused(p, response[p].status)
                        /\ pc[p] = "done" => Caused(p, response[p].status)
    BY DEF ErrorsHaveCause, Caused
  <2>2. HandlerInv(p)
    BY <2>1 DEF IInv
  <2>3. CASE pc[p] = "done"
    BY <2>2, <2>3 DEF HandlerInv, Answered, Right
  <2>4. CASE pc[p] # "done"
    BY <2>2, <2>4 DEF HandlerInv, Stage
  <2>. QED
    BY <2>3, <2>4
<1>. QED
  BY <1>1, Invariance, PTL

-----------------------------------------------------------------------------
(***************************************************************************)
(* The service is a client of the store: between the handlers, their       *)
(* retries and the delete worker, the table and the calls on it change as  *)
(* URLStore allows when its clients make any well-formed call.  Respond    *)
(* only forgets an answer that the client has used.  What the service gets *)
(* back is the store's answer or, in repoErr, an error in its place: that  *)
(* is all the theorems above count on, and less than a storage gives.      *)
(***************************************************************************)
AnyStore == INSTANCE URLStore WITH Requests <- AnyRequest

\* A handler that calls the repository was in no call, and calls it with a
\* request that the interface knows (NoCall would change nothing).
LEMMA CallIsInvoke ==
  ASSUME IInv, IInv', NEW p \in Handlers, NEW r, CallRepo(p, r), call[p] = NoCall
  PROVE  [AnyStore!StoreNext]_<<rows, call>>
<1>1. p \in Clients /\ call \in [Clients -> AnyRequest \cup {NoCall}]
  BY HandlersAreClients DEF IInv, Types
<1>2. call' = [call EXCEPT ![p] = r] /\ UNCHANGED <<rows, reply>>
  BY DEF CallRepo
<1>3. call'[p] = r /\ call'[p] \in AnyRequest \cup {NoCall}
  BY <1>1, <1>2 DEF IInv, Types
<1>4. CASE r = NoCall
  BY <1>1, <1>2, <1>4
<1>5. CASE r \in AnyRequest
  <2>1. AnyStore!Invoke(p)
    BY <1>2, <1>5 DEF AnyStore!Invoke
  <2>. QED
    BY <1>1, <2>1 DEF AnyStore!StoreNext
<1>. QED
  BY <1>3, <1>4, <1>5

\* What handlers and the delete worker do to the store are steps of it.
LEMMA StepIsStoreStep ==
  ASSUME IInv, IInv', [ServiceNext]_serviceVars
  PROVE  [AnyStore!StoreNext]_<<rows, call>>
<1>1. ASSUME NEW p \in Handlers,
             Arrive(p) \/ ClientGoes(p)
      PROVE  UNCHANGED <<rows, call>>
  BY <1>1 DEF Arrive, ClientGoes, storeVars
<1>2. ASSUME NEW p \in Handlers, NEW r, CallRepo(p, r), call[p] = NoCall
      PROVE  [AnyStore!StoreNext]_<<rows, call>>
  BY <1>2, CallIsInvoke
<1>3. ASSUME NEW p \in Handlers, HandlerStep(p), ~RepoStep(p)
      PROVE  /\ call[p] = NoCall
             /\ UNCHANGED <<rows, call>> \/ \E r : CallRepo(p, r)
  <2>1. call[p] = NoCall
    BY <1>3
    DEF IInv, HandlerInv, Stage, HandlerStep, Shorten, CreateText, AfterCreate, ShortenBatch,
        AfterBatch, Redirect, AfterGet, ListURLs, AfterGetURLs, Serves
  <2> DEFINE Responds == UNCHANGED <<rows, call>>
             Calls == \E r : CallRepo(p, r)
  <2>2. \A status, content : Respond(p, status, content) => Responds
    BY DEF Respond
  <2>3. \A r : CallRepo(p, r) => Calls
    OBVIOUS
  <2>. HIDE DEF Responds, Calls
  <2>4. \A k : TryCreate(p, k) => Calls
    BY <2>3 DEF TryCreate
  <2>5. \A k, batch, codes : TryBatch(p, k, batch, codes) => Calls
    BY <2>3 DEF TryBatch
  <2>6. Shorten(p) \/ CreateText(p) => Responds \/ Calls
    BY <2>2, <2>4 DEF Shorten, CreateText, CreateShortURL
  <2>7. AfterCreate(p) => Responds \/ Calls
    BY <2>2, <2>4 DEF AfterCreate
  <2>8. ShortenBatch(p) => Responds \/ Calls
    BY <2>2, <2>5 DEF ShortenBatch
  <2>9. AfterBatch(p) => Responds \/ Calls
    BY <2>2, <2>5 DEF AfterBatch, RetryBatch
  <2>10. Redirect(p) \/ AfterGet(p) => Responds \/ Calls
    BY <2>2, <2>3 DEF Redirect, AfterGet
  <2>11. ListURLs(p) \/ AfterGetURLs(p) => Responds \/ Calls
    BY <2>2, <2>3 DEF ListURLs, AfterGetURLs
  <2>. QED
    BY <1>3, <2>1, <2>6, <2>7, <2>8, <2>9, <2>10, <2>11
    DEF HandlerStep, Responds, Calls
<1>4. ASSUME NEW p \in Clients,
             Refuse(p) \/ Create(p) \/ CreateBatch(p) \/ Get(p) \/ GetURLs(p) \/ SoftDelete(p)
      PROVE  AnyStore!StoreNext
  <2>1. Refuse(p) => AnyStore!Refuse(p)
    BY DEF Refuse, AnyStore!Refuse, Return, AnyStore!Return, CtxError, AnyStore!CtxError
  <2>2. Create(p) => AnyStore!Create(p)
    BY DEF Create, AnyStore!Create, InCall, AnyStore!InCall, Return, AnyStore!Return,
           Nothing, AnyStore!Nothing, ErrConflictShortCode, AnyStore!ErrConflictShortCode,
           OriginalURLConflictError, AnyStore!OriginalURLConflictError
  <2>3. CreateBatch(p) => AnyStore!CreateBatch(p)
    BY DEF CreateBatch, AnyStore!CreateBatch, InCall, AnyStore!InCall, Return,
           AnyStore!Return, Nothing, AnyStore!Nothing, CodesOf, AnyStore!CodesOf,
           RowFor, AnyStore!RowFor, BatchConflictError, AnyStore!BatchConflictError
  <2>4. Get(p) => AnyStore!Get(p)
    BY DEF Get, AnyStore!Get, InCall, AnyStore!InCall, Return, AnyStore!Return,
           GetAnswer, AnyStore!GetAnswer, Found, AnyStore!Found, ErrNotExists,
           AnyStore!ErrNotExists, ErrRowGone, AnyStore!ErrRowGone
  <2>5. GetURLs(p) => AnyStore!GetURLs(p)
    BY DEF GetURLs, AnyStore!GetURLs, InCall, AnyStore!InCall, Return, AnyStore!Return,
           ListedFor, AnyStore!ListedFor, BeingCreated, AnyStore!BeingCreated,
           BeingDeleted, AnyStore!BeingDeleted, Listed, AnyStore!Listed,
           ErrNoRows, AnyStore!ErrNoRows
  <2>6. SoftDelete(p) => AnyStore!SoftDelete(p)
    BY DEF SoftDelete, AnyStore!SoftDelete, InCall, AnyStore!InCall, Return,
           AnyStore!Return, Deleted, AnyStore!Deleted, Nothing, AnyStore!Nothing,
           ErrNotExists, AnyStore!ErrNotExists
  <2>. QED
    BY <1>4, <2>1, <2>2, <2>3, <2>4, <2>5, <2>6 DEF AnyStore!StoreNext
<1>5. ASSUME NEW p \in Handlers, RepoStep(p)
      PROVE  AnyStore!StoreNext
  BY <1>4, <1>5, HandlersAreClients DEF RepoStep
<1>6. CASE DeleterStep
  <2>1. Deleter \in Clients
    BY ClientsAssumption
  <2>2. Invoke(Deleter) => AnyStore!Invoke(Deleter)
    BY RequestsAssumption DEF Invoke, AnyStore!Invoke
  <2>. QED
    BY <1>4, <1>6, <2>1, <2>2 DEF DeleterStep, AnyStore!StoreNext
<1>7. CASE UNCHANGED serviceVars
  BY <1>7 DEF serviceVars, storeVars
<1>. QED
  BY <1>1, <1>2, <1>3, <1>5, <1>6, <1>7 DEF ServiceNext

\* The service, its retries included, uses the store by well-formed calls, one
\* at a time for each goroutine, and nothing but those changes the table.
THEOREM ServiceIsClient ==
  ServiceSpec => AnyStore!StoreInit /\ [][AnyStore!StoreNext]_<<rows, call>>
<1>1. ServiceInit => AnyStore!StoreInit
  BY DEF ServiceInit, StoreInit, AnyStore!StoreInit, Nothing, AnyStore!Nothing
<1>2. IInv /\ IInv' /\ [ServiceNext]_serviceVars => [AnyStore!StoreNext]_<<rows, call>>
  BY StepIsStoreStep
<1>. QED
  BY <1>1, <1>2, Invariance, PTL DEF ServiceSpec
=============================================================================
