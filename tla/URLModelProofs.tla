--------------------------- MODULE URLModelProofs ---------------------------
(***************************************************************************)
(* What the proofs about the repositories need to know of the data: the    *)
(* shapes of requests, rows, batches and answers.                          *)
(***************************************************************************)
EXTENDS URLModel, TLAPS

\* The arguments that a request carries, by its method.
LEMMA RequestShapes ==
  ASSUME NEW r \in Requests
  PROVE  /\ r.op = "create" => r.row \in NewURL
         /\ r.op = "createBatch" => r.rows \in Seq(NewURL)
         /\ r.op = "get" => r.shortCode \in ShortCodes
         /\ r.op = "getURLs" => r.uid \in Users
         /\ r.op = "softDelete" =>
              r.uid \in Users /\ r.shortCodes \in Seq(ShortCodes)
<1>1. r \in AnyRequest
  BY RequestsAssumption
<1>. QED
  BY <1>1 DEF AnyRequest, CreateRequest, CreateBatchRequest, GetRequest,
              GetURLsRequest, SoftDeleteRequest

\* Marking a row keeps its identity, and marking it again changes nothing.
LEMMA DeletedType ==
  ASSUME NEW row \in ShortenedURL
  PROVE  /\ Deleted(row) \in ShortenedURL
         /\ Deleted(row).isDeleted
         /\ Deleted(row).shortCode = row.shortCode
         /\ Deleted(row).originalURL = row.originalURL
         /\ Deleted(row).userID = row.userID
         /\ Deleted(Deleted(row)) = Deleted(row)
         /\ Deleted(row) # NoRow
  BY NoRowAssumption DEF Deleted, ShortenedURL

\* The answers of the interface, by their constructor.
LEMMA AnswerTypes ==
  /\ {Nothing, CtxError, ErrConflictShortCode} \subseteq Answer
  /\ {ErrNotExists, ErrNoRows} \subseteq Answer
  /\ \A k \in Nat : BatchConflictError(k) \in Answer
  /\ \A c \in ShortCodes : OriginalURLConflictError(c) \in Answer
  /\ \A codes \in SUBSET ShortCodes : Listed(codes) \in Answer
  /\ \A row \in ShortenedURL \cup {NoRow} : GetAnswer(row) \in Answer
  BY DEF Answer, BatchConflictError, OriginalURLConflictError, Listed,
         GetAnswer, Found, ShortenedURL, ErrNotExists, ErrRowGone, ErrNoRows

\* The row that a batch carries for one of its codes is one of its rows.
LEMMA RowOfBatch ==
  ASSUME NEW batch \in Seq(NewURL), NEW c \in CodesOf(batch)
  PROVE  \E k \in DOMAIN batch :
           /\ RowFor(batch, c) = batch[k]
           /\ batch[k] \in NewURL
           /\ batch[k].shortCode = c
<1>. DEFINE k == CHOOSE k \in DOMAIN batch : batch[k].shortCode = c
<1>1. \E j \in DOMAIN batch : batch[j].shortCode = c
  BY DEF CodesOf
<1>2. k \in DOMAIN batch /\ batch[k].shortCode = c
  BY <1>1
<1>3. batch[k] \in NewURL
  BY <1>2
<1>4. RowFor(batch, c) = batch[k]
  BY DEF RowFor
<1>. HIDE DEF k
<1>. QED
  BY <1>2, <1>3, <1>4
=============================================================================
