----------------------- MODULE CacheRepositoryProofs -----------------------
(***************************************************************************)
(* Theorems about CacheRepository, for any finite or infinite sets of      *)
(* codes, URLs, users and clients and any set of requests.                 *)
(*                                                                         *)
(* The inductive invariant says, beside the types, who may be inside a     *)
(* loop (WriterHoldsLock) and how far storage is from the table committed  *)
(* at that point of the loop (BatchProgress, DeleteProgress).              *)
(* CacheInv is the part of it that is also true of a cache whose rows were *)
(* restored from a file, URLsAreMapped the part that is not.               *)
(***************************************************************************)
EXTENDS CacheRepository, URLModelProofs

\* A client that is in no loop has its locals at their initial values.
LocalsReset ==
  \A p \in Clients :
    /\ pc[p] = "idle" <=> call[p] = NoCall
    /\ pc[p] \in {"idle", "called"} => i[p] = 1

WriterHoldsLock ==
  /\ mu = Nobody => storage = committed
  /\ \A p \in Clients : pc[p] \in {"setting", "deleting"} <=> mu = p

\* A batch has stored its first i - 1 rows; none of its codes was stored.
BatchProgress ==
  \A p \in Clients : pc[p] = "setting" =>
    /\ call[p].op = "createBatch"
    /\ i[p] \in 1 .. Len(call[p].rows)
    /\ \A j, k \in DOMAIN call[p].rows :
         call[p].rows[j].shortCode = call[p].rows[k].shortCode => j = k
    /\ \A k \in DOMAIN call[p].rows :
         /\ committed[call[p].rows[k].shortCode] = NoRow
         /\ storage[call[p].rows[k].shortCode] =
              IF k < i[p] THEN call[p].rows[k] ELSE NoRow
    /\ \A c \in ShortCodes \ CodesOf(call[p].rows) : storage[c] = committed[c]

MarkedSoFar(p) == {call[p].shortCodes[k] : k \in 1 .. i[p] - 1}

\* A delete has marked the rows of its first i - 1 codes.
DeleteProgress ==
  \A p \in Clients : pc[p] = "deleting" =>
    /\ call[p].op = "softDelete"
    /\ i[p] \in 1 .. Len(call[p].shortCodes)
    /\ \A c \in MarkedSoFar(p) :
         committed[c] # NoRow /\ storage[c] = Deleted(committed[c])
    /\ \A c \in ShortCodes \ MarkedSoFar(p) : storage[c] = committed[c]

\* The code that a URL is mapped to stores that URL, and rows know their code.
IndexPoints ==
  /\ \A u \in OriginalURLs :
       originalMap[u] # NoCode =>
         /\ storage[originalMap[u]] # NoRow
         /\ storage[originalMap[u]].originalURL = u
  /\ \A c \in ShortCodes : storage[c] # NoRow => storage[c].shortCode = c

\* What holds of the cache however its first rows came into it.
CacheInv ==
  /\ TypeOK
  /\ LocalsReset
  /\ WriterHoldsLock
  /\ BatchProgress
  /\ DeleteProgress
  /\ IndexPoints

\* Every stored URL is mapped, which is so only if all rows came by Set.
URLsAreMapped ==
  \A c \in ShortCodes :
    storage[c] # NoRow => originalMap[storage[c].originalURL] # NoCode

IInv == CacheInv /\ URLsAreMapped

-----------------------------------------------------------------------------
\* The first element of a batch that conflicts is one of its indices.
LEMMA ConflictIndex ==
  ASSUME NEW batch \in Seq(NewURL), NEW k \in Conflicts(batch)
  PROVE  k \in Nat /\ k \in DOMAIN batch
  BY DEF Conflicts

\* Init establishes the inductive invariant.
LEMMA InitCacheInv == Init => CacheInv
<1>. SUFFICES ASSUME Init PROVE CacheInv
  OBVIOUS
<1>1. TypeOK
  BY AnswerTypes DEF Init, TypeOK
<1>2. LocalsReset /\ WriterHoldsLock /\ BatchProgress /\ DeleteProgress
  BY NobodyAssumption DEF Init, LocalsReset, WriterHoldsLock, BatchProgress, DeleteProgress
<1>3. IndexPoints
  BY DEF Init, IndexPoints
<1>. QED
  BY <1>1, <1>2, <1>3 DEF CacheInv

-----------------------------------------------------------------------------
\* Steps outside the loops leave the table and r.mu alone, or run while no
\* writer holds r.mu.
LEMMA InvokeCacheInv ==
  ASSUME CacheInv, NEW p \in Clients, Invoke(p)
  PROVE  CacheInv'
<1>. USE DEF CacheInv
<1>1. TypeOK'
  BY DEF Invoke, TypeOK
<1>2. LocalsReset' /\ WriterHoldsLock'
  BY NoCallAssumption DEF Invoke, TypeOK, LocalsReset, WriterHoldsLock
<1>3. \A q \in Clients : q # p => call'[q] = call[q] /\ pc'[q] = pc[q]
  BY DEF Invoke, TypeOK
<1>4. pc'[p] = "called"
  BY DEF Invoke, TypeOK
<1>5. BatchProgress'
  BY <1>3, <1>4 DEF Invoke, TypeOK, BatchProgress
<1>6. DeleteProgress'
  BY <1>3, <1>4 DEF Invoke, TypeOK, DeleteProgress, MarkedSoFar
<1>7. IndexPoints'
  BY DEF Invoke, IndexPoints
<1>. QED
  BY <1>1, <1>2, <1>5, <1>6, <1>7

\* A call that returns from outside the loops, whoever holds r.mu.
LEMMA ReturnCacheInv ==
  ASSUME CacheInv, NEW p \in Clients, NEW answer \in Answer,
         pc[p] = "called", Return(p, answer),
         UNCHANGED <<storage, originalMap, mu, committed>>
  PROVE  CacheInv'
<1>. USE DEF CacheInv
<1>1. TypeOK'
  BY DEF Return, TypeOK
<1>2. LocalsReset' /\ WriterHoldsLock'
  BY NoCallAssumption DEF Return, TypeOK, LocalsReset, WriterHoldsLock
<1>3. \A q \in Clients : q # p =>
        call'[q] = call[q] /\ pc'[q] = pc[q] /\ i'[q] = i[q]
  BY DEF Return, TypeOK
<1>4. pc'[p] = "idle"
  BY DEF Return, TypeOK
<1>5. BatchProgress'
  BY <1>3, <1>4 DEF TypeOK, BatchProgress
<1>5a. \A q \in Clients : q # p => MarkedSoFar(q)' = MarkedSoFar(q)
  BY <1>3 DEF MarkedSoFar
<1>6. DeleteProgress'
  BY <1>3, <1>4, <1>5a DEF DeleteProgress
<1>7. IndexPoints'
  BY DEF IndexPoints
<1>. QED
  BY <1>1, <1>2, <1>5, <1>6, <1>7

\* A call that ends and releases r.mu, or takes and releases it in one step.
\* What it leaves in the table is the caller's business.
LEMMA UnlockCacheInv ==
  ASSUME CacheInv, NEW p \in Clients, NEW answer \in Answer,
         mu \in {p, Nobody}, pc[p] # "idle", UnlockAndReturn(p, answer),
         storage' \in [ShortCodes -> ShortenedURL \cup {NoRow}],
         originalMap' \in [OriginalURLs -> ShortCodes \cup {NoCode}],
         IndexPoints'
  PROVE  CacheInv'
<1>. USE DEF CacheInv
<1>1. TypeOK'
  BY DEF UnlockAndReturn, Return, TypeOK
<1>2. \A q \in Clients : pc'[q] \notin {"setting", "deleting"}
  BY NobodyAssumption DEF UnlockAndReturn, Return, TypeOK, WriterHoldsLock
<1>3. LocalsReset'
  BY NoCallAssumption DEF UnlockAndReturn, Return, TypeOK, LocalsReset
<1>4. WriterHoldsLock'
  BY <1>2, NobodyAssumption DEF UnlockAndReturn, WriterHoldsLock
<1>5. BatchProgress' /\ DeleteProgress'
  BY <1>2 DEF BatchProgress, DeleteProgress
<1>. QED
  BY <1>1, <1>3, <1>4, <1>5

\* Create sets a new row, or answers from the rows there are.
LEMMA CreateCacheInv ==
  ASSUME CacheInv, NEW p \in Clients, Create(p)
  PROVE  CacheInv'
<1>. DEFINE new == call[p].row
            known == originalMap[new.originalURL]
<1>. USE DEF CacheInv
<1>1. call[p] \in Requests /\ call[p].op = "create" /\ mu = Nobody
  BY DEF Set, Create, Called, TypeOK, LocalsReset
<1>2. new \in NewURL
  BY <1>1, RequestShapes
<1>3. /\ new \in ShortenedURL /\ new # NoRow
      /\ new.shortCode \in ShortCodes /\ new.originalURL \in OriginalURLs
  BY <1>2, NoRowAssumption DEF NewURL, ShortenedURL
<1>4. pc[p] # "idle"
  BY DEF Set, Create, Called
<1>5. CASE known # NoCode /\ UNCHANGED <<storage, originalMap>>
           /\ UnlockAndReturn(p, OriginalURLConflictError(known))
  <2>1. OriginalURLConflictError(known) \in Answer
    BY <1>3, <1>5, AnswerTypes DEF TypeOK
  <2>2. IndexPoints'
    BY <1>5 DEF IndexPoints
  <2>3. /\ storage' \in [ShortCodes -> ShortenedURL \cup {NoRow}]
        /\ originalMap' \in [OriginalURLs -> ShortCodes \cup {NoCode}]
    BY <1>5 DEF TypeOK
  <2>. HIDE DEF CacheInv, known
  <2>. QED
    BY <1>1, <1>4, <1>5, <2>1, <2>2, <2>3, UnlockCacheInv
<1>6. CASE UNCHANGED <<storage, originalMap>>
           /\ UnlockAndReturn(p, ErrConflictShortCode)
  <2>1. IndexPoints'
    BY <1>6 DEF IndexPoints
  <2>2. /\ storage' \in [ShortCodes -> ShortenedURL \cup {NoRow}]
        /\ originalMap' \in [OriginalURLs -> ShortCodes \cup {NoCode}]
    BY <1>6 DEF TypeOK
  <2>. HIDE DEF CacheInv
  <2>. QED
    BY <1>1, <1>4, <1>6, <2>1, <2>2, AnswerTypes, UnlockCacheInv
<1>7. CASE /\ known = NoCode
           /\ storage[new.shortCode] = NoRow
           /\ storage' = [storage EXCEPT ![new.shortCode] = new]
           /\ originalMap' =
                [originalMap EXCEPT ![new.originalURL] = new.shortCode]
           /\ UnlockAndReturn(p, Nothing)
  <2>. HIDE DEF new
  <2>1. IndexPoints'
    BY <1>3, <1>7, NoCodeAssumption DEF IndexPoints, TypeOK, ShortenedURL
  <2>2. /\ storage' \in [ShortCodes -> ShortenedURL \cup {NoRow}]
        /\ originalMap' \in [OriginalURLs -> ShortCodes \cup {NoCode}]
    BY <1>3, <1>7 DEF TypeOK
  <2>. HIDE DEF CacheInv
  <2>. QED
    BY <1>1, <1>4, <1>7, <2>1, <2>2, AnswerTypes, UnlockCacheInv
<1>. QED
  BY <1>5, <1>6, <1>7 DEF Set, Create

\* A call whose context is done, and the two reading calls.
LEMMA ReadersCacheInv ==
  ASSUME CacheInv, NEW p \in Clients, CtxDone(p) \/ Get(p) \/ GetURLs(p)
  PROVE  CacheInv'
<1>1. CASE CtxDone(p)
  BY <1>1, AnswerTypes, ReturnCacheInv DEF CtxDone
<1>2. CASE Get(p)
  <2>1. call[p] \in Requests /\ call[p].op = "get"
    BY <1>2 DEF Get, Called, CacheInv, TypeOK, LocalsReset
  <2>2. call[p].shortCode \in ShortCodes
    BY <2>1, RequestShapes
  <2>3. GetAnswer(storage[call[p].shortCode]) \in Answer
    BY <2>2, AnswerTypes DEF CacheInv, TypeOK
  <2>. QED
    BY <1>2, <2>3, ReturnCacheInv DEF Get, Called
<1>3. CASE GetURLs(p)
  <2>1. Listed({c \in ShortCodes : ListedFor(storage[c], call[p].uid)})
          \in Answer
    BY AnswerTypes
  <2>. QED
    BY <1>3, <2>1, ReturnCacheInv DEF GetURLs, Called
<1>. QED
  BY <1>1, <1>2, <1>3

\* The first loop of CreateBatch refuses the batch or makes room for the second.
LEMMA CreateBatchCheckCacheInv ==
  ASSUME CacheInv, NEW p \in Clients, CreateBatchCheck(p)
  PROVE  CacheInv'
<1>. DEFINE batch == call[p].rows
<1>1. call[p] \in Requests /\ call[p].op = "createBatch" /\ mu = Nobody
  BY DEF CreateBatchCheck, Called, CacheInv, TypeOK, LocalsReset
<1>2. batch \in Seq(NewURL)
  BY <1>1, RequestShapes
<1>3. pc[p] = "called"
  BY DEF CreateBatchCheck, Called
<1>4. ASSUME NEW answer \in Answer, UNCHANGED <<storage, originalMap>>,
             UnlockAndReturn(p, answer)
      PROVE  CacheInv'
  <2>1. IndexPoints'
    BY <1>4 DEF CacheInv, IndexPoints
  <2>2. /\ storage' \in [ShortCodes -> ShortenedURL \cup {NoRow}]
        /\ originalMap' \in [OriginalURLs -> ShortCodes \cup {NoCode}]
    BY <1>4 DEF CacheInv, TypeOK
  <2>. QED
    BY <1>1, <1>3, <1>4, <2>1, <2>2, UnlockCacheInv
<1>5. CASE /\ UNCHANGED <<storage, originalMap>>
           /\ \E k \in Conflicts(batch) :
                UnlockAndReturn(p, BatchConflictError(k))
  BY <1>2, <1>4, <1>5, ConflictIndex, AnswerTypes
<1>6. CASE /\ UNCHANGED <<storage, originalMap>>
           /\ UnlockAndReturn(p, Nothing)
  BY <1>4, <1>6, AnswerTypes
<1>7. CASE /\ batch # <<>>
           /\ Conflicts(batch) = {}
           /\ EnterLoop(p, "setting")
  <2>1. /\ \A q \in Clients : q # p => pc'[q] = pc[q]
        /\ pc'[p] = "setting" /\ mu' = p
        /\ UNCHANGED <<storage, originalMap, call, i, reply, committed>>
    BY <1>7 DEF EnterLoop, CacheInv, TypeOK
  <2>2. TypeOK'
    BY <1>7 DEF EnterLoop, CacheInv, TypeOK
  <2>3. LocalsReset' /\ WriterHoldsLock'
    BY <1>1, <1>3, <2>1, NobodyAssumption
    DEF CacheInv, LocalsReset, WriterHoldsLock
  <2>4. \A q \in Clients : pc'[q] \in {"setting", "deleting"} => q = p
    BY <2>1, <2>3 DEF WriterHoldsLock
  <2>5. i[p] = 1 /\ i[p] \in 1 .. Len(batch)
    BY <1>2, <1>3, <1>7 DEF CacheInv, LocalsReset
  <2>6. \A k \in DOMAIN batch : storage[batch[k].shortCode] = NoRow
    BY <1>7 DEF Conflicts
  <2>7. ASSUME NEW j \in DOMAIN batch, NEW k \in DOMAIN batch,
               batch[j].shortCode = batch[k].shortCode
        PROVE  j = k
    <3>1. j \notin 1 .. k - 1 /\ k \notin 1 .. j - 1
      BY <1>7, <2>7 DEF Conflicts
    <3>. QED
      BY <1>2, <3>1
  <2>8. storage = committed
    BY <1>1 DEF CacheInv, WriterHoldsLock
  <2>9. \A k \in DOMAIN batch : ~(k < 1)
    BY <1>2
  <2>10. BatchProgress'
    BY <1>1, <2>1, <2>4, <2>5, <2>6, <2>7, <2>8, <2>9 DEF BatchProgress
  <2>11. DeleteProgress'
    BY <2>1, <2>4 DEF DeleteProgress
  <2>12. IndexPoints'
    BY <2>1 DEF CacheInv, IndexPoints
  <2>. QED
    BY <2>2, <2>3, <2>10, <2>11, <2>12 DEF CacheInv
<1>. QED
  BY <1>5, <1>6, <1>7 DEF CreateBatchCheck

\* The second loop sets the next row of a batch whose codes are all free.
LEMMA CreateBatchSetCacheInv ==
  ASSUME CacheInv, NEW p \in Clients, CreateBatchSet(p)
  PROVE  CacheInv'
<1>. DEFINE batch == call[p].rows
            row == batch[i[p]]
<1>1. call[p] \in Requests /\ call[p].op = "createBatch" /\ pc[p] = "setting"
  BY DEF Set, CreateBatchSet, CacheInv, TypeOK, LocalsReset, BatchProgress
<1>2. batch \in Seq(NewURL) /\ mu = p
  BY <1>1, RequestShapes DEF CacheInv, WriterHoldsLock
<1>3. i[p] \in 1 .. Len(batch) /\ i[p] \in DOMAIN batch
  BY <1>1, <1>2 DEF CacheInv, BatchProgress
<1>4. row \in NewURL
  BY <1>2, <1>3
<1>5. /\ row \in ShortenedURL /\ row # NoRow
      /\ row.shortCode \in ShortCodes /\ row.originalURL \in OriginalURLs
  BY <1>4, NoRowAssumption DEF NewURL, ShortenedURL
<1>6. storage[row.shortCode] = NoRow
  BY <1>1, <1>3 DEF CacheInv, BatchProgress
<1>7. /\ storage' = [storage EXCEPT ![row.shortCode] = row]
      /\ originalMap' =
           [originalMap EXCEPT ![row.originalURL] = row.shortCode]
  BY DEF Set, CreateBatchSet
<1>8. /\ storage' \in [ShortCodes -> ShortenedURL \cup {NoRow}]
      /\ originalMap' \in [OriginalURLs -> ShortCodes \cup {NoCode}]
  BY <1>5, <1>7 DEF CacheInv, TypeOK
<1>9. IndexPoints'
  <2>. HIDE DEF row
  <2>. QED
    BY <1>5, <1>6, <1>7, NoCodeAssumption
    DEF CacheInv, IndexPoints, TypeOK, ShortenedURL
<1>10. CASE UnlockAndReturn(p, Nothing)
  BY <1>1, <1>2, <1>8, <1>9, <1>10, AnswerTypes, UnlockCacheInv
<1>11. CASE /\ i[p] < Len(batch)
            /\ i' = [i EXCEPT ![p] = @ + 1]
            /\ UNCHANGED <<mu, pc, call, reply, committed>>
  <2>1. TypeOK'
    BY <1>8, <1>11 DEF CacheInv, TypeOK
  <2>2. i'[p] = i[p] + 1 /\ \A q \in Clients : q # p => i'[q] = i[q]
    BY <1>11 DEF CacheInv, TypeOK
  <2>3. LocalsReset' /\ WriterHoldsLock'
    BY <1>1, <1>2, <1>11, <2>2, NobodyAssumption
    DEF CacheInv, LocalsReset, WriterHoldsLock
  <2>4. \A q \in Clients : pc'[q] \in {"setting", "deleting"} => q = p
    BY <1>2, <1>11 DEF CacheInv, WriterHoldsLock
  <2>5. i'[p] \in 1 .. Len(batch)
    BY <1>3, <1>11, <2>2
  <2>6. ASSUME NEW k \in DOMAIN batch
        PROVE  storage'[batch[k].shortCode] =
                 IF k < i'[p] THEN batch[k] ELSE NoRow
    <3>1. batch[k] \in NewURL /\ k \in Nat /\ i[p] \in Nat
      BY <1>2, <1>3
    <3>2. batch[k].shortCode \in ShortCodes
      BY <3>1 DEF NewURL, ShortenedURL
    <3>3. batch[k].shortCode = row.shortCode => k = i[p]
      BY <1>1, <1>3 DEF CacheInv, BatchProgress
    <3>4. storage[batch[k].shortCode] = IF k < i[p] THEN batch[k] ELSE NoRow
      BY <1>1 DEF CacheInv, BatchProgress
    <3>5. CASE k = i[p]
      BY <1>5, <1>7, <2>2, <3>1, <3>5 DEF CacheInv, TypeOK
    <3>6. CASE k # i[p]
      <4>1. storage'[batch[k].shortCode] = storage[batch[k].shortCode]
        BY <1>5, <1>7, <3>2, <3>3, <3>6 DEF CacheInv, TypeOK
      <4>2. k < i[p] <=> k < i[p] + 1
        BY <3>1, <3>6
      <4>. QED
        BY <2>2, <3>4, <4>1, <4>2
    <3>. QED
      BY <3>5, <3>6
  <2>7. ASSUME NEW c \in ShortCodes \ CodesOf(batch)
        PROVE  storage'[c] = committed'[c]
    <3>1. c # row.shortCode
      BY <1>3 DEF CodesOf
    <3>2. storage[c] = committed[c]
      BY <1>1 DEF CacheInv, BatchProgress
    <3>. QED
      BY <1>5, <1>7, <1>11, <3>1, <3>2 DEF CacheInv, TypeOK
  <2>8. call'[p] = call[p] /\ committed' = committed
    BY <1>11
  <2>9. /\ \A j, k \in DOMAIN batch :
             batch[j].shortCode = batch[k].shortCode => j = k
        /\ \A k \in DOMAIN batch : committed[batch[k].shortCode] = NoRow
    BY <1>1 DEF CacheInv, BatchProgress
  <2>10. BatchProgress'
    BY <1>1, <2>4, <2>5, <2>6, <2>7, <2>8, <2>9 DEF BatchProgress
  <2>11. DeleteProgress'
    BY <1>1, <1>11, <2>4 DEF DeleteProgress
  <2>. QED
    BY <1>9, <2>1, <2>3, <2>10, <2>11 DEF CacheInv
<1>. QED
  BY <1>10, <1>11 DEF Set, CreateBatchSet

\* SoftDeleteURLs takes the mutex, and gives it back when there is no code.
LEMMA SoftDeleteLockCacheInv ==
  ASSUME CacheInv, NEW p \in Clients, SoftDeleteLock(p)
  PROVE  CacheInv'
<1>. DEFINE codes == call[p].shortCodes
<1>1. call[p] \in Requests /\ call[p].op = "softDelete" /\ mu = Nobody
  BY DEF SoftDeleteLock, Called, CacheInv, TypeOK, LocalsReset
<1>2. codes \in Seq(ShortCodes)
  BY <1>1, RequestShapes
<1>3. pc[p] = "called"
  BY DEF SoftDeleteLock, Called
<1>4. CASE UNCHANGED <<storage, originalMap>> /\ UnlockAndReturn(p, Nothing)
  <2>1. IndexPoints'
    BY <1>4 DEF CacheInv, IndexPoints
  <2>2. /\ storage' \in [ShortCodes -> ShortenedURL \cup {NoRow}]
        /\ originalMap' \in [OriginalURLs -> ShortCodes \cup {NoCode}]
    BY <1>4 DEF CacheInv, TypeOK
  <2>. QED
    BY <1>1, <1>3, <1>4, <2>1, <2>2, AnswerTypes, UnlockCacheInv
<1>5. CASE codes # <<>> /\ EnterLoop(p, "deleting")
  <2>1. /\ \A q \in Clients : q # p => pc'[q] = pc[q]
        /\ pc'[p] = "deleting" /\ mu' = p
        /\ UNCHANGED <<storage, originalMap, call, i, reply, committed>>
    BY <1>5 DEF EnterLoop, CacheInv, TypeOK
  <2>2. TypeOK'
    BY <1>5 DEF EnterLoop, CacheInv, TypeOK
  <2>3. LocalsReset' /\ WriterHoldsLock'
    BY <1>1, <1>3, <2>1, NobodyAssumption
    DEF CacheInv, LocalsReset, WriterHoldsLock
  <2>4. \A q \in Clients : pc'[q] \in {"setting", "deleting"} => q = p
    BY <2>1, <2>3 DEF WriterHoldsLock
  <2>5. i[p] = 1 /\ i[p] \in 1 .. Len(codes)
    BY <1>2, <1>3, <1>5 DEF CacheInv, LocalsReset
  <2>6. storage = committed
    BY <1>1 DEF CacheInv, WriterHoldsLock
  <2>7. MarkedSoFar(p)' = {}
    BY <2>1, <2>5 DEF MarkedSoFar
  <2>8. DeleteProgress'
    BY <1>1, <2>1, <2>4, <2>5, <2>6, <2>7 DEF DeleteProgress
  <2>9. BatchProgress'
    BY <2>1, <2>4 DEF BatchProgress
  <2>10. IndexPoints'
    BY <2>1 DEF CacheInv, IndexPoints
  <2>. QED
    BY <2>2, <2>3, <2>8, <2>9, <2>10 DEF CacheInv
<1>. QED
  BY <1>4, <1>5 DEF SoftDeleteLock

\* SoftDeleteURLs marks the row of its next code, or stops at an unknown one.
LEMMA SoftDeleteSetCacheInv ==
  ASSUME CacheInv, NEW p \in Clients, SoftDeleteSet(p)
  PROVE  CacheInv'
<1>. DEFINE codes == call[p].shortCodes
            c == codes[i[p]]
<1>1. call[p] \in Requests /\ call[p].op = "softDelete" /\ pc[p] = "deleting"
  BY DEF SoftDeleteSet, CacheInv, TypeOK, LocalsReset, DeleteProgress
<1>2. codes \in Seq(ShortCodes) /\ mu = p
  BY <1>1, RequestShapes DEF CacheInv, WriterHoldsLock
<1>3. i[p] \in 1 .. Len(codes) /\ i[p] \in DOMAIN codes
  BY <1>1, <1>2 DEF CacheInv, DeleteProgress
<1>4. c \in ShortCodes
  BY <1>2, <1>3
<1>5. CASE UNCHANGED <<storage, originalMap>>
           /\ UnlockAndReturn(p, ErrNotExists)
  <2>1. IndexPoints'
    BY <1>5 DEF CacheInv, IndexPoints
  <2>2. /\ storage' \in [ShortCodes -> ShortenedURL \cup {NoRow}]
        /\ originalMap' \in [OriginalURLs -> ShortCodes \cup {NoCode}]
    BY <1>5 DEF CacheInv, TypeOK
  <2>. QED
    BY <1>1, <1>2, <1>5, <2>1, <2>2, AnswerTypes, UnlockCacheInv
<1>6. CASE /\ storage[c] # NoRow
           /\ storage' = [storage EXCEPT ![c] = Deleted(@)]
           /\ originalMap' = originalMap
           /\ \/ /\ i[p] < Len(codes)
                 /\ i' = [i EXCEPT ![p] = @ + 1]
                 /\ UNCHANGED <<mu, pc, call, reply, committed>>
              \/ UnlockAndReturn(p, Nothing)
  <2>1. storage[c] \in ShortenedURL
    BY <1>4, <1>6 DEF CacheInv, TypeOK
  <2>. HIDE DEF c
  <2>2. /\ storage'[c] = Deleted(storage[c])
        /\ \A d \in ShortCodes : d # c => storage'[d] = storage[d]
    BY <1>4, <1>6 DEF CacheInv, TypeOK
  <2>3. Deleted(storage[c]) \in ShortenedURL /\ Deleted(storage[c]) # NoRow
    BY <2>1, DeletedType
  <2>4. /\ storage' \in [ShortCodes -> ShortenedURL \cup {NoRow}]
        /\ originalMap' \in [OriginalURLs -> ShortCodes \cup {NoCode}]
    BY <1>4, <1>6, <2>3 DEF CacheInv, TypeOK
  <2>5. \A d \in ShortCodes :
          /\ storage'[d] # NoRow <=> storage[d] # NoRow
          /\ storage'[d] # NoRow =>
               /\ storage'[d].shortCode = storage[d].shortCode
               /\ storage'[d].originalURL = storage[d].originalURL
    BY <1>4, <1>6, <2>1, <2>2, <2>3, DeletedType
  <2>6. IndexPoints'
    BY <1>6, <2>5, NoCodeAssumption DEF CacheInv, IndexPoints, TypeOK
  <2>7. CASE UnlockAndReturn(p, Nothing)
    BY <1>1, <1>2, <2>4, <2>6, <2>7, AnswerTypes, UnlockCacheInv
  <2>8. CASE /\ i[p] < Len(codes)
             /\ i' = [i EXCEPT ![p] = @ + 1]
             /\ UNCHANGED <<mu, pc, call, reply, committed>>
    <3>1. TypeOK'
      BY <2>4, <2>8 DEF CacheInv, TypeOK
    <3>2. i'[p] = i[p] + 1 /\ \A q \in Clients : q # p => i'[q] = i[q]
      BY <2>8 DEF CacheInv, TypeOK
    <3>3. LocalsReset' /\ WriterHoldsLock'
      BY <1>1, <1>2, <2>8, <3>2, NobodyAssumption
      DEF CacheInv, LocalsReset, WriterHoldsLock
    <3>4. \A q \in Clients : pc'[q] \in {"setting", "deleting"} => q = p
      BY <1>2, <2>8 DEF CacheInv, WriterHoldsLock
    <3>5. i'[p] \in 1 .. Len(codes)
      BY <1>3, <2>8, <3>2
    <3>6. MarkedSoFar(p)' = MarkedSoFar(p) \cup {c}
      <4>1. 1 .. i'[p] - 1 = (1 .. i[p] - 1) \cup {i[p]}
        BY <1>3, <3>2
      <4>. QED
        BY <2>8, <4>1 DEF MarkedSoFar, c
    <3>7. ASSUME NEW d \in MarkedSoFar(p)'
          PROVE  committed[d] # NoRow /\ storage'[d] = Deleted(committed[d])
      <4>1. CASE d = c /\ c \notin MarkedSoFar(p)
        BY <1>1, <1>4, <1>6, <2>2, <4>1 DEF CacheInv, DeleteProgress
      <4>2. CASE d = c /\ c \in MarkedSoFar(p)
        <5>1. committed[c] # NoRow /\ storage[c] = Deleted(committed[c])
          BY <1>1, <4>2 DEF CacheInv, DeleteProgress
        <5>2. committed[c] \in ShortenedURL
          BY <1>4, <5>1 DEF CacheInv, TypeOK
        <5>. QED
          BY <2>2, <4>2, <5>1, <5>2, DeletedType
      <4>3. CASE d # c
        <5>1. d \in MarkedSoFar(p)
          BY <3>6, <4>3
        <5>2. d \in ShortCodes
          BY <1>2, <1>3, <5>1 DEF MarkedSoFar
        <5>. QED
          BY <1>1, <2>2, <4>3, <5>1, <5>2 DEF CacheInv, DeleteProgress
      <4>. QED
        BY <4>1, <4>2, <4>3
    <3>8. ASSUME NEW d \in ShortCodes \ MarkedSoFar(p)'
          PROVE  storage'[d] = committed[d]
      <4>1. d # c /\ d \notin MarkedSoFar(p)
        BY <3>6
      <4>. QED
        BY <1>1, <2>2, <4>1 DEF CacheInv, DeleteProgress
    <3>9. DeleteProgress'
      BY <1>1, <2>8, <3>4, <3>5, <3>7, <3>8 DEF DeleteProgress
    <3>10. BatchProgress'
      BY <1>1, <2>8, <3>4 DEF BatchProgress
    <3>. QED
      BY <2>6, <3>1, <3>3, <3>9, <3>10 DEF CacheInv
  <2>. QED
    BY <1>6, <2>7, <2>8
<1>. QED
  BY <1>5, <1>6 DEF SoftDeleteSet

\* Every step keeps what does not depend on how the first rows came in.
LEMMA NextCacheInv == CacheInv /\ [Next]_vars => CacheInv'
<1>. SUFFICES ASSUME CacheInv, [Next]_vars PROVE CacheInv'
  OBVIOUS
<1>1. CASE UNCHANGED vars
  BY <1>1
  DEF vars, CacheInv, TypeOK, LocalsReset, WriterHoldsLock, BatchProgress,
      DeleteProgress, MarkedSoFar, IndexPoints
<1>2. ASSUME NEW p \in Clients, Invoke(p) PROVE CacheInv'
  BY <1>2, InvokeCacheInv
<1>3. ASSUME NEW p \in Clients, CtxDone(p) PROVE CacheInv'
  BY <1>3, ReadersCacheInv
<1>4. ASSUME NEW p \in Clients, Step(p) PROVE CacheInv'
  BY <1>4, CreateCacheInv, CreateBatchCheckCacheInv, CreateBatchSetCacheInv,
     SoftDeleteLockCacheInv, SoftDeleteSetCacheInv, ReadersCacheInv DEF Step
<1>. QED
  BY <1>1, <1>2, <1>3, <1>4 DEF Next


-----------------------------------------------------------------------------
\* A step leaves a stored row as it is or marks it as deleted.
LEMMA RowStep ==
  ASSUME CacheInv, [Next]_vars, NEW c \in ShortCodes, storage[c] # NoRow
  PROVE  storage'[c] = storage[c] \/ storage'[c] = Deleted(storage[c])
<1>1. CASE storage' = storage
  BY <1>1
<1>2. ASSUME NEW p \in Clients, Create(p), storage' # storage
      PROVE  storage'[c] = storage[c]
  <2>1. /\ storage[call[p].row.shortCode] = NoRow
        /\ storage' = [storage EXCEPT ![call[p].row.shortCode] = call[p].row]
    BY <1>2 DEF Set, Create
  <2>. QED
    BY <2>1 DEF CacheInv, TypeOK
<1>3. ASSUME NEW p \in Clients, CreateBatchSet(p)
      PROVE  storage'[c] = storage[c]
  <2>. DEFINE row == call[p].rows[i[p]]
  <2>1. pc[p] = "setting" /\ storage' = [storage EXCEPT ![row.shortCode] = row]
    BY <1>3 DEF Set, CreateBatchSet
  <2>2. call[p] \in Requests /\ call[p].op = "createBatch"
    BY <2>1 DEF CacheInv, TypeOK, LocalsReset, BatchProgress
  <2>3. call[p].rows \in Seq(NewURL) /\ i[p] \in 1 .. Len(call[p].rows)
    BY <2>1, <2>2, RequestShapes DEF CacheInv, BatchProgress
  <2>4. i[p] \in DOMAIN call[p].rows /\ ~(i[p] < i[p])
    BY <2>3
  <2>5. storage[row.shortCode] = NoRow
    BY <2>1, <2>4 DEF CacheInv, BatchProgress
  <2>. QED
    BY <2>1, <2>5 DEF CacheInv, TypeOK
<1>4. ASSUME NEW p \in Clients, SoftDeleteSet(p), storage' # storage
      PROVE  storage'[c] = storage[c] \/ storage'[c] = Deleted(storage[c])
  BY <1>4 DEF SoftDeleteSet, CacheInv, TypeOK
<1>5. \A p \in Clients :
        Invoke(p) \/ CtxDone(p) \/ CreateBatchCheck(p) \/ SoftDeleteLock(p)
          \/ Get(p) \/ GetURLs(p) => storage' = storage
  BY DEF Invoke, CtxDone, CreateBatchCheck, SoftDeleteLock, Get, GetURLs,
         EnterLoop
<1>. QED
  BY <1>1, <1>2, <1>3, <1>4, <1>5 DEF Next, Step, vars

\* Every URL is mapped: no step takes an entry away.
LEMMA MappedStays ==
  ASSUME IInv, [Next]_vars
  PROVE  URLsAreMapped'
<1>1. TypeOK /\ CacheInv /\ URLsAreMapped
  BY DEF IInv, CacheInv
<1>2. ASSUME NEW row \in NewURL, Set(row)
      PROVE  URLsAreMapped'
  <2>1. row.shortCode \in ShortCodes /\ row.originalURL \in OriginalURLs
    BY DEF NewURL, ShortenedURL
  <2>2. \A c \in ShortCodes :
          storage[c] # NoRow => storage[c].originalURL \in OriginalURLs
    BY <1>1 DEF TypeOK, ShortenedURL
  <2>3. originalMap'[row.originalURL] = row.shortCode
    BY <1>1, <1>2, <2>1 DEF Set, TypeOK
  <2>4. \A u \in OriginalURLs :
          originalMap[u] # NoCode => originalMap'[u] # NoCode
    BY <1>1, <1>2, <2>1, NoCodeAssumption DEF Set, TypeOK
  <2>5. \A c \in ShortCodes : storage'[c] = row \/ storage'[c] = storage[c]
    BY <1>1, <1>2, <2>1 DEF Set, TypeOK
  <2>. QED
    BY <1>1, <2>1, <2>2, <2>3, <2>4, <2>5, NoCodeAssumption DEF URLsAreMapped
<1>3. CASE UNCHANGED <<storage, originalMap>>
  BY <1>1, <1>3 DEF URLsAreMapped
<1>4. ASSUME NEW p \in Clients, Create(p)
      PROVE  URLsAreMapped'
  <2>1. call[p].row \in NewURL
    BY <1>1, <1>4, RequestShapes DEF Create, Called, TypeOK, CacheInv, LocalsReset
  <2>. QED
    BY <1>2, <1>3, <1>4, <2>1 DEF Create
<1>5. ASSUME NEW p \in Clients, CreateBatchSet(p)
      PROVE  URLsAreMapped'
  <2>1. pc[p] = "setting" /\ Set(call[p].rows[i[p]])
    BY <1>5 DEF CreateBatchSet
  <2>2. call[p] \in Requests /\ call[p].op = "createBatch"
    BY <1>1, <2>1 DEF CacheInv, TypeOK, LocalsReset, BatchProgress
  <2>3. call[p].rows \in Seq(NewURL) /\ i[p] \in 1 .. Len(call[p].rows)
    BY <1>1, <2>1, <2>2, RequestShapes DEF CacheInv, BatchProgress
  <2>4. call[p].rows[i[p]] \in NewURL
    BY <2>3
  <2>. QED
    BY <1>2, <2>1, <2>4
<1>6. ASSUME NEW p \in Clients, SoftDeleteSet(p)
      PROVE  URLsAreMapped'
  <2>1. originalMap' = originalMap
    BY <1>6 DEF SoftDeleteSet
  <2>2. ASSUME NEW c \in ShortCodes, storage'[c] # NoRow
        PROVE  /\ storage[c] # NoRow
               /\ storage'[c].originalURL = storage[c].originalURL
    <3>1. storage'[c] = storage[c]
             \/ (storage[c] # NoRow /\ storage'[c] = Deleted(storage[c]))
      BY <1>1, <1>6 DEF SoftDeleteSet, TypeOK
    <3>2. storage[c] # NoRow => storage[c] \in ShortenedURL
      BY <1>1 DEF TypeOK
    <3>. QED
      BY <2>2, <3>1, <3>2, DeletedType
  <2>. QED
    BY <1>1, <2>1, <2>2 DEF URLsAreMapped
<1>7. \A p \in Clients :
        \/ Invoke(p) \/ CtxDone(p) \/ CreateBatchCheck(p) \/ SoftDeleteLock(p)
        \/ Get(p) \/ GetURLs(p)
        => UNCHANGED <<storage, originalMap>>
  BY DEF Invoke, CtxDone, CreateBatchCheck, SoftDeleteLock, Get, GetURLs,
         EnterLoop
<1>. QED
  BY <1>3, <1>4, <1>5, <1>6, <1>7 DEF Next, Step, vars

\* Every step keeps the invariant.
LEMMA NextIInv == IInv /\ [Next]_vars => IInv'
  BY NextCacheInv, MappedStays DEF IInv

\* The empty cache satisfies it.
LEMMA InitIInv == Init => IInv
  BY InitCacheInv DEF Init, IInv, URLsAreMapped

\* It holds in every state.
LEMMA SpecIInv == Spec => []IInv
  BY InitIInv, NextIInv, PTL DEF Spec

\* Types: of the cache, the index, the lock and of every answer.
THEOREM TypeCorrect == Spec => []TypeOK
<1>1. IInv => TypeOK
  BY DEF IInv, CacheInv
<1>. QED
  BY <1>1, SpecIInv, PTL

(***************************************************************************)
(* The reverse index never disagrees with the cache while r.mu is free.    *)
(***************************************************************************)
THEOREM IndexAgrees == Spec => []IndexMatchesStorage
<1>1. IInv => IndexMatchesStorage
  BY DEF IInv, CacheInv, IndexPoints, URLsAreMapped, IndexMatchesStorage
<1>. QED
  BY <1>1, SpecIInv, PTL

(***************************************************************************)
(* The URL and the owner of a stored code never change.                    *)
(***************************************************************************)
THEOREM ImmutableBindings == Spec => BindingsAreImmutable
<1>1. ASSUME IInv, [Next]_vars, NEW c \in ShortCodes, storage[c] # NoRow
      PROVE  /\ storage'[c] # NoRow
             /\ storage'[c].originalURL = storage[c].originalURL
             /\ storage'[c].userID = storage[c].userID
  <2>1. storage[c] \in ShortenedURL
    BY <1>1 DEF IInv, CacheInv, TypeOK
  <2>. QED
    BY <1>1, <2>1, RowStep, DeletedType DEF IInv
<1>2. IInv /\ [Next]_vars =>
        [\A c \in ShortCodes :
           storage[c] # NoRow =>
             /\ storage'[c] # NoRow
             /\ storage'[c].originalURL = storage[c].originalURL
             /\ storage'[c].userID = storage[c].userID]_vars
  BY <1>1
<1>. QED
  BY <1>2, SpecIInv, PTL DEF Spec, BindingsAreImmutable

(***************************************************************************)
(* No interleaving of calls revives a deleted row.                         *)
(***************************************************************************)
THEOREM DeletionIsFinal == Spec => DeletedStaysDeleted
<1>1. ASSUME IInv, [Next]_vars, NEW c \in ShortCodes,
             storage[c] # NoRow, storage[c].isDeleted
      PROVE  storage'[c] # NoRow /\ storage'[c].isDeleted
  <2>1. storage[c] \in ShortenedURL
    BY <1>1 DEF IInv, CacheInv, TypeOK
  <2>. QED
    BY <1>1, <2>1, RowStep, DeletedType DEF IInv
<1>2. IInv /\ [Next]_vars =>
        [\A c \in ShortCodes :
           storage[c] # NoRow /\ storage[c].isDeleted =>
             storage'[c] # NoRow /\ storage'[c].isDeleted]_vars
  BY <1>1
<1>. QED
  BY <1>2, SpecIInv, PTL DEF Spec, DeletedStaysDeleted

-----------------------------------------------------------------------------
(***************************************************************************)
(* The refinement: every step is a step of the store or leaves the         *)
(* store's variables, committed, call and reply, as they are.              *)
(***************************************************************************)
\* With rows from a file a URL may be stored that originalMap does not know.
\* It is then stored again, under the new code, where the abstract store would
\* answer the code that it has.
StoreAgain(p) ==
  LET new == call[p].row
  IN /\ ~URLsAreMapped
     /\ Store!InCall(p, "create")
     /\ committed[new.shortCode] = NoRow
     /\ \E c \in ShortCodes :
          committed[c] # NoRow /\ committed[c].originalURL = new.originalURL
     /\ committed' = [committed EXCEPT ![new.shortCode] = new]
     /\ Store!Return(p, Store!Nothing)

\* A single create is the abstract call, in one step.
LEMMA CreateRefines ==
  ASSUME CacheInv, NEW p \in Clients, Create(p)
  PROVE  Store!Create(p) \/ StoreAgain(p)
<1>. DEFINE new == call[p].row
            known == originalMap[new.originalURL]
<1>1. /\ call[p] \in Requests /\ call[p].op = "create"
      /\ mu = Nobody /\ committed = storage /\ call[p] # NoCall
  BY NoCallAssumption
  DEF Set, Create, Called, CacheInv, TypeOK, LocalsReset, WriterHoldsLock
<1>2. new \in NewURL
  BY <1>1, RequestShapes
<1>3. new.shortCode \in ShortCodes /\ new.originalURL \in OriginalURLs
  BY <1>2 DEF NewURL, ShortenedURL
<1>4. Store!InCall(p, "create")
  BY <1>1 DEF Store!InCall
<1>5. CASE known # NoCode /\ UNCHANGED <<storage, originalMap>>
           /\ UnlockAndReturn(p, OriginalURLConflictError(known))
  <2>1. /\ known \in ShortCodes
        /\ committed[known] # NoRow
        /\ committed[known].originalURL = new.originalURL
    BY <1>1, <1>3, <1>5 DEF CacheInv, TypeOK, IndexPoints
  <2>2. committed' = committed
        /\ Store!Return(p, Store!OriginalURLConflictError(known))
    BY <1>1, <1>5
    DEF UnlockAndReturn, Return, Store!Return, OriginalURLConflictError,
        Store!OriginalURLConflictError
  <2>. QED
    BY <1>4, <2>1, <2>2 DEF Store!Create
<1>6. CASE /\ storage[new.shortCode] # NoRow
           /\ UNCHANGED <<storage, originalMap>>
           /\ UnlockAndReturn(p, ErrConflictShortCode)
  BY <1>1, <1>4, <1>6
  DEF UnlockAndReturn, Return, Store!Return, ErrConflictShortCode,
      Store!ErrConflictShortCode, Store!Create
<1>7. CASE /\ known = NoCode
           /\ storage[new.shortCode] = NoRow
           /\ storage' = [storage EXCEPT ![new.shortCode] = new]
           /\ UnlockAndReturn(p, Nothing)
  <2>1. /\ committed' = [committed EXCEPT ![new.shortCode] = new]
        /\ Store!Return(p, Store!Nothing)
    BY <1>1, <1>7
    DEF UnlockAndReturn, Return, Store!Return, Nothing, Store!Nothing
  <2>2. CASE \A c \in ShortCodes :
               ~(committed[c] # NoRow /\ committed[c].originalURL = new.originalURL)
    BY <1>1, <1>4, <1>7, <2>1, <2>2 DEF Store!Create
  <2>3. ASSUME NEW c \in ShortCodes,
               committed[c] # NoRow, committed[c].originalURL = new.originalURL
        PROVE  StoreAgain(p)
    <3>1. ~URLsAreMapped
      BY <1>1, <1>7, <2>3 DEF URLsAreMapped
    <3>. QED
      BY <1>1, <1>4, <1>7, <2>1, <2>3, <3>1 DEF StoreAgain
  <2>. QED
    BY <2>2, <2>3
<1>. QED
  BY <1>5, <1>6, <1>7 DEF Set, Create

\* A refused batch is the abstract call; one that is let in is none yet.
LEMMA CreateBatchCheckRefines ==
  ASSUME CacheInv, NEW p \in Clients, CreateBatchCheck(p)
  PROVE  Store!CreateBatch(p) \/ UNCHANGED <<committed, call, reply>>
<1>. DEFINE batch == call[p].rows
<1>1. /\ call[p] \in Requests /\ call[p].op = "createBatch"
      /\ committed = storage /\ call[p] # NoCall
  BY NoCallAssumption
  DEF CreateBatchCheck, Called, CacheInv, TypeOK, LocalsReset, WriterHoldsLock
<1>2. Store!InCall(p, "createBatch")
  BY <1>1 DEF Store!InCall
<1>3. CASE /\ UNCHANGED <<storage, originalMap>>
           /\ \E k \in Conflicts(batch) :
                UnlockAndReturn(p, BatchConflictError(k))
  BY <1>1, <1>2, <1>3
  DEF Conflicts, UnlockAndReturn, Return, Store!Return, BatchConflictError,
      Store!BatchConflictError, Store!CreateBatch
<1>4. CASE /\ batch = <<>>
           /\ UNCHANGED <<storage, originalMap>>
           /\ UnlockAndReturn(p, Nothing)
  <2>1. DOMAIN batch = {}
    BY <1>4
  <2>2. Store!CodesOf(batch) = {}
    BY <2>1 DEF Store!CodesOf
  <2>3. committed' = [c \in ShortCodes |->
                        IF c \in Store!CodesOf(batch)
                          THEN Store!RowFor(batch, c) ELSE committed[c]]
    BY <1>1, <1>4, <2>2 DEF UnlockAndReturn, CacheInv, TypeOK
  <2>4. Store!Return(p, Store!Nothing)
    BY <1>4 DEF UnlockAndReturn, Return, Store!Return, Nothing, Store!Nothing
  <2>. QED
    BY <1>2, <2>1, <2>3, <2>4 DEF Store!CreateBatch
<1>5. CASE EnterLoop(p, "setting")
  BY <1>5 DEF EnterLoop
<1>. QED
  BY <1>3, <1>4, <1>5 DEF CreateBatchCheck

\* The last row of a batch is the abstract call, those before it stutter.
LEMMA CreateBatchSetRefines ==
  ASSUME CacheInv, NEW p \in Clients, CreateBatchSet(p)
  PROVE  Store!CreateBatch(p) \/ UNCHANGED <<committed, call, reply>>
<1>. DEFINE batch == call[p].rows
            row == batch[i[p]]
<1>1. CASE UNCHANGED <<mu, pc, call, reply, committed>>
  BY <1>1
<1>2. CASE i[p] = Len(batch) /\ UnlockAndReturn(p, Nothing)
  <2>1. /\ call[p] \in Requests /\ call[p].op = "createBatch"
        /\ call[p] # NoCall /\ pc[p] = "setting"
    BY NoCallAssumption
    DEF Set, CreateBatchSet, CacheInv, TypeOK, LocalsReset, BatchProgress
  <2>2. batch \in Seq(NewURL) /\ i[p] \in 1 .. Len(batch)
    BY <2>1, RequestShapes DEF CacheInv, BatchProgress
  <2>3. row \in NewURL /\ row.shortCode \in ShortCodes
    BY <2>2 DEF NewURL, ShortenedURL
  <2>4. storage' = [storage EXCEPT ![row.shortCode] = row]
    BY DEF Set, CreateBatchSet
  <2>5. ASSUME NEW c \in Store!CodesOf(batch)
        PROVE  storage'[c] = Store!RowFor(batch, c)
    <3>1. PICK k \in DOMAIN batch : batch[k].shortCode = c
      BY DEF Store!CodesOf
    <3>2. Store!RowFor(batch, c) = batch[k]
      <4>1. \A j \in DOMAIN batch : batch[j].shortCode = c => j = k
        BY <2>1, <3>1 DEF CacheInv, BatchProgress
      <4>. QED
        BY <3>1, <4>1 DEF Store!RowFor
    <3>3. c \in ShortCodes
      BY <2>2, <3>1 DEF NewURL, ShortenedURL
    <3>4. CASE k = i[p]
      BY <2>4, <3>1, <3>2, <3>3, <3>4 DEF CacheInv, TypeOK
    <3>5. CASE k # i[p]
      <4>1. k < i[p]
        BY <1>2, <2>2, <3>5
      <4>2. storage[c] = batch[k]
        BY <2>1, <3>1, <4>1 DEF CacheInv, BatchProgress
      <4>3. c # row.shortCode
        BY <2>1, <2>2, <3>1, <3>5 DEF CacheInv, BatchProgress
      <4>. QED
        BY <2>4, <3>2, <3>3, <4>2, <4>3 DEF CacheInv, TypeOK
    <3>. QED
      BY <3>4, <3>5
  <2>6. ASSUME NEW c \in ShortCodes, c \notin Store!CodesOf(batch)
        PROVE  storage'[c] = committed[c]
    <3>1. c # row.shortCode /\ c \notin CodesOf(batch)
      BY <2>2, <2>6 DEF CodesOf, Store!CodesOf
    <3>. QED
      BY <2>1, <2>4, <3>1 DEF CacheInv, TypeOK, BatchProgress
  <2>7. committed' = [c \in ShortCodes |->
                        IF c \in Store!CodesOf(batch)
                          THEN Store!RowFor(batch, c) ELSE committed[c]]
    <3>1. committed' = storage' /\ storage' = [c \in ShortCodes |-> storage'[c]]
      BY <1>2, <2>4 DEF UnlockAndReturn, CacheInv, TypeOK
    <3>. QED
      BY <2>5, <2>6, <3>1
  <2>8. /\ \A k \in DOMAIN batch : committed[batch[k].shortCode] = NoRow
        /\ \A j, k \in DOMAIN batch :
             batch[j].shortCode = batch[k].shortCode => j = k
    BY <2>1 DEF CacheInv, BatchProgress
  <2>9. Store!InCall(p, "createBatch") /\ Store!Return(p, Store!Nothing)
    BY <1>2, <2>1
    DEF Store!InCall, UnlockAndReturn, Return, Store!Return, Nothing,
        Store!Nothing
  <2>. QED
    BY <2>7, <2>8, <2>9 DEF Store!CreateBatch
<1>. QED
  BY <1>1, <1>2 DEF Set, CreateBatchSet

\* A delete of no codes is the abstract call; any other has only begun.
LEMMA SoftDeleteLockRefines ==
  ASSUME CacheInv, NEW p \in Clients, SoftDeleteLock(p)
  PROVE  Store!SoftDelete(p) \/ UNCHANGED <<committed, call, reply>>
<1>. DEFINE codes == call[p].shortCodes
<1>1. /\ call[p] \in Requests /\ call[p].op = "softDelete"
      /\ committed = storage /\ call[p] # NoCall
  BY NoCallAssumption
  DEF SoftDeleteLock, Called, CacheInv, TypeOK, LocalsReset, WriterHoldsLock
<1>2. CASE /\ codes = <<>>
           /\ UNCHANGED <<storage, originalMap>>
           /\ UnlockAndReturn(p, Nothing)
  <2>1. {codes[k] : k \in DOMAIN codes} = {}
    BY <1>2
  <2>2. committed' = [c \in ShortCodes |->
                        IF c \in {} THEN Store!Deleted(committed[c])
                        ELSE committed[c]]
    BY <1>1, <1>2 DEF UnlockAndReturn, CacheInv, TypeOK
  <2>3. Store!Return(p, Store!Nothing) /\ Store!InCall(p, "softDelete")
    BY <1>1, <1>2
    DEF UnlockAndReturn, Return, Store!Return, Nothing, Store!Nothing,
        Store!InCall
  <2>. QED
    BY <2>1, <2>2, <2>3 DEF Store!SoftDelete
<1>3. CASE EnterLoop(p, "deleting")
  BY <1>3 DEF EnterLoop
<1>. QED
  BY <1>2, <1>3 DEF SoftDeleteLock

\* The last mark of a delete, or its stop half way, is the abstract call.
LEMMA SoftDeleteSetRefines ==
  ASSUME CacheInv, NEW p \in Clients, SoftDeleteSet(p)
  PROVE  Store!SoftDelete(p) \/ UNCHANGED <<committed, call, reply>>
<1>. DEFINE codes == call[p].shortCodes
            c == codes[i[p]]
            all == {codes[k] : k \in DOMAIN codes}
<1>1. /\ call[p] \in Requests /\ call[p].op = "softDelete"
      /\ call[p] # NoCall /\ pc[p] = "deleting"
  BY NoCallAssumption
  DEF SoftDeleteSet, CacheInv, TypeOK, LocalsReset, DeleteProgress
<1>2. codes \in Seq(ShortCodes) /\ i[p] \in 1 .. Len(codes)
  BY <1>1, RequestShapes DEF CacheInv, DeleteProgress
<1>3. c \in ShortCodes /\ c \in all /\ all \subseteq ShortCodes
  BY <1>2
<1>4. MarkedSoFar(p) \subseteq all
  BY <1>2 DEF MarkedSoFar
<1>5. Store!InCall(p, "softDelete")
  BY <1>1 DEF Store!InCall
<1>6. \A row : Store!Deleted(row) = Deleted(row)
  BY DEF Store!Deleted, Deleted
<1>7. CASE /\ storage[c] = NoRow
           /\ storage' = storage
           /\ UnlockAndReturn(p, ErrNotExists)
  <2>1. committed[c] = NoRow
    BY <1>1, <1>3, <1>7, DeletedType DEF CacheInv, TypeOK, DeleteProgress
  <2>2. \A d \in MarkedSoFar(p) : committed[d] # NoRow
    BY <1>1 DEF CacheInv, DeleteProgress
  <2>3. committed' = [d \in ShortCodes |->
                        IF d \in MarkedSoFar(p)
                          THEN Store!Deleted(committed[d]) ELSE committed[d]]
    BY <1>1, <1>6, <1>7 DEF UnlockAndReturn, CacheInv, TypeOK, DeleteProgress
  <2>4. Store!Return(p, Store!ErrNotExists)
    BY <1>7
    DEF UnlockAndReturn, Return, Store!Return, ErrNotExists,
        Store!ErrNotExists
  <2>. QED
    BY <1>3, <1>4, <1>5, <2>1, <2>2, <2>3, <2>4 DEF Store!SoftDelete
<1>8. CASE /\ storage[c] # NoRow
           /\ storage' = [storage EXCEPT ![c] = Deleted(@)]
           /\ i[p] = Len(codes)
           /\ UnlockAndReturn(p, Nothing)
  <2>1. all = MarkedSoFar(p) \cup {c}
    <3>1. DOMAIN codes = (1 .. i[p] - 1) \cup {i[p]}
      BY <1>2, <1>8
    <3>. QED
      BY <3>1 DEF MarkedSoFar
  <2>. HIDE DEF c, all
  <2>2. \A d \in MarkedSoFar(p) :
          committed[d] # NoRow /\ storage[d] = Deleted(committed[d])
    BY <1>1 DEF CacheInv, DeleteProgress
  <2>3. \A d \in ShortCodes \ MarkedSoFar(p) : storage[d] = committed[d]
    BY <1>1 DEF CacheInv, DeleteProgress
  <2>4. committed[c] # NoRow
    BY <1>3, <1>8, <2>2, <2>3
  <2>5. storage'[c] = Deleted(committed[c])
    <3>1. committed[c] \in ShortenedURL
      BY <1>3, <2>4 DEF CacheInv, TypeOK
    <3>2. storage'[c] = Deleted(storage[c])
      BY <1>3, <1>8 DEF CacheInv, TypeOK
    <3>3. storage[c] \in {committed[c], Deleted(committed[c])}
      BY <1>3, <2>2, <2>3
    <3>. QED
      BY <3>1, <3>2, <3>3, DeletedType
  <2>6. \A d \in ShortCodes : d # c => storage'[d] = storage[d]
    BY <1>3, <1>8 DEF CacheInv, TypeOK
  <2>7. \A d \in ShortCodes :
          storage'[d] = IF d \in all THEN Deleted(committed[d])
                        ELSE committed[d]
    BY <2>1, <2>2, <2>3, <2>5, <2>6
  <2>8. committed' = [d \in ShortCodes |->
                        IF d \in all THEN Store!Deleted(committed[d])
                        ELSE committed[d]]
    <3>1. committed' = storage' /\ storage' = [d \in ShortCodes |-> storage'[d]]
      BY <1>3, <1>8 DEF UnlockAndReturn, CacheInv, TypeOK
    <3>. QED
      BY <1>6, <2>7, <3>1
  <2>9. Store!Return(p, Store!Nothing)
    BY <1>8
    DEF UnlockAndReturn, Return, Store!Return, Nothing, Store!Nothing
  <2>10. \A d \in all : committed[d] # NoRow
    BY <2>1, <2>2, <2>4
  <2>. QED
    BY <1>5, <2>8, <2>9, <2>10 DEF Store!SoftDelete, all
<1>9. CASE UNCHANGED <<mu, pc, call, reply, committed>>
  BY <1>9
<1>. QED
  BY <1>7, <1>8, <1>9 DEF SoftDeleteSet

\* Get takes the mutex, so that it reads the table between two calls.
LEMMA GetRefines ==
  ASSUME CacheInv, NEW p \in Clients, Get(p)
  PROVE  Store!Get(p)
<1>1. /\ call[p] \in Requests /\ call[p].op = "get" /\ call[p] # NoCall
      /\ committed = storage /\ committed' = committed
  BY NoCallAssumption
  DEF Get, Called, CacheInv, TypeOK, LocalsReset, WriterHoldsLock
<1>2. Return(p, GetAnswer(committed[call[p].shortCode]))
  BY <1>1 DEF Get
<1>. QED
  BY <1>1, <1>2
  DEF Return, Store!Return, Store!InCall, GetAnswer, Store!GetAnswer,
      ErrNotExists, Store!ErrNotExists, ErrRowGone, Store!ErrRowGone, Found,
      Store!Found, Store!Get

\* GetURLs may see a call that is half done, which the abstract one may too.
LEMMA GetURLsRefines ==
  ASSUME CacheInv, NEW p \in Clients, GetURLs(p)
  PROVE  Store!GetURLs(p)
<1>. DEFINE uid == call[p].uid
            codes == {c \in ShortCodes : ListedFor(storage[c], uid)}
<1>1. call[p] \in Requests /\ call[p].op = "getURLs" /\ call[p] # NoCall
  BY NoCallAssumption DEF GetURLs, Called, CacheInv, TypeOK, LocalsReset
<1>2. \A row : Store!ListedFor(row, uid) <=> ListedFor(row, uid)
  BY DEF Store!ListedFor, ListedFor
<1>3. ASSUME NEW c \in ShortCodes
      PROVE  /\ ListedFor(storage[c], uid) =>
                  \/ ListedFor(committed[c], uid)
                  \/ c \in Store!BeingCreated(uid)
             /\ ListedFor(committed[c], uid) =>
                  \/ ListedFor(storage[c], uid)
                  \/ c \in Store!BeingDeleted
  <2>1. CASE storage[c] = committed[c]
    BY <2>1
  <2>2. CASE storage[c] # committed[c]
    <3>1. mu \in Clients /\ pc[mu] \in {"setting", "deleting"}
      BY <2>2 DEF CacheInv, TypeOK, WriterHoldsLock
    <3>2. call[mu] \in Requests /\ call[mu] # NoCall
      BY <3>1, NoCallAssumption DEF CacheInv, TypeOK, LocalsReset
    <3>3. CASE pc[mu] = "setting"
      <4>1. call[mu].op = "createBatch"
        BY <3>1, <3>3 DEF CacheInv, BatchProgress
      <4>2. c \in CodesOf(call[mu].rows)
        BY <2>2, <3>1, <3>3 DEF CacheInv, BatchProgress
      <4>3. PICK k \in DOMAIN call[mu].rows : call[mu].rows[k].shortCode = c
        BY <4>2 DEF CodesOf
      <4>4. committed[c] = NoRow /\ storage[c] \in {call[mu].rows[k], NoRow}
        BY <3>1, <3>3, <4>3 DEF CacheInv, BatchProgress
      <4>5. Store!InCall(mu, "createBatch")
        BY <3>2, <4>1 DEF Store!InCall
      <4>6. ListedFor(storage[c], uid) => c \in Store!BeingCreated(uid)
        BY <3>1, <4>3, <4>4, <4>5 DEF ListedFor, Store!BeingCreated
      <4>. QED
        BY <4>4, <4>6 DEF ListedFor
    <3>4. CASE pc[mu] = "deleting"
      <4>1. call[mu].op = "softDelete" /\ c \in MarkedSoFar(mu)
        BY <2>2, <3>1, <3>4 DEF CacheInv, DeleteProgress
      <4>2. committed[c] # NoRow /\ storage[c] = Deleted(committed[c])
        BY <3>1, <3>4, <4>1 DEF CacheInv, DeleteProgress
      <4>3. committed[c] \in ShortenedURL
        BY <4>2 DEF CacheInv, TypeOK
      <4>4. ~ListedFor(storage[c], uid)
        BY <4>2, <4>3, DeletedType DEF ListedFor
      <4>5. call[mu].shortCodes \in Seq(ShortCodes)
              /\ i[mu] \in 1 .. Len(call[mu].shortCodes)
        BY <3>1, <3>2, <3>4, <4>1, RequestShapes DEF CacheInv, DeleteProgress
      <4>6. c \in Store!BeingDeleted
        BY <3>1, <3>2, <4>1, <4>5
        DEF MarkedSoFar, Store!BeingDeleted, Store!InCall
      <4>. QED
        BY <4>4, <4>6
    <3>. QED
      BY <3>1, <3>3, <3>4
  <2>. QED
    BY <2>1, <2>2
<1>4. Store!Return(p, Store!Listed(codes)) /\ committed' = committed
  BY DEF GetURLs, Return, Store!Return, Listed, Store!Listed
<1>5. Store!InCall(p, "getURLs")
  BY <1>1 DEF Store!InCall
<1>. QED
  BY <1>2, <1>3, <1>4, <1>5 DEF Store!GetURLs

\* So every step of a cache, restored or not.
LEMMA StepRefines ==
  ASSUME CacheInv, [Next]_vars
  PROVE  [Store!StoreNext \/ \E p \in Clients : StoreAgain(p)]_<<committed, call, reply>>
<1>1. ASSUME NEW p \in Clients, Invoke(p) PROVE Store!Invoke(p)
  BY <1>1 DEF Invoke, Store!Invoke, CacheInv, LocalsReset
<1>2. ASSUME NEW p \in Clients, CtxDone(p) PROVE Store!Refuse(p)
  BY <1>2
  DEF CtxDone, Return, Store!Refuse, Store!Return, CtxError, Store!CtxError,
      CacheInv, LocalsReset
<1>3. CASE UNCHANGED vars
  BY <1>3 DEF vars
<1>4. ASSUME NEW p \in Clients, Step(p)
      PROVE  \/ Store!StoreNext \/ StoreAgain(p)
             \/ UNCHANGED <<committed, call, reply>>
  BY <1>4, CreateRefines, CreateBatchCheckRefines, CreateBatchSetRefines,
     SoftDeleteLockRefines, SoftDeleteSetRefines, GetRefines, GetURLsRefines
  DEF Step, Store!StoreNext
<1>. QED
  BY <1>1, <1>2, <1>3, <1>4 DEF Next, Store!StoreNext

(***************************************************************************)
(* CacheRepository implements the atomic store: whatever the interleaving, *)
(* a batch is stored whole or not at all and every answer is the answer    *)
(* the store gives at one instant of the call.                             *)
(***************************************************************************)
THEOREM Refinement == Spec => ImplementsURLStore
<1>1. Init => Store!StoreInit
  BY DEF Init, Store!StoreInit, Nothing, Store!Nothing
<1>2. IInv /\ [Next]_vars => [Store!StoreNext]_<<committed, call, reply>>
  BY StepRefines DEF IInv, StoreAgain
<1>. QED
  BY <1>1, <1>2, SpecIInv, PTL
  DEF Spec, ImplementsURLStore, Store!StoreSpec, Store!storeVars
=============================================================================
