--------------------- MODULE FileCacheRepositoryProofs ---------------------
(***************************************************************************)
(* Proofs about FileCacheRepository: for any number of clients, whatever   *)
(* crashes, restarts and disk faults come between their steps, the file    *)
(* never gives a code another link, it keeps what nil errors have promised *)
(* about each code that lost does not name, a restart that can read the    *)
(* file changes nothing of the codes that diverged does not name, and the  *)
(* callers of a running process see the store of FallibleStore.            *)
(*                                                                         *)
(* CacheInv, the invariant of the cache, comes from CacheRepositoryProofs: *)
(* it is the part that a restart with an empty originalMap leaves true.    *)
(* Beside it the invariant follows a row from the call that brings it, to  *)
(* the cache, to todo and to the file, and says what the snapshot that a   *)
(* delete has taken is still good for when the file is truncated.          *)
(***************************************************************************)
EXTENDS FileCacheRepository, CacheRepositoryProofs, FiniteSetTheorems,
        SequenceTheorems

Has(table, c) == table[c] # NoRow
HasDeleted(table, c) == table[c] # NoRow /\ table[c].isDeleted

\* The table that a new process would restore, when the rewrite that holds
\* fs.mu is through, and the one of a snapshot on its way to the file.
Future == Restored(LinesToCome)
Snapshotted == Restored(todo[Deleter])

\* Where a call is in the cache, in the file, and in its rows to write.
Calls ==
  \A p \in Clients :
    /\ stage[p] = "cache" <=> pc[p] # "idle"
    /\ stage[p] = "idle" <=> request[p] = NoCall
    /\ stage[p] = "cache" => request[p] = call[p]
    /\ stage[p] \in {"idle", "cache", "snapshot"} => todo[p] = <<>>
    /\ stage[p] = "write" => request[p].op \in {"create", "createBatch"}
    /\ stage[p] \in {"snapshot", "truncate", "rewrite"} =>
         request[p].op = "softDelete"
    /\ stage[p] # "idle" /\ request[p].op = "softDelete" => p = Deleter

RowsOf(r) == IF r.op = "create" THEN <<r.row>> ELSE r.rows

\* fs.mu is held by a call that is in the middle of its lines.
FileLock ==
  /\ fsMu # Nobody => stage[fsMu] \in {"write", "rewrite"}
  /\ \A p \in Clients :
       /\ stage[p] = "rewrite" => fsMu = p
       /\ stage[p] = "write" /\ fsMu # p => todo[p] = RowsOf(request[p])

\* No process: no calls, and an empty cache.
Down ==
  ~up =>
    /\ \A p \in Clients : stage[p] = "idle"
    /\ fsMu = Nobody /\ mu = Nobody
    /\ \A u \in OriginalURLs : originalMap[u] = NoCode

FileTypes ==
  /\ file \in Seq(ShortenedURL)
  /\ torn \in BOOLEAN /\ broken \in BOOLEAN /\ up \in BOOLEAN
  /\ diverged \subseteq ShortCodes /\ lost \subseteq ShortCodes
  /\ fsMu \in Clients \cup {Nobody}
  /\ stage \in [Clients -> {"idle", "cache", "write", "snapshot", "truncate",
                           "rewrite"}]
  /\ request \in [Clients -> Requests \cup {NoCall}]
  /\ todo \in [Clients -> Seq(ShortenedURL)]
  /\ answer \in [Clients -> Answer \cup {DiskError}]
  /\ promised \in [ShortCodes -> {"nothing", "stored", "deleted"}]

\* The link of a row is the one that the table gives its code.
LinkIn(table, row) ==
  table[row.shortCode] # NoRow /\ SameLink(table[row.shortCode], row)

Links ==
  /\ \A m, n \in DOMAIN file :
       file[m].shortCode = file[n].shortCode => SameLink(file[m], file[n])
  /\ up => \A n \in DOMAIN file : LinkIn(storage, file[n])
  /\ up => \A p \in Clients : \A n \in DOMAIN todo[p] : LinkIn(storage, todo[p][n])

\* What a call has done in the cache before it turns to the file.
CacheDone ==
  \A p \in Clients :
    /\ stage[p] = "write" => \A c \in CodesIn(request[p]) : Has(storage, c)
    /\ stage[p] \in {"snapshot", "truncate", "rewrite"} =>
         \A c \in CodesIn(request[p]) : HasDeleted(storage, c)

\* A snapshot has one row of each code, as the cache has it still, and all the
\* deletes, which no later call can add to.
SnapshotIsWhole ==
  /\ stage[Deleter] = "truncate" =>
       /\ \A m, n \in DOMAIN todo[Deleter] :
            todo[Deleter][m].shortCode = todo[Deleter][n].shortCode => m = n
       /\ \A n \in DOMAIN todo[Deleter] :
            storage[todo[Deleter][n].shortCode] = todo[Deleter][n]
       /\ \A c \in ShortCodes :
            HasDeleted(storage, c) => HasDeleted(Snapshotted, c)
  /\ stage[Deleter] = "rewrite" =>
       \A c \in ShortCodes : HasDeleted(storage, c) => HasDeleted(Future, c)

\* The codes whose rows have reached the file, promised or about to be.
Written(c) ==
  \/ promised[c] # "nothing"
  \/ \E q \in Clients : /\ stage[q] = "write"
                        /\ c \in CodesIn(request[q]) \ CodesOf(todo[q])

Durable ==
  \A c \in ShortCodes :
    /\ up /\ promised[c] # "nothing" => Has(storage, c)
    /\ up /\ promised[c] = "deleted" => HasDeleted(storage, c)
    /\ c \notin lost =>
         /\ stage[Deleter] = "truncate" /\ Written(c) => Has(Snapshotted, c)
         /\ Written(c) => Has(Future, c)
         /\ promised[c] = "deleted" => HasDeleted(Future, c)

\* A row that a create has put, or is putting, in the cache but not the file.
Creating(c) ==
  \E q \in Clients :
    \/ stage[q] = "write" /\ c \in CodesOf(todo[q])
    \/ pc[q] = "setting" /\ c \in CodesOf(call[q].rows)

\* A mark that the delete has set in the cache but not in the file.
Deleting(c) ==
  \/ pc[Deleter] = "deleting" /\ c \in MarkedSoFar(Deleter)
  \/ /\ stage[Deleter] \in {"snapshot", "truncate"}
     /\ c \in CodesIn(request[Deleter])

InStep ==
  up => \A c \in ShortCodes \ diverged :
    /\ Future[c] = storage[c] \/ Creating(c) \/ Deleting(c)
    /\ stage[Deleter] = "truncate" =>
         Snapshotted[c] = storage[c] \/ Creating(c)

FileInv ==
  /\ CacheInv /\ FileTypes /\ Calls /\ FileLock /\ Down
  /\ Links /\ CacheDone /\ SnapshotIsWhole /\ Durable /\ InStep

-----------------------------------------------------------------------------
(***************************************************************************)
(* What Restored makes of lines.                                           *)
(***************************************************************************)
\* The last of some lines exists.
LEMMA LastOfLines ==
  ASSUME NEW n \in Nat, NEW S \in SUBSET (1 .. n), S # {}
  PROVE  Max(S) \in S /\ \A m \in S : m <= Max(S)
<1>. DEFINE T == {n - m : m \in S}
<1>1. \A m \in S : m \in Nat /\ n - m \in Nat
  OBVIOUS
<1>2. T \subseteq Nat /\ T # {}
  BY <1>1
<1>3. \E x \in T : \A y \in T : ~(<<y, x>> \in OpToRel(<, Nat))
  <2>. HIDE DEF T
  <2>. QED
    BY <1>2, WFMin, NatLessThanWellFounded
<1>4. PICK x \in T : \A y \in T : x <= y
  <2>. HIDE DEF T
  <2>1. PICK x \in T : \A y \in T : ~(<<y, x>> \in OpToRel(<, Nat))
    BY <1>3
  <2>2. \A y \in T : x \in Nat /\ y \in Nat /\ ~(y < x)
    BY <1>2, <2>1 DEF OpToRel
  <2>. QED
    BY <2>2
<1>5. \E m \in S : \A k \in S : m >= k
  <2>1. PICK m \in S : x = n - m
    BY <1>4
  <2>2. \A k \in S : n - m <= n - k
    BY <1>4, <2>1
  <2>. QED
    BY <1>1, <2>2
<1>. QED
  BY <1>1, <1>5 DEF Max

\* No lines, no rows.
LEMMA RestoredEmpty ==
  ASSUME NEW c \in ShortCodes
  PROVE  Restored(<<>>)[c] = NoRow
<1>1. DOMAIN <<>> = {}
  OBVIOUS
<1>. QED
  BY <1>1 DEF Restored, LinesOf

\* The restored row of a code is the last of its lines, if it has one.
LEMMA RestoredRow ==
  ASSUME NEW lines \in Seq(ShortenedURL), NEW c \in ShortCodes
  PROVE  /\ Restored(lines)[c] # NoRow =>
              \E n \in DOMAIN lines : /\ Restored(lines)[c] = lines[n]
                                      /\ lines[n].shortCode = c
                                      /\ \A m \in LinesOf(lines, c) : m <= n
         /\ Restored(lines)[c] = NoRow <=> c \notin CodesOf(lines)
         /\ Restored(lines)[c] = NoRow <=> LinesOf(lines, c) = {}
         /\ Restored(lines)[c] \in ShortenedURL \cup {NoRow}
<1>1. LinesOf(lines, c) \in SUBSET (1 .. Len(lines)) /\ Len(lines) \in Nat
  BY DEF LinesOf
<1>2. \A n \in DOMAIN lines : lines[n] \in ShortenedURL /\ lines[n] # NoRow
  BY NoRowAssumption
<1>3. c \notin CodesOf(lines) <=> LinesOf(lines, c) = {}
  BY DEF CodesOf, LinesOf
<1>4. CASE LinesOf(lines, c) = {}
  <2>1. Restored(lines)[c] = NoRow
    BY <1>4 DEF Restored
  <2>. QED
    BY <1>3, <1>4, <2>1
<1>5. CASE LinesOf(lines, c) # {}
  <2>. DEFINE n == Max(LinesOf(lines, c))
  <2>1. n \in LinesOf(lines, c) /\ \A m \in LinesOf(lines, c) : m <= n
    BY <1>1, <1>5, LastOfLines
  <2>2. Restored(lines)[c] = lines[n]
    BY <1>5 DEF Restored
  <2>3. n \in DOMAIN lines /\ lines[n].shortCode = c
    BY <2>1 DEF LinesOf
  <2>. HIDE DEF n
  <2>. QED
    BY <1>2, <1>3, <1>5, <2>1, <2>2, <2>3
<1>. QED
  BY <1>4, <1>5

\* A line at the end decides about its own code.
LEMMA RestoredAppend ==
  ASSUME NEW lines \in Seq(ShortenedURL), NEW row \in ShortenedURL,
         NEW c \in ShortCodes
  PROVE  Restored(Append(lines, row))[c] =
           IF c = row.shortCode THEN row ELSE Restored(lines)[c]
<1>. DEFINE new == Append(lines, row)
            n == Len(lines) + 1
<1>1. /\ new \in Seq(ShortenedURL) /\ DOMAIN new = 1 .. n
      /\ new[n] = row /\ n \in Nat /\ DOMAIN lines = 1 .. Len(lines)
      /\ Len(lines) \in Nat
      /\ \A k \in 1 .. Len(lines) : new[k] = lines[k]
  BY AppendProperties
<1>. HIDE DEF new
<1>2. CASE c = row.shortCode
  <2>1. n \in LinesOf(new, c)
    BY <1>1, <1>2 DEF LinesOf
  <2>2. PICK k \in DOMAIN new : /\ Restored(new)[c] = new[k]
                                /\ \A m \in LinesOf(new, c) : m <= k
    BY <1>1, <2>1, RestoredRow
  <2>3. k = n
    BY <1>1, <2>1, <2>2
  <2>. QED
    BY <1>1, <1>2, <2>2, <2>3 DEF new
<1>3. CASE c # row.shortCode
  <2>1. LinesOf(new, c) = LinesOf(lines, c)
    BY <1>1, <1>3 DEF LinesOf
  <2>2. CASE LinesOf(lines, c) = {}
    BY <1>3, <2>1, <2>2 DEF Restored, new
  <2>3. CASE LinesOf(lines, c) # {}
    <3>. DEFINE k == Max(LinesOf(lines, c))
    <3>1. LinesOf(lines, c) \in SUBSET (1 .. Len(lines))
      BY <1>1 DEF LinesOf
    <3>2. k \in LinesOf(lines, c)
      BY <1>1, <2>3, <3>1, LastOfLines
    <3>3. new[k] = lines[k]
      BY <1>1, <3>1, <3>2
    <3>4. Restored(new)[c] = new[k] /\ Restored(lines)[c] = lines[k]
      BY <2>1, <2>3 DEF Restored
    <3>. QED
      BY <1>3, <3>3, <3>4 DEF new
  <2>. QED
    BY <2>2, <2>3
<1>. QED
  BY <1>2, <1>3

\* With one line for each code, the restored table has all lines.
LEMMA RestoredDistinct ==
  ASSUME NEW lines \in Seq(ShortenedURL), NEW n \in DOMAIN lines,
         \A m, k \in DOMAIN lines :
           lines[m].shortCode = lines[k].shortCode => m = k
  PROVE  Restored(lines)[lines[n].shortCode] = lines[n]
<1>1. lines[n] \in ShortenedURL
  OBVIOUS
<1>1a. lines[n].shortCode \in ShortCodes
  BY <1>1 DEF ShortenedURL
<1>2. n \in LinesOf(lines, lines[n].shortCode)
  BY DEF LinesOf
<1>. QED
  BY <1>1, <1>1a, <1>2, RestoredRow

\* Writing the next of the lines to come changes nothing of what is to come.
LEMMA NextLine ==
  ASSUME NEW lines \in Seq(ShortenedURL), NEW rows \in Seq(ShortenedURL),
         rows # <<>>
  PROVE  Append(lines, Head(rows)) \o Tail(rows) = lines \o rows
<1>. DEFINE l == Append(lines, Head(rows)) \o Tail(rows)
            r == lines \o rows
<1>1. /\ Head(rows) \in ShortenedURL /\ Tail(rows) \in Seq(ShortenedURL)
      /\ Len(Tail(rows)) = Len(rows) - 1 /\ Len(rows) \in Nat \ {0}
      /\ Head(rows) = rows[1]
      /\ \A k \in 1 .. Len(Tail(rows)) : Tail(rows)[k] = rows[k + 1]
  BY HeadTailProperties
<1>2. /\ Append(lines, Head(rows)) \in Seq(ShortenedURL)
      /\ Len(Append(lines, Head(rows))) = Len(lines) + 1
      /\ \A k \in 1 .. Len(lines) : Append(lines, Head(rows))[k] = lines[k]
      /\ Append(lines, Head(rows))[Len(lines) + 1] = Head(rows)
      /\ Len(lines) \in Nat
  BY <1>1, AppendProperties
<1>3. /\ l \in Seq(ShortenedURL) /\ Len(l) = Len(lines) + Len(rows)
      /\ \A k \in 1 .. Len(lines) + Len(rows) :
           l[k] = IF k <= Len(lines) + 1 THEN Append(lines, Head(rows))[k]
                  ELSE Tail(rows)[k - (Len(lines) + 1)]
  BY <1>1, <1>2, ConcatProperties
<1>4. /\ r \in Seq(ShortenedURL) /\ Len(r) = Len(lines) + Len(rows)
      /\ \A k \in 1 .. Len(lines) + Len(rows) :
           r[k] = IF k <= Len(lines) THEN lines[k] ELSE rows[k - Len(lines)]
  BY ConcatProperties
<1>. HIDE DEF l, r
<1>5. ASSUME NEW k \in 1 .. Len(l) PROVE l[k] = r[k]
  <2>1. CASE k <= Len(lines)
    BY <1>2, <1>3, <1>4, <2>1
  <2>2. CASE k = Len(lines) + 1
    BY <1>1, <1>2, <1>3, <1>4, <2>2
  <2>3. CASE k > Len(lines) + 1
    <3>1. k - (Len(lines) + 1) \in 1 .. Len(Tail(rows))
      BY <1>1, <1>2, <1>3, <2>3
    <3>2. Tail(rows)[k - (Len(lines) + 1)] = rows[k - Len(lines)]
      BY <1>1, <1>2, <3>1
    <3>. QED
      BY <1>2, <1>3, <1>4, <2>3, <3>2
  <2>. QED
    BY <1>2, <1>3, <2>1, <2>2, <2>3
<1>. QED
  BY <1>3, <1>4, <1>5, SeqEqual DEF l, r

\* Lines that are not about a code leave its row as it was.
LEMMA RestoredConcat ==
  ASSUME NEW lines \in Seq(ShortenedURL), NEW rows \in Seq(ShortenedURL),
         NEW c \in ShortCodes, c \notin CodesOf(rows)
  PROVE  Restored(lines \o rows)[c] = Restored(lines)[c]
<1>. DEFINE all == lines \o rows
<1>1. /\ all \in Seq(ShortenedURL) /\ Len(all) = Len(lines) + Len(rows)
      /\ \A k \in 1 .. Len(lines) + Len(rows) :
           all[k] = IF k <= Len(lines) THEN lines[k] ELSE rows[k - Len(lines)]
      /\ Len(lines) \in Nat /\ Len(rows) \in Nat
      /\ DOMAIN lines = 1 .. Len(lines) /\ DOMAIN rows = 1 .. Len(rows)
      /\ DOMAIN all = 1 .. Len(all)
  BY ConcatProperties
<1>. HIDE DEF all
<1>2. ASSUME NEW k \in DOMAIN all, all[k].shortCode = c
      PROVE  k \in DOMAIN lines /\ lines[k].shortCode = c
  <2>1. CASE k <= Len(lines)
    BY <1>1, <1>2, <2>1
  <2>2. CASE k > Len(lines)
    <3>1. k - Len(lines) \in DOMAIN rows /\ all[k] = rows[k - Len(lines)]
      BY <1>1, <2>2
    <3>. QED
      BY <1>2, <3>1 DEF CodesOf
  <2>. QED
    BY <1>1, <2>1, <2>2
<1>3. \A k \in DOMAIN lines : k \in DOMAIN all /\ all[k] = lines[k]
  BY <1>1
<1>4. LinesOf(all, c) = LinesOf(lines, c)
  BY <1>2, <1>3 DEF LinesOf
<1>5. CASE LinesOf(lines, c) = {}
  BY <1>4, <1>5 DEF Restored, all
<1>6. CASE LinesOf(lines, c) # {}
  <2>1. LinesOf(lines, c) \in SUBSET (1 .. Len(lines))
    BY <1>1 DEF LinesOf
  <2>2. Max(LinesOf(lines, c)) \in LinesOf(lines, c)
    BY <1>1, <1>6, <2>1, LastOfLines
  <2>3. all[Max(LinesOf(lines, c))] = lines[Max(LinesOf(lines, c))]
    BY <1>1, <1>3, <2>1, <2>2
  <2>. QED
    BY <1>4, <1>6, <2>3 DEF Restored, all
<1>. QED
  BY <1>5, <1>6

\* A snapshot has the row of each stored code, once.
LEMMA SnapshotRows ==
  ASSUME CacheInv, NEW rows \in SetToSeqs(Stored)
  PROVE  /\ rows \in Seq(ShortenedURL)
         /\ \A m, n \in DOMAIN rows :
              rows[m].shortCode = rows[n].shortCode => m = n
         /\ \A n \in DOMAIN rows : storage[rows[n].shortCode] = rows[n]
         /\ \A c \in ShortCodes : Restored(rows)[c] = storage[c]
<1>. DEFINE D == 1 .. Cardinality(Stored)
            codes == {c \in ShortCodes : storage[c] # NoRow}
            f == [c \in codes |-> storage[c]]
<1>1. \A row \in Stored : /\ row \in ShortenedURL
                           /\ row.shortCode \in ShortCodes
                           /\ storage[row.shortCode] = row
  BY DEF Stored, CacheInv, TypeOK, IndexPoints, ShortenedURL
<1>2. IsFiniteSet(codes)
  BY ShortCodesAssumption, FS_Subset
<1>3. f \in Surjection(codes, Stored)
  BY DEF Surjection, Stored
<1>4. IsFiniteSet(Stored)
  <2>. HIDE DEF f, codes
  <2>. QED
    BY <1>2, <1>3, FS_Surjection
<1>5. Cardinality(Stored) \in Nat
  BY <1>4, FS_CardinalityType
<1>6. IsFiniteSet(D) /\ Cardinality(D) = Cardinality(Stored)
  BY <1>5, FS_Interval
<1>7. rows \in [D -> Stored] /\ \A m, n \in D : m # n => rows[m] # rows[n]
  BY DEF SetToSeqs
<1>8. rows \in Injection(D, Stored)
  BY <1>7 DEF Injection, IsInjective
<1>9. rows \in Surjection(D, Stored)
  <2>. HIDE DEF D
  <2>. QED
    BY <1>4, <1>6, <1>8, FS_Injection
<1>10. rows \in Seq(ShortenedURL) /\ DOMAIN rows = D
  <2>1. \A n \in D : rows[n] \in ShortenedURL
    BY <1>1, <1>7
  <2>. QED
    BY <1>5, <1>7, <2>1
<1>11. \A n \in D : rows[n] \in Stored
  BY <1>7
<1>12. \A n \in D : storage[rows[n].shortCode] = rows[n]
  BY <1>1, <1>11
<1>13. \A m, n \in D : rows[m].shortCode = rows[n].shortCode => m = n
  BY <1>7, <1>12
<1>14. ASSUME NEW c \in ShortCodes PROVE Restored(rows)[c] = storage[c]
  <2>1. CASE storage[c] = NoRow
    <3>1. c \notin CodesOf(rows)
      BY <1>1, <1>10, <1>11, <1>12, <2>1, NoRowAssumption DEF CodesOf
    <3>. QED
      BY <1>10, <2>1, <3>1, RestoredRow
  <2>2. CASE storage[c] # NoRow
    <3>1. storage[c] \in Stored /\ storage[c].shortCode = c
      BY <2>2 DEF Stored, CacheInv, IndexPoints
    <3>2. PICK n \in D : rows[n] = storage[c]
      BY <1>9, <3>1 DEF Surjection
    <3>3. Restored(rows)[rows[n].shortCode] = rows[n]
      BY <1>10, <1>13, RestoredDistinct
    <3>. QED
      BY <3>1, <3>2, <3>3
  <2>. QED
    BY <2>1, <2>2
<1>. QED
  BY <1>10, <1>12, <1>13, <1>14

-----------------------------------------------------------------------------
(***************************************************************************)
(* What one step of a call does in the cache.                              *)
(***************************************************************************)
CacheCall(p) == Step(p) \/ CtxDone(p)

\* A step of a call is a step of CacheRepository.
LEMMA CallKeepsCacheInv ==
  ASSUME CacheInv, NEW p \in Clients, CacheCall(p)
  PROVE  [Next]_vars /\ CacheInv'
BY NextCacheInv DEF CacheCall, Next

\* It is a step of p alone, and the arguments stay until the call returns.
LEMMA CallIsLocal ==
  ASSUME CacheInv, NEW p \in Clients, CacheCall(p)
  PROVE  /\ \A q \in Clients \ {p} :
              pc'[q] = pc[q] /\ call'[q] = call[q] /\ i'[q] = i[q]
         /\ pc[p] # "idle"
         /\ pc'[p] # "idle" => call'[p] = call[p]
<1>. USE DEF CacheInv, TypeOK
<1>1. CASE CtxDone(p)
  BY <1>1 DEF CtxDone, Return
<1>2. CASE Create(p)
  BY <1>2 DEF Create, Called, UnlockAndReturn, Return
<1>3. CASE CreateBatchCheck(p)
  BY <1>3 DEF CreateBatchCheck, Called, UnlockAndReturn, Return, EnterLoop
<1>4. CASE CreateBatchSet(p)
  BY <1>4 DEF CreateBatchSet, UnlockAndReturn, Return
<1>5. CASE SoftDeleteLock(p)
  BY <1>5 DEF SoftDeleteLock, Called, UnlockAndReturn, Return, EnterLoop
<1>6. CASE SoftDeleteSet(p)
  BY <1>6 DEF SoftDeleteSet, UnlockAndReturn, Return
<1>7. CASE Get(p) \/ GetURLs(p)
  BY <1>7 DEF Get, GetURLs, Called, Return
<1>. QED
  BY <1>1, <1>2, <1>3, <1>4, <1>5, <1>6, <1>7 DEF CacheCall, Step

\* Where a call in a loop can go, and with which answer.
LEMMA LoopMoves ==
  ASSUME CacheInv, NEW p \in Clients, CacheCall(p)
  PROVE  /\ pc[p] = "setting" =>
              /\ call[p].op = "createBatch"
              /\ pc'[p] = "setting" \/ (pc'[p] = "idle" /\ reply'[p] = Nothing)
         /\ pc[p] = "deleting" =>
              /\ call[p].op = "softDelete"
              /\ \/ pc'[p] = "deleting" /\ MarkedSoFar(p) \subseteq MarkedSoFar(p)'
                 \/ pc'[p] = "idle" /\ reply'[p] \in {Nothing, ErrNotExists}
<1>. USE DEF CacheInv, TypeOK
<1>1. CASE pc[p] = "setting"
  <2>1. CreateBatchSet(p)
    BY <1>1 DEF CacheCall, Step, CtxDone, Create, CreateBatchCheck,
                SoftDeleteLock, SoftDeleteSet, Get, GetURLs, Called
  <2>2. call[p].op = "createBatch"
    BY <1>1 DEF BatchProgress
  <2>. QED
    BY <1>1, <2>1, <2>2 DEF CreateBatchSet, UnlockAndReturn, Return
<1>2. CASE pc[p] = "deleting"
  <2>1. SoftDeleteSet(p)
    BY <1>2 DEF CacheCall, Step, CtxDone, Create, CreateBatchCheck,
                SoftDeleteLock, CreateBatchSet, Get, GetURLs, Called
  <2>2. call[p].op = "softDelete"
    BY <1>2 DEF DeleteProgress
  <2>3. CASE UnlockAndReturn(p, ErrNotExists) \/ UnlockAndReturn(p, Nothing)
    BY <1>2, <2>2, <2>3 DEF UnlockAndReturn, Return
  <2>4. CASE i' = [i EXCEPT ![p] = @ + 1] /\ UNCHANGED <<mu, pc, call>>
    <3>1. i[p] \in Nat /\ i'[p] = i[p] + 1 /\ call'[p] = call[p]
      BY <2>4
    <3>2. 1 .. i[p] - 1 \subseteq 1 .. i'[p] - 1
      BY <3>1
    <3>3. MarkedSoFar(p) \subseteq MarkedSoFar(p)'
      BY <3>1, <3>2 DEF MarkedSoFar
    <3>. QED
      BY <1>2, <2>2, <2>4, <3>3
  <2>. QED
    BY <2>1, <2>3, <2>4 DEF SoftDeleteSet
<1>. QED
  BY <1>1, <1>2

\* A row that a step brings into the cache is one of the call's own, not
\* deleted, and the call will write it, or return with an error never.
LEMMA NewRows ==
  ASSUME CacheInv, NEW p \in Clients, CacheCall(p), NEW c \in ShortCodes,
         storage[c] = NoRow, storage'[c] # NoRow
  PROVE  /\ ~storage'[c].isDeleted
         /\ \/ /\ call[p].op = "createBatch"
               /\ c \in CodesOf(call[p].rows)
               /\ pc'[p] = "setting" \/ (pc'[p] = "idle" /\ reply'[p] = Nothing)
            \/ /\ call[p].op = "create"
               /\ c = call[p].row.shortCode
               /\ pc'[p] = "idle" /\ reply'[p] = Nothing
<1>. USE DEF CacheInv, TypeOK
<1>1. storage' # storage
  OBVIOUS
<1>2. CASE Create(p)
  <2>1. call[p] \in Requests /\ call[p].op = "create"
    BY <1>2 DEF Create, Called, LocalsReset
  <2>2. call[p].row \in NewURL
    BY <2>1, RequestShapes
  <2>3. call[p].row.shortCode \in ShortCodes /\ ~call[p].row.isDeleted
    BY <2>2 DEF NewURL, ShortenedURL
  <2>4. /\ storage' = [storage EXCEPT ![call[p].row.shortCode] = call[p].row]
        /\ UnlockAndReturn(p, Nothing)
    BY <1>1, <1>2 DEF Create, Set
  <2>5. c = call[p].row.shortCode /\ storage'[c] = call[p].row
    BY <2>3, <2>4
  <2>6. pc'[p] = "idle" /\ reply'[p] = Nothing
    BY <2>4 DEF UnlockAndReturn, Return
  <2>. QED
    BY <2>1, <2>3, <2>5, <2>6
<1>3. CASE CreateBatchSet(p)
  <2>. DEFINE row == call[p].rows[i[p]]
  <2>1. pc[p] = "setting" /\ storage' = [storage EXCEPT ![row.shortCode] = row]
    BY <1>3 DEF Set, CreateBatchSet
  <2>2. call[p] \in Requests /\ call[p].op = "createBatch"
    BY <2>1 DEF LocalsReset, BatchProgress
  <2>3. call[p].rows \in Seq(NewURL) /\ i[p] \in 1 .. Len(call[p].rows)
    BY <2>1, <2>2, RequestShapes DEF BatchProgress
  <2>4. row \in NewURL /\ i[p] \in DOMAIN call[p].rows
    BY <2>3
  <2>5. row.shortCode \in CodesOf(call[p].rows) /\ ~row.isDeleted
    BY <2>4 DEF CodesOf, NewURL
  <2>6. c = row.shortCode /\ storage'[c] = row
    <3>. HIDE DEF row
    <3>. QED
      BY <2>1
  <2>. HIDE DEF row
  <2>. QED
    BY <2>1, <2>2, <2>5, <2>6, LoopMoves
<1>4. CASE SoftDeleteSet(p)
  BY <1>1, <1>4 DEF SoftDeleteSet
<1>5. CASE CtxDone(p) \/ CreateBatchCheck(p) \/ SoftDeleteLock(p) \/ Get(p)
             \/ GetURLs(p)
  BY <1>1, <1>5 DEF CtxDone, CreateBatchCheck, SoftDeleteLock, Get, GetURLs,
                    EnterLoop
<1>. QED
  BY <1>2, <1>3, <1>4, <1>5 DEF CacheCall, Step

\* A row that a step changes is marked by a delete that goes on, or that
\* returns without an error.
LEMMA MarkedRows ==
  ASSUME CacheInv, NEW p \in Clients, CacheCall(p), NEW c \in ShortCodes,
         storage[c] # NoRow, storage'[c] # storage[c]
  PROVE  /\ storage'[c] = Deleted(storage[c])
         /\ call[p].op = "softDelete" /\ pc[p] = "deleting"
         /\ \/ pc'[p] = "deleting" /\ c \in MarkedSoFar(p)'
            \/ pc'[p] = "idle" /\ reply'[p] = Nothing
<1>. USE DEF CacheInv, TypeOK
<1>1. storage'[c] = Deleted(storage[c])
  BY CallKeepsCacheInv, RowStep
<1>2. storage' # storage
  OBVIOUS
<1>3. CASE SoftDeleteSet(p)
  <2>. DEFINE k == i[p]
              d == call[p].shortCodes[k]
  <2>1. pc[p] = "deleting" /\ storage' = [storage EXCEPT ![d] = Deleted(@)]
    BY <1>2, <1>3 DEF SoftDeleteSet
  <2>2. c = d
    <3>. HIDE DEF d
    <3>. QED
      BY <2>1
  <2>3. call[p].op = "softDelete"
    BY <2>1 DEF DeleteProgress
  <2>4. CASE UnlockAndReturn(p, Nothing)
    BY <1>1, <2>1, <2>3, <2>4 DEF UnlockAndReturn, Return
  <2>5. CASE i' = [i EXCEPT ![p] = @ + 1] /\ UNCHANGED <<mu, pc, call>>
    <3>1. i[p] \in 1 .. Len(call[p].shortCodes) /\ i[p] \in Nat
      BY <2>1 DEF DeleteProgress
    <3>2. k \in 1 .. i'[p] - 1
      BY <2>5, <3>1
    <3>3. c \in MarkedSoFar(p)'
      BY <2>2, <2>5, <3>2 DEF MarkedSoFar
    <3>. QED
      BY <1>1, <2>1, <2>3, <2>5, <3>3
  <2>. QED
    BY <1>2, <1>3, <2>4, <2>5 DEF SoftDeleteSet
<1>4. CASE CreateBatchSet(p) \/ Create(p)
  <2>1. storage'[c] = storage[c]
    <3>1. CASE Create(p)
      <4>1. /\ storage[call[p].row.shortCode] = NoRow
            /\ storage' = [storage EXCEPT ![call[p].row.shortCode] = call[p].row]
        BY <1>2, <3>1 DEF Set, Create
      <4>. QED
        BY <4>1
    <3>2. CASE CreateBatchSet(p)
      <4>. DEFINE row == call[p].rows[i[p]]
      <4>1. pc[p] = "setting" /\ storage' = [storage EXCEPT ![row.shortCode] = row]
        BY <3>2 DEF Set, CreateBatchSet
      <4>2. call[p] \in Requests /\ call[p].op = "createBatch"
        BY <4>1 DEF LocalsReset, BatchProgress
      <4>3. call[p].rows \in Seq(NewURL) /\ i[p] \in 1 .. Len(call[p].rows)
        BY <4>1, <4>2, RequestShapes DEF BatchProgress
      <4>4. i[p] \in DOMAIN call[p].rows /\ ~(i[p] < i[p])
        BY <4>3
      <4>5. storage[row.shortCode] = NoRow
        BY <4>1, <4>4 DEF BatchProgress
      <4>. QED
        BY <4>1, <4>5
    <3>. QED
      BY <1>4, <3>1, <3>2
  <2>. QED
    BY <2>1
<1>5. CASE CtxDone(p) \/ CreateBatchCheck(p) \/ SoftDeleteLock(p) \/ Get(p)
             \/ GetURLs(p)
  BY <1>2, <1>5 DEF CtxDone, CreateBatchCheck, SoftDeleteLock, Get, GetURLs,
                    EnterLoop
<1>. QED
  BY <1>3, <1>4, <1>5 DEF CacheCall, Step

\* A delete marks the rows of the codes that it was asked to delete.
LEMMA MarkedIsAsked ==
  ASSUME CacheInv, NEW p \in Clients, CacheCall(p), NEW c \in ShortCodes,
         storage[c] # NoRow, storage'[c] # storage[c]
  PROVE  HasDeleted(storage', c) /\ c \in CodesIn(call[p])
<1>. USE DEF CacheInv, TypeOK
<1>1. storage'[c] = Deleted(storage[c]) /\ call[p].op = "softDelete" /\ pc[p] = "deleting"
  BY MarkedRows
<1>2. SoftDeleteSet(p)
  BY <1>1 DEF CacheCall, Step, CtxDone, Create, CreateBatchCheck,
              SoftDeleteLock, CreateBatchSet, BatchProgress, Get, GetURLs, Called
<1>. DEFINE d == call[p].shortCodes[i[p]]
<1>3. storage' = storage \/ storage' = [storage EXCEPT ![d] = Deleted(@)]
  BY <1>2 DEF SoftDeleteSet
<1>4. c = d
  <2>. HIDE DEF d
  <2>. QED
    BY <1>3
<1>5. call[p] \in Requests /\ call[p].shortCodes \in Seq(ShortCodes)
  BY <1>1, RequestShapes DEF LocalsReset
<1>6. i[p] \in DOMAIN call[p].shortCodes
  BY <1>1, <1>5 DEF DeleteProgress
<1>7. c \in Range(call[p].shortCodes)
  BY <1>4, <1>6 DEF Range
<1>8. storage[c] \in ShortenedURL
  OBVIOUS
<1>. QED
  BY <1>1, <1>7, <1>8, DeletedType, NoRowAssumption DEF CodesIn, HasDeleted

\* A call that returns nil has done in the cache all that it was asked for.
LEMMA NilMeansDone ==
  ASSUME CacheInv, NEW p \in Clients, CacheCall(p),
         pc'[p] = "idle", reply'[p].err = "nil"
  PROVE  /\ call[p].op = "create" =>
              storage'[call[p].row.shortCode] = call[p].row
         /\ call[p].op = "createBatch" =>
              \A k \in DOMAIN call[p].rows :
                storage'[call[p].rows[k].shortCode] = call[p].rows[k]
         /\ call[p].op = "softDelete" =>
              \A c \in Range(call[p].shortCodes) : HasDeleted(storage', c)
<1>. USE DEF CacheInv, TypeOK
<1>1. CASE call[p].op = "create"
  <2>1. call[p] \in Requests
    BY CallIsLocal DEF LocalsReset
  <2>2. call[p].row \in NewURL
    BY <1>1, <2>1, RequestShapes
  <2>3. call[p].row.shortCode \in ShortCodes
    BY <2>2 DEF NewURL, ShortenedURL
  <2>4. CASE CtxDone(p)
    BY <2>4 DEF CtxDone, Return, CtxError
  <2>5. CASE Create(p)
    <3>1. ASSUME NEW a, UnlockAndReturn(p, a)
          PROVE  a.err = "nil"
      BY <3>1 DEF UnlockAndReturn, Return
    <3>2. /\ \A x : OriginalURLConflictError(x).err # "nil"
          /\ ErrConflictShortCode.err # "nil"
      BY DEF OriginalURLConflictError, ErrConflictShortCode
    <3>3. storage' = [storage EXCEPT ![call[p].row.shortCode] = call[p].row]
      BY <2>5, <3>1, <3>2 DEF Create, Set
    <3>. QED
      BY <1>1, <2>3, <3>3
  <2>6. ~CreateBatchSet(p) /\ ~SoftDeleteSet(p)
    BY <1>1 DEF CreateBatchSet, SoftDeleteSet, BatchProgress, DeleteProgress
  <2>. QED
    BY <1>1, <2>4, <2>5, <2>6
    DEF CacheCall, Step, CreateBatchCheck, SoftDeleteLock, Get, GetURLs, Called
<1>2. CASE call[p].op = "createBatch"
  <2>. DEFINE batch == call[p].rows
  <2>1. call[p] \in Requests
    BY CallIsLocal DEF LocalsReset
  <2>2. batch \in Seq(NewURL)
    BY <1>2, <2>1, RequestShapes
  <2>3. CASE CtxDone(p)
    BY <2>3 DEF CtxDone, Return, CtxError
  <2>4. CASE CreateBatchCheck(p)
    <3>1. ASSUME NEW k, UnlockAndReturn(p, BatchConflictError(k))
          PROVE  FALSE
      BY <3>1 DEF UnlockAndReturn, Return, BatchConflictError
    <3>2. ~EnterLoop(p, "setting")
      BY DEF EnterLoop
    <3>3. batch = <<>>
      BY <2>4, <3>1, <3>2 DEF CreateBatchCheck
    <3>4. DOMAIN <<>> = {}
      OBVIOUS
    <3>. QED
      BY <1>2, <3>3, <3>4
  <2>5. CASE CreateBatchSet(p)
    <3>. DEFINE row == batch[i[p]]
    <3>1. /\ pc[p] = "setting" /\ i[p] = Len(batch)
          /\ storage' = [storage EXCEPT ![row.shortCode] = row]
      BY <2>5 DEF CreateBatchSet, Set
    <3>2. i[p] \in 1 .. Len(batch) /\ i[p] \in DOMAIN batch
      BY <2>2, <3>1 DEF BatchProgress
    <3>3. row \in NewURL
      BY <2>2, <3>2
    <3>4. row.shortCode \in ShortCodes
      BY <3>3 DEF NewURL, ShortenedURL
    <3>5. ASSUME NEW k \in DOMAIN batch
          PROVE  storage'[batch[k].shortCode] = batch[k]
      <4>1. CASE k = i[p]
        BY <3>1, <3>4, <4>1
      <4>2. CASE k # i[p]
        <5>1. k < i[p]
          BY <2>2, <3>1, <3>2, <4>2
        <5>2. batch[k].shortCode # row.shortCode
          BY <3>1, <3>2, <4>2 DEF BatchProgress
        <5>3. storage[batch[k].shortCode] = batch[k]
          BY <3>1, <5>1 DEF BatchProgress
        <5>4. batch[k] \in NewURL
          BY <2>2
        <5>5. batch[k].shortCode \in ShortCodes
          BY <5>4 DEF NewURL, ShortenedURL
        <5>. HIDE DEF row, batch
        <5>. QED
          BY <3>1, <5>2, <5>3, <5>5
      <4>. QED
        BY <4>1, <4>2
    <3>. QED
      BY <1>2, <3>5
  <2>6. ~SoftDeleteSet(p)
    BY <1>2 DEF SoftDeleteSet, DeleteProgress
  <2>. QED
    BY <1>2, <2>3, <2>4, <2>5, <2>6
    DEF CacheCall, Step, Create, SoftDeleteLock, Get, GetURLs, Called
<1>3. CASE call[p].op = "softDelete"
  <2>. DEFINE codes == call[p].shortCodes
  <2>1. call[p] \in Requests
    BY CallIsLocal DEF LocalsReset
  <2>2. codes \in Seq(ShortCodes)
    BY <1>3, <2>1, RequestShapes
  <2>3. CASE CtxDone(p)
    BY <2>3 DEF CtxDone, Return, CtxError
  <2>4. CASE SoftDeleteLock(p)
    <3>1. ~EnterLoop(p, "deleting")
      BY DEF EnterLoop
    <3>2. codes = <<>>
      BY <2>4, <3>1 DEF SoftDeleteLock
    <3>3. Range(<<>>) = {}
      BY DEF Range
    <3>. QED
      BY <1>3, <3>2, <3>3
  <2>5. CASE SoftDeleteSet(p)
    <3>. DEFINE d == codes[i[p]]
    <3>1. ~UnlockAndReturn(p, ErrNotExists)
      BY DEF UnlockAndReturn, Return, ErrNotExists
    <3>2. /\ pc[p] = "deleting" /\ i[p] = Len(codes) /\ storage[d] # NoRow
          /\ storage' = [storage EXCEPT ![d] = Deleted(@)]
      BY <2>5, <3>1 DEF SoftDeleteSet
    <3>3. i[p] \in 1 .. Len(codes) /\ i[p] \in DOMAIN codes /\ d \in ShortCodes
      BY <2>2, <3>2 DEF DeleteProgress
    <3>4. ASSUME NEW k \in DOMAIN codes
          PROVE  HasDeleted(storage', codes[k])
      <4>1. codes[k] \in ShortCodes
        BY <2>2
      <4>2. CASE codes[k] = d
        <5>1. storage'[d] = Deleted(storage[d]) /\ storage[d] \in ShortenedURL
          BY <3>2, <3>3
        <5>. QED
          BY <4>2, <5>1, DeletedType DEF HasDeleted
      <4>3. CASE codes[k] # d
        <5>1. k \in 1 .. i[p] - 1
          BY <2>2, <3>2, <3>3, <4>3
        <5>2. codes[k] \in MarkedSoFar(p)
          BY <5>1 DEF MarkedSoFar
        <5>3. /\ committed[codes[k]] # NoRow
              /\ storage[codes[k]] = Deleted(committed[codes[k]])
          BY <3>2, <5>2 DEF DeleteProgress
        <5>4. committed[codes[k]] \in ShortenedURL
          BY <4>1, <5>3
        <5>5. storage'[codes[k]] = storage[codes[k]]
          <6>. HIDE DEF d, codes
          <6>. QED
            BY <3>2, <4>1, <4>3
        <5>. QED
          BY <5>3, <5>4, <5>5, DeletedType DEF HasDeleted
      <4>. QED
        BY <4>2, <4>3
    <3>. QED
      BY <1>3, <3>4 DEF Range
  <2>6. ~CreateBatchSet(p)
    BY <1>3 DEF CreateBatchSet, BatchProgress
  <2>. QED
    BY <1>3, <2>3, <2>4, <2>5, <2>6
    DEF CacheCall, Step, Create, CreateBatchCheck, Get, GetURLs, Called
<1>. QED
  BY <1>1, <1>2, <1>3

-----------------------------------------------------------------------------
(***************************************************************************)
(* Small facts about calls, their codes and their rows.                    *)
(***************************************************************************)
\* The codes of a call that creates are those of the rows it will write.
LEMMA CodesOfCall ==
  ASSUME NEW r \in Requests
  PROVE  /\ r.op \in {"create", "createBatch"} =>
              /\ RowsOf(r) \in Seq(ShortenedURL)
              /\ CodesIn(r) = CodesOf(RowsOf(r))
         /\ r.op = "softDelete" => CodesIn(r) = Range(r.shortCodes)
         /\ r.op = "create" => RowsOf(r) = <<r.row>>
         /\ r.op = "createBatch" => RowsOf(r) = r.rows
<1>1. CASE r.op = "create"
  <2>1. r.row \in NewURL
    BY <1>1, RequestShapes
  <2>2. RowsOf(r) = <<r.row>> /\ r.row \in ShortenedURL
    BY <1>1, <2>1 DEF RowsOf, NewURL
  <2>3. CodesIn(r) = {r.row.shortCode}
    BY <1>1 DEF CodesIn
  <2>4. CodesOf(<<r.row>>) = {r.row.shortCode}
    <3>1. DOMAIN <<r.row>> = {1} /\ <<r.row>>[1] = r.row
      OBVIOUS
    <3>. QED
      BY <3>1 DEF CodesOf
  <2>. QED
    BY <1>1, <2>2, <2>3, <2>4
<1>2. CASE r.op = "createBatch"
  <2>1. r.rows \in Seq(NewURL)
    BY <1>2, RequestShapes
  <2>2. r.rows \in Seq(ShortenedURL)
    BY <2>1 DEF NewURL
  <2>3. RowsOf(r) = r.rows
    BY <1>2 DEF RowsOf
  <2>4. CodesIn(r) = CodesOf(r.rows)
    BY <1>2 DEF CodesIn
  <2>. QED
    BY <1>2, <2>2, <2>3, <2>4
<1>3. CASE r.op = "softDelete"
  BY <1>3 DEF CodesIn
<1>. QED
  BY <1>1, <1>2, <1>3

\* Rows and calls are about short codes.
LEMMA RowCodes ==
  ASSUME NEW rows \in Seq(ShortenedURL)
  PROVE  CodesOf(rows) \subseteq ShortCodes
<1>1. \A n \in DOMAIN rows : rows[n] \in ShortenedURL
  OBVIOUS
<1>. QED
  BY <1>1 DEF CodesOf, ShortenedURL

LEMMA CallCodes ==
  ASSUME NEW r \in Requests, r.op \in {"create", "createBatch", "softDelete"}
  PROVE  CodesIn(r) \subseteq ShortCodes
<1>1. CASE r.op = "softDelete"
  <2>1. r.shortCodes \in Seq(ShortCodes)
    BY <1>1, RequestShapes
  <2>. QED
    BY <1>1, <2>1, CodesOfCall DEF Range
<1>2. CASE r.op \in {"create", "createBatch"}
  BY <1>2, CodesOfCall, RowCodes
<1>. QED
  BY <1>1, <1>2

\* The codes of the first row and of the others.
LEMMA HeadCodes ==
  ASSUME NEW rows \in Seq(ShortenedURL), rows # <<>>
  PROVE  /\ CodesOf(rows) = {Head(rows).shortCode} \cup CodesOf(Tail(rows))
         /\ Head(rows) \in ShortenedURL /\ Tail(rows) \in Seq(ShortenedURL)
         /\ Head(rows) = rows[1] /\ 1 \in DOMAIN rows
         /\ Len(rows) <= 1 => CodesOf(rows) = {Head(rows).shortCode}
         /\ \A n \in DOMAIN Tail(rows) :
              n + 1 \in DOMAIN rows /\ Tail(rows)[n] = rows[n + 1]
<1>1. /\ Head(rows) \in ShortenedURL /\ Tail(rows) \in Seq(ShortenedURL)
      /\ Len(Tail(rows)) = Len(rows) - 1 /\ Len(rows) \in Nat \ {0}
      /\ Head(rows) = rows[1] /\ 1 \in DOMAIN rows
      /\ DOMAIN Tail(rows) = 1 .. Len(rows) - 1 /\ DOMAIN rows = 1 .. Len(rows)
      /\ \A k \in 1 .. Len(rows) - 1 : Tail(rows)[k] = rows[k + 1]
  BY HeadTailProperties
<1>2. \A n \in DOMAIN Tail(rows) :
        n + 1 \in DOMAIN rows /\ Tail(rows)[n] = rows[n + 1]
  BY <1>1
<1>3. \A n \in DOMAIN rows : n = 1 \/ n - 1 \in DOMAIN Tail(rows)
  BY <1>1
<1>4. \A n \in DOMAIN rows : n # 1 => Tail(rows)[n - 1] = rows[n]
  BY <1>1, <1>3
<1>5. CodesOf(rows) \subseteq {Head(rows).shortCode} \cup CodesOf(Tail(rows))
  <2>1. ASSUME NEW n \in DOMAIN rows
        PROVE  rows[n].shortCode \in {Head(rows).shortCode} \cup CodesOf(Tail(rows))
    BY <1>1, <1>3, <1>4 DEF CodesOf
  <2>. QED
    BY <2>1 DEF CodesOf
<1>6. {Head(rows).shortCode} \cup CodesOf(Tail(rows)) \subseteq CodesOf(rows)
  <2>1. Head(rows).shortCode \in CodesOf(rows)
    BY <1>1 DEF CodesOf
  <2>2. ASSUME NEW n \in DOMAIN Tail(rows)
        PROVE  Tail(rows)[n].shortCode \in CodesOf(rows)
    BY <1>2 DEF CodesOf
  <2>. QED
    BY <2>1, <2>2 DEF CodesOf
<1>7. ASSUME Len(rows) <= 1 PROVE CodesOf(rows) = {Head(rows).shortCode}
  <2>1. DOMAIN Tail(rows) = {}
    BY <1>1, <1>7
  <2>2. CodesOf(Tail(rows)) = {}
    BY <2>1 DEF CodesOf
  <2>. QED
    BY <1>5, <1>6, <2>2
<1>. QED
  BY <1>1, <1>2, <1>5, <1>6, <1>7

\* A step that leaves the calls of the others alone.
Moves(p) ==
  \A q \in Clients \ {p} :
    stage'[q] = stage[q] /\ request'[q] = request[q] /\ todo'[q] = todo[q]

\* A call that returns is idle again, with nothing left to write.
LEMMA FinishMoves ==
  ASSUME FileTypes, NEW p \in Clients, NEW a \in Answer \cup {DiskError},
         Finish(p, a)
  PROVE  /\ Moves(p)
         /\ stage'[p] = "idle" /\ request'[p] = NoCall /\ todo'[p] = <<>>
         /\ answer' \in [Clients -> Answer \cup {DiskError}]
         /\ stage' \in [Clients -> {"idle", "cache", "write", "snapshot",
                                   "truncate", "rewrite"}]
         /\ request' \in [Clients -> Requests \cup {NoCall}]
         /\ todo' \in [Clients -> Seq(ShortenedURL)]
<1>1. <<>> \in Seq(ShortenedURL)
  OBVIOUS
<1>. QED
  BY <1>1 DEF Finish, Moves, FileTypes

\* A call that goes on has the rows of its next stage to write.
LEMMA EnterMoves ==
  ASSUME FileTypes, NEW p \in Clients, NEW rows \in Seq(ShortenedURL),
         NEW label \in {"cache", "write", "snapshot", "truncate", "rewrite"},
         Enter(p, label, rows)
  PROVE  /\ Moves(p) /\ answer' \in [Clients -> Answer \cup {DiskError}]
         /\ stage'[p] = label /\ request'[p] = request[p] /\ todo'[p] = rows
         /\ stage' \in [Clients -> {"idle", "cache", "write", "snapshot",
                                   "truncate", "rewrite"}]
         /\ request' \in [Clients -> Requests \cup {NoCall}]
         /\ todo' \in [Clients -> Seq(ShortenedURL)]
BY DEF Enter, Moves, FileTypes

\* The promises that a nil answer makes.
LEMMA SucceedPromises ==
  ASSUME FileTypes, NEW p \in Clients, Succeed(p)
  PROVE  /\ Finish(p, Nothing) /\ Nothing \in Answer \cup {DiskError}
         /\ promised' \in [ShortCodes -> {"nothing", "stored", "deleted"}]
         /\ \A c \in ShortCodes :
              /\ c \notin CodesIn(request[p]) => promised'[c] = promised[c]
              /\ c \in CodesIn(request[p]) =>
                   promised'[c] =
                     IF request[p].op = "softDelete" \/ promised[c] = "deleted"
                       THEN "deleted" ELSE "stored"
BY AnswerTypes DEF Succeed, FileTypes

\* The file has what it has, and what is to come comes, while no call that
\* holds fs.mu moves.
LEMMA FutureStays ==
  ASSUME FileTypes, NEW p \in Clients, Moves(p), fsMu # p,
         UNCHANGED <<file, fsMu>>
  PROVE  Future' = Future
<1>1. LinesToCome' = LinesToCome
  BY DEF LinesToCome, Moves, FileTypes
<1>. QED
  BY <1>1 DEF Future

\* Before a call leaves the cache, nothing but the cache knows of it; then it
\* returns, or it has rows to write, or it has a snapshot to take.
LEMMA CacheOutcome ==
  ASSUME FileInv, NEW p \in Clients, InCache(p)
  PROVE  /\ CacheCall(p) /\ stage[p] = "cache" /\ up /\ fsMu # p
         /\ request[p] = call[p] /\ call[p] \in Requests /\ todo[p] = <<>>
         /\ Moves(p)
         /\ UNCHANGED <<file, torn, broken, fsMu, up, promised, lost>>
         /\ \/ /\ pc'[p] # "idle"
               /\ UNCHANGED <<stage, request, todo, answer, diverged>>
            \/ /\ pc'[p] = "idle" /\ stage'[p] = "idle"
               /\ request'[p] = NoCall /\ todo'[p] = <<>>
               /\ reply'[p].err # "nil" \/ call[p].op \in {"get", "getURLs"}
               /\ diverged' = IF call[p].op = "softDelete" /\ reply'[p] = ErrNotExists
                                THEN diverged \cup
                                       {c \in CodesIn(call[p]) : storage[c] # NoRow}
                                ELSE diverged
            \/ /\ pc'[p] = "idle" /\ stage'[p] = "write"
               /\ request'[p] = call[p] /\ todo'[p] = RowsOf(call[p])
               /\ reply'[p].err = "nil"
               /\ call[p].op \in {"create", "createBatch"}
               /\ UNCHANGED diverged
            \/ /\ pc'[p] = "idle" /\ stage'[p] = "snapshot"
               /\ request'[p] = call[p] /\ todo'[p] = <<>>
               /\ reply'[p].err = "nil" /\ call[p].op = "softDelete"
               /\ UNCHANGED diverged
         /\ stage' \in [Clients -> {"idle", "cache", "write", "snapshot",
                                   "truncate", "rewrite"}]
         /\ request' \in [Clients -> Requests \cup {NoCall}]
         /\ todo' \in [Clients -> Seq(ShortenedURL)]
         /\ answer' \in [Clients -> Answer \cup {DiskError}]
         /\ diverged' \subseteq ShortCodes
<1>1. /\ CacheCall(p) /\ stage[p] = "cache"
      /\ UNCHANGED <<file, torn, broken, fsMu, up, promised, lost>>
  BY DEF InCache, CacheCall, fileVars
<1>2. FileTypes /\ CacheInv
  BY DEF FileInv
<1>3. /\ up /\ fsMu # p /\ request[p] = call[p] /\ call[p] \in Requests
      /\ todo[p] = <<>>
  <2>1. up
    BY <1>1 DEF FileInv, Down, FileTypes
  <2>2. fsMu # p
    BY <1>1, NobodyAssumption DEF FileInv, FileLock
  <2>3. request[p] = call[p] /\ todo[p] = <<>> /\ request[p] # NoCall
    BY <1>1 DEF FileInv, Calls
  <2>. QED
    BY <1>2, <2>1, <2>2, <2>3 DEF FileTypes
<1>4. CASE pc'[p] # "idle" /\ UNCHANGED <<callVars, diverged>>
  <2>1. Moves(p)
    BY <1>4 DEF callVars, Moves
  <2>2. UNCHANGED <<stage, request, todo, answer, diverged>>
    BY <1>4 DEF callVars
  <2>. QED
    BY <1>1, <1>2, <1>3, <1>4, <2>1, <2>2 DEF FileTypes
<1>5. CASE /\ pc'[p] = "idle" /\ Finish(p, reply'[p])
           /\ reply'[p].err # "nil" \/ request[p].op \in {"get", "getURLs"}
           /\ diverged' =
                IF request[p].op = "softDelete" /\ reply'[p] = ErrNotExists
                  THEN diverged \cup {c \in CodesIn(request[p]) : storage[c] # NoRow}
                  ELSE diverged
  <2>1. diverged' \subseteq ShortCodes
    BY <1>2, <1>3, <1>5, CallCodes DEF FileTypes
  <2>2. reply'[p] \in Answer \cup {DiskError}
    <3>1. CacheInv'
      BY <1>1, <1>2, CallKeepsCacheInv
    <3>. QED
      BY <3>1 DEF CacheInv, TypeOK
  <2>3. /\ Moves(p)
        /\ stage'[p] = "idle" /\ request'[p] = NoCall /\ todo'[p] = <<>>
        /\ answer' \in [Clients -> Answer \cup {DiskError}]
        /\ stage' \in [Clients -> {"idle", "cache", "write", "snapshot",
                                  "truncate", "rewrite"}]
        /\ request' \in [Clients -> Requests \cup {NoCall}]
        /\ todo' \in [Clients -> Seq(ShortenedURL)]
    BY <1>2, <1>5, <2>2, FinishMoves
  <2>. QED
    BY <1>1, <1>3, <1>5, <2>1, <2>3
<1>6. ASSUME pc'[p] = "idle", reply'[p].err = "nil",
             NEW rows \in Seq(ShortenedURL), NEW label \in {"write", "snapshot"},
             Enter(p, label, rows), UNCHANGED diverged,
             \/ /\ label = "write" /\ call[p].op \in {"create", "createBatch"}
                /\ rows = RowsOf(call[p])
             \/ label = "snapshot" /\ call[p].op = "softDelete" /\ rows = <<>>
      PROVE  /\ Moves(p)
             /\ \/ /\ stage'[p] = "write" /\ todo'[p] = RowsOf(call[p])
                   /\ call[p].op \in {"create", "createBatch"}
                \/ /\ stage'[p] = "snapshot" /\ todo'[p] = <<>>
                   /\ call[p].op = "softDelete"
             /\ request'[p] = call[p]
             /\ stage' \in [Clients -> {"idle", "cache", "write", "snapshot",
                                       "truncate", "rewrite"}]
             /\ request' \in [Clients -> Requests \cup {NoCall}]
             /\ todo' \in [Clients -> Seq(ShortenedURL)]
             /\ answer' \in [Clients -> Answer \cup {DiskError}]
             /\ diverged' \subseteq ShortCodes
  <2>1. /\ Moves(p) /\ answer' \in [Clients -> Answer \cup {DiskError}]
        /\ stage'[p] = label /\ request'[p] = request[p] /\ todo'[p] = rows
        /\ stage' \in [Clients -> {"idle", "cache", "write", "snapshot",
                                  "truncate", "rewrite"}]
        /\ request' \in [Clients -> Requests \cup {NoCall}]
        /\ todo' \in [Clients -> Seq(ShortenedURL)]
    BY <1>2, <1>6, EnterMoves
  <2>2. diverged' \subseteq ShortCodes
    BY <1>2, <1>6 DEF FileTypes
  <2>. QED
    BY <1>3, <1>6, <2>1, <2>2
<1>7. CASE /\ pc'[p] = "idle" /\ reply'[p].err = "nil" /\ UNCHANGED diverged
           /\ \/ /\ call[p].op = "create" /\ Enter(p, "write", <<call[p].row>>)
              \/ /\ call[p].op = "createBatch"
                 /\ Enter(p, "write", call[p].rows)
              \/ call[p].op = "softDelete" /\ Enter(p, "snapshot", <<>>)
  <2>1. CASE call[p].op = "create" /\ Enter(p, "write", <<call[p].row>>)
    <3>1. RowsOf(call[p]) \in Seq(ShortenedURL) /\ RowsOf(call[p]) = <<call[p].row>>
      BY <1>3, <2>1, CodesOfCall
    <3>. QED
      BY <1>1, <1>3, <1>6, <1>7, <2>1, <3>1
  <2>2. CASE call[p].op = "createBatch" /\ Enter(p, "write", call[p].rows)
    <3>1. RowsOf(call[p]) \in Seq(ShortenedURL) /\ RowsOf(call[p]) = call[p].rows
      BY <1>3, <2>2, CodesOfCall
    <3>. QED
      BY <1>1, <1>3, <1>6, <1>7, <2>2, <3>1
  <2>3. CASE call[p].op = "softDelete" /\ Enter(p, "snapshot", <<>>)
    <3>1. <<>> \in Seq(ShortenedURL)
      OBVIOUS
    <3>. QED
      BY <1>1, <1>3, <1>6, <1>7, <2>3, <3>1
  <2>. QED
    BY <1>7, <2>1, <2>2, <2>3
<1>. QED
  BY <1>3, <1>4, <1>5, <1>7 DEF InCache, AfterCache

-----------------------------------------------------------------------------
(***************************************************************************)
(* The inductive invariant, one action at a time.                          *)
(***************************************************************************)
LEMMA FileInitInv == FileInit => FileInv
<1>. SUFFICES ASSUME FileInit PROVE FileInv
  OBVIOUS
<1>1. CacheInv
  BY InitCacheInv DEF FileInit
<1>2. /\ <<>> \in Seq(ShortenedURL) /\ DOMAIN <<>> = {}
  OBVIOUS
<1>3. FileTypes
  BY <1>2, AnswerTypes DEF FileInit, FileTypes
<1>4. Calls /\ FileLock /\ Down
  BY DEF FileInit, Init, Calls, FileLock, Down
<1>5. Links /\ CacheDone
  BY <1>2 DEF FileInit, Links, CacheDone
<1>6. /\ \A q \in Clients : stage[q] = "idle"
      /\ Deleter \in Clients /\ ~(fsMu # Nobody)
  BY DeleterAssumption DEF FileInit
<1>7. LinesToCome = <<>>
  BY <1>6 DEF LinesToCome, FileInit
<1>8. \A c \in ShortCodes : Future[c] = NoRow /\ storage[c] = NoRow
  BY <1>7, RestoredEmpty DEF Future, FileInit, Init
<1>9. SnapshotIsWhole /\ InStep
  BY <1>6, <1>8 DEF SnapshotIsWhole, InStep
<1>10. Durable
  BY <1>6 DEF FileInit, Durable, Written
<1>. QED
  BY <1>1, <1>3, <1>4, <1>5, <1>9, <1>10 DEF FileInv

\* A call starts: nothing of what it is about has changed yet.
LEMMA FileInvokeInv ==
  ASSUME FileInv, NEW p \in Clients, FileInvoke(p)
  PROVE  FileInv'
<1>1. /\ Invoke(p) /\ stage[p] = "idle" /\ up
      /\ stage' = [stage EXCEPT ![p] = "cache"]
      /\ request' = [request EXCEPT ![p] = call'[p]]
      /\ answer' = [answer EXCEPT ![p] = Nothing]
      /\ call'[p].op = "softDelete" => p = Deleter
      /\ UNCHANGED <<file, torn, broken, fsMu, todo, up, promised, diverged, lost>>
  BY DEF FileInvoke, fileVars, auxVars
<1>2. CacheInv' /\ CacheInv
  <2>1. [Next]_vars
    BY <1>1 DEF Next
  <2>. QED
    BY <2>1, NextCacheInv DEF FileInv
<1>3. FileTypes
  BY DEF FileInv
<1>4. /\ pc'[p] = "called" /\ pc[p] = "idle" /\ call'[p] \in Requests
      /\ \A q \in Clients \ {p} : pc'[q] = pc[q] /\ call'[q] = call[q]
      /\ UNCHANGED <<storage, originalMap, mu, i>>
  BY <1>1, <1>2 DEF Invoke, CacheInv, TypeOK
<1>5. /\ stage'[p] = "cache" /\ request'[p] = call'[p] /\ todo'[p] = todo[p]
      /\ Moves(p)
  BY <1>1, <1>3 DEF FileTypes, Moves
<1>6. FileTypes'
  BY <1>1, <1>3, <1>4, AnswerTypes DEF FileTypes
<1>7. fsMu # p
  BY <1>1, NobodyAssumption DEF FileInv, FileLock
<1>8. Future' = Future
  BY <1>1, <1>3, <1>5, <1>7, FutureStays
<1>9. todo[p] = <<>>
  BY <1>1 DEF FileInv, Calls
<1>10. Calls'
  <2>1. ASSUME NEW q \in Clients
        PROVE  /\ stage'[q] = "cache" <=> pc'[q] # "idle"
               /\ stage'[q] = "idle" <=> request'[q] = NoCall
               /\ stage'[q] = "cache" => request'[q] = call'[q]
               /\ stage'[q] \in {"idle", "cache", "snapshot"} => todo'[q] = <<>>
               /\ stage'[q] = "write" =>
                    request'[q].op \in {"create", "createBatch"}
               /\ stage'[q] \in {"snapshot", "truncate", "rewrite"} =>
                    request'[q].op = "softDelete"
               /\ stage'[q] # "idle" /\ request'[q].op = "softDelete" =>
                    q = Deleter
    <3>1. CASE q = p
      BY <1>1, <1>4, <1>5, <1>9, <3>1, NoCallAssumption
    <3>2. CASE q # p
      BY <1>4, <1>5, <3>2 DEF Moves, FileInv, Calls
    <3>. QED
      BY <3>1, <3>2
  <2>. QED
    BY <2>1 DEF Calls
<1>11. FileLock'
  BY <1>1, <1>5, <1>7 DEF Moves, FileInv, FileLock
<1>12. Down' /\ Links'
  BY <1>1, <1>4 DEF FileInv, Down, Links, LinkIn
<1>13. CacheDone'
  BY <1>4, <1>5 DEF Moves, FileInv, CacheDone, Has, HasDeleted
<1>14. stage'[Deleter] = "truncate" =>
         stage[Deleter] = "truncate" /\ p # Deleter
  BY <1>5, DeleterAssumption DEF Moves
<1>15. stage'[Deleter] = "rewrite" =>
         stage[Deleter] = "rewrite" /\ p # Deleter
  BY <1>5, DeleterAssumption DEF Moves
<1>16. Snapshotted' = Snapshotted /\ UNCHANGED <<todo, storage>>
  BY <1>1, <1>4 DEF Snapshotted
<1>17. SnapshotIsWhole'
  BY <1>8, <1>14, <1>15, <1>16 DEF FileInv, SnapshotIsWhole, HasDeleted
<1>18. \A c : Written(c)' => Written(c)
  BY <1>1, <1>5 DEF Written, Moves
<1>19. Durable'
  BY <1>1, <1>8, <1>14, <1>16, <1>18 DEF FileInv, Durable, Has, HasDeleted
<1>20. \A c : Creating(c) => Creating(c)'
  <2>1. \A q \in Clients : stage[q] = "write" \/ pc[q] = "setting" => q # p
    BY <1>1, <1>4
  <2>. QED
    BY <1>1, <1>4, <1>5, <2>1 DEF Creating, Moves
<1>21. \A c : Deleting(c) => Deleting(c)'
  <2>1. ASSUME NEW c, Deleting(c) PROVE Deleter # p
    BY <1>1, <1>4, <2>1 DEF Deleting
  <2>2. ASSUME Deleter # p
        PROVE  /\ pc'[Deleter] = pc[Deleter] /\ stage'[Deleter] = stage[Deleter]
               /\ request'[Deleter] = request[Deleter]
               /\ MarkedSoFar(Deleter)' = MarkedSoFar(Deleter)
    BY <1>4, <1>5, <2>2, DeleterAssumption DEF Moves, MarkedSoFar
  <2>. QED
    BY <2>1, <2>2 DEF Deleting
<1>22. InStep'
  BY <1>1, <1>8, <1>14, <1>16, <1>20, <1>21 DEF FileInv, InStep
<1>. QED
  BY <1>2, <1>6, <1>10, <1>11, <1>12, <1>13, <1>17, <1>19, <1>22 DEF FileInv

\* A step in the cache keeps the rows that are there, and their deletions,
\* and only the deleter deletes.
LEMMA CacheKeepsRows ==
  ASSUME FileInv, NEW p \in Clients, InCache(p)
  PROVE  /\ CacheInv /\ CacheInv'
         /\ \A c \in ShortCodes :
              /\ Has(storage, c) =>
                   /\ Has(storage', c)
                   /\ SameLink(storage[c], storage'[c])
                   /\ storage[c].isDeleted => storage'[c] = storage[c]
              /\ HasDeleted(storage, c) => HasDeleted(storage', c)
              /\ p # Deleter /\ HasDeleted(storage', c) => HasDeleted(storage, c)
<1>1. /\ CacheCall(p) /\ stage[p] = "cache" /\ request[p] = call[p]
  BY CacheOutcome
<1>2. CacheInv /\ CacheInv' /\ [Next]_vars
  BY <1>1, CallKeepsCacheInv DEF FileInv
<1>3. call[p].op = "softDelete" => p = Deleter
  BY <1>1 DEF FileInv, Calls
<1>4. ASSUME NEW c \in ShortCodes, Has(storage, c)
      PROVE  /\ Has(storage', c)
             /\ SameLink(storage[c], storage'[c])
             /\ storage[c].isDeleted => storage'[c] = storage[c]
             /\ HasDeleted(storage, c) => HasDeleted(storage', c)
             /\ p # Deleter => storage'[c] = storage[c]
  <2>1. storage[c] \in ShortenedURL
    BY <1>2, <1>4 DEF Has, CacheInv, TypeOK
  <2>2. storage'[c] = storage[c] \/ storage'[c] = Deleted(storage[c])
    BY <1>2, <1>4, RowStep DEF Has
  <2>3. storage[c].isDeleted => Deleted(storage[c]) = storage[c]
    BY <2>1 DEF Deleted, ShortenedURL
  <2>4. p # Deleter => storage'[c] = storage[c]
    BY <1>1, <1>2, <1>3, <1>4, MarkedRows DEF Has
  <2>. QED
    BY <1>4, <2>1, <2>2, <2>3, <2>4, DeletedType DEF Has, HasDeleted, SameLink
<1>5. ASSUME NEW c \in ShortCodes, ~Has(storage, c), HasDeleted(storage', c)
      PROVE  FALSE
  BY <1>1, <1>2, <1>5, NewRows DEF Has, HasDeleted
<1>6. \A c \in ShortCodes : HasDeleted(storage, c) => Has(storage, c)
  BY DEF HasDeleted, Has
<1>7. ASSUME NEW c \in ShortCodes, p # Deleter, HasDeleted(storage', c)
      PROVE  HasDeleted(storage, c)
  <2>1. Has(storage, c)
    BY <1>5, <1>7
  <2>2. storage'[c] = storage[c]
    BY <1>4, <1>7, <2>1
  <2>. QED
    BY <1>7, <2>2 DEF HasDeleted
<1>. QED
  BY <1>2, <1>4, <1>6, <1>7

\* A step in the cache, and where the call goes from there: the part of the
\* invariant about calls, locks and links.
LEMMA InCacheCalls ==
  ASSUME FileInv, NEW p \in Clients, InCache(p)
  PROVE  FileTypes' /\ Calls' /\ FileLock' /\ Down' /\ Links' /\ CacheDone'
<1>1. /\ CacheCall(p) /\ stage[p] = "cache" /\ up /\ fsMu # p
      /\ request[p] = call[p] /\ call[p] \in Requests /\ todo[p] = <<>>
      /\ Moves(p)
      /\ UNCHANGED <<file, torn, broken, fsMu, up, promised, lost>>
      /\ stage' \in [Clients -> {"idle", "cache", "write", "snapshot",
                                "truncate", "rewrite"}]
      /\ request' \in [Clients -> Requests \cup {NoCall}]
      /\ todo' \in [Clients -> Seq(ShortenedURL)]
      /\ answer' \in [Clients -> Answer \cup {DiskError}]
      /\ diverged' \subseteq ShortCodes
  BY CacheOutcome
<1>2. \/ /\ pc'[p] # "idle" /\ UNCHANGED <<stage, request, todo>>
      \/ /\ pc'[p] = "idle" /\ stage'[p] = "idle"
         /\ request'[p] = NoCall /\ todo'[p] = <<>>
      \/ /\ pc'[p] = "idle" /\ stage'[p] = "write"
         /\ request'[p] = call[p] /\ todo'[p] = RowsOf(call[p])
         /\ reply'[p].err = "nil" /\ call[p].op \in {"create", "createBatch"}
      \/ /\ pc'[p] = "idle" /\ stage'[p] = "snapshot"
         /\ request'[p] = call[p] /\ todo'[p] = <<>>
         /\ reply'[p].err = "nil" /\ call[p].op = "softDelete"
  BY CacheOutcome
<1>3. /\ CacheInv
      /\ \A c \in ShortCodes :
           /\ Has(storage, c) => Has(storage', c)
           /\ Has(storage, c) => SameLink(storage[c], storage'[c])
           /\ HasDeleted(storage, c) => HasDeleted(storage', c)
  BY CacheKeepsRows
<1>4. /\ \A q \in Clients \ {p} : pc'[q] = pc[q] /\ call'[q] = call[q]
      /\ pc[p] # "idle"
      /\ pc'[p] # "idle" => call'[p] = call[p]
  BY <1>1, <1>3, CallIsLocal
<1>5. FileTypes'
  BY <1>1 DEF FileInv, FileTypes
<1>6. call[p] # NoCall /\ (call[p].op = "softDelete" => p = Deleter)
  BY <1>1, NoCallAssumption DEF FileInv, Calls
<1>7. Calls'
  <2>1. ASSUME NEW q \in Clients
        PROVE  /\ stage'[q] = "cache" <=> pc'[q] # "idle"
               /\ stage'[q] = "idle" <=> request'[q] = NoCall
               /\ stage'[q] = "cache" => request'[q] = call'[q]
               /\ stage'[q] \in {"idle", "cache", "snapshot"} => todo'[q] = <<>>
               /\ stage'[q] = "write" =>
                    request'[q].op \in {"create", "createBatch"}
               /\ stage'[q] \in {"snapshot", "truncate", "rewrite"} =>
                    request'[q].op = "softDelete"
               /\ stage'[q] # "idle" /\ request'[q].op = "softDelete" =>
                    q = Deleter
    <3>1. CASE q = p
      BY <1>1, <1>2, <1>4, <1>6, <3>1
    <3>2. CASE q # p
      BY <1>1, <1>4, <3>2 DEF Moves, FileInv, Calls
    <3>. QED
      BY <3>1, <3>2
  <2>. QED
    BY <2>1 DEF Calls
<1>8. FileLock'
  <2>1. ASSUME NEW q \in Clients
        PROVE  /\ stage'[q] = "rewrite" => fsMu' = q
               /\ stage'[q] = "write" /\ fsMu' # q =>
                    todo'[q] = RowsOf(request'[q])
    <3>1. CASE q = p
      BY <1>1, <1>2, <3>1
    <3>2. CASE q # p
      BY <1>1, <3>2 DEF Moves, FileInv, FileLock
    <3>. QED
      BY <3>1, <3>2
  <2>2. fsMu' # Nobody => stage'[fsMu'] \in {"write", "rewrite"}
    BY <1>1 DEF Moves, FileInv, FileLock, FileTypes
  <2>. QED
    BY <2>1, <2>2 DEF FileLock
<1>9. Down'
  BY <1>1 DEF Down
<1>10. ASSUME stage'[p] = "write"
       PROVE  \A k \in DOMAIN todo'[p] :
                /\ todo'[p][k] \in ShortenedURL
                /\ storage'[todo'[p][k].shortCode] = todo'[p][k]
  <2>1. /\ pc'[p] = "idle" /\ reply'[p].err = "nil"
        /\ todo'[p] = RowsOf(call[p]) /\ call[p].op \in {"create", "createBatch"}
    BY <1>1, <1>2, <1>10
  <2>2. CASE call[p].op = "create"
    <3>1. storage'[call[p].row.shortCode] = call[p].row
      BY <1>1, <1>3, <2>1, <2>2, NilMeansDone
    <3>2. /\ todo'[p] = <<call[p].row>> /\ DOMAIN <<call[p].row>> = {1}
          /\ <<call[p].row>>[1] = call[p].row
      BY <1>1, <2>1, <2>2, CodesOfCall
    <3>3. call[p].row \in NewURL
      BY <1>1, <2>2, RequestShapes
    <3>. QED
      BY <3>1, <3>2, <3>3 DEF NewURL
  <2>3. CASE call[p].op = "createBatch"
    <3>1. \A k \in DOMAIN call[p].rows :
            storage'[call[p].rows[k].shortCode] = call[p].rows[k]
      BY <1>1, <1>3, <2>1, <2>3, NilMeansDone
    <3>2. todo'[p] = call[p].rows /\ todo'[p] \in Seq(ShortenedURL)
      BY <1>1, <2>1, <2>3, CodesOfCall
    <3>. QED
      BY <3>1, <3>2
  <2>. QED
    BY <2>1, <2>2, <2>3
<1>11. Links'
  <2>1. \A row \in ShortenedURL : LinkIn(storage, row) => LinkIn(storage, row)'
    <3>1. ASSUME NEW row \in ShortenedURL, LinkIn(storage, row)
          PROVE  LinkIn(storage', row)
      <4>1. row.shortCode \in ShortCodes
        BY DEF ShortenedURL
      <4>. QED
        BY <1>3, <3>1, <4>1 DEF LinkIn, Has, SameLink
    <3>. QED
      BY <3>1 DEF LinkIn
  <2>2. \A n \in DOMAIN file : file[n] \in ShortenedURL
    BY DEF FileInv, FileTypes
  <2>3. \A n \in DOMAIN file' : LinkIn(storage', file'[n])
    BY <1>1, <2>1, <2>2 DEF FileInv, Links, LinkIn
  <2>4. ASSUME NEW q \in Clients, NEW n \in DOMAIN todo'[q]
        PROVE  LinkIn(storage', todo'[q][n])
    <3>1. CASE q # p
      <4>1. todo'[q] = todo[q] /\ todo[q] \in Seq(ShortenedURL)
        BY <1>1, <3>1 DEF Moves, FileInv, FileTypes
      <4>2. todo[q][n] \in ShortenedURL /\ LinkIn(storage, todo[q][n])
        BY <1>1, <2>4, <4>1 DEF FileInv, Links
      <4>. QED
        BY <2>1, <4>1, <4>2 DEF LinkIn
    <3>2. CASE q = p /\ stage'[p] # "write"
      <4>1. todo'[p] = <<>>
        BY <1>1, <1>2, <3>2
      <4>2. DOMAIN <<>> = {}
        OBVIOUS
      <4>. QED
        BY <2>4, <3>2, <4>1, <4>2
    <3>3. CASE q = p /\ stage'[p] = "write"
      BY <1>10, <2>4, <3>3, NoRowAssumption DEF LinkIn, SameLink
    <3>. QED
      BY <3>1, <3>2, <3>3
  <2>. QED
    BY <1>1, <2>3, <2>4 DEF FileInv, Links, LinkIn
<1>12. CacheDone'
  <2>1. ASSUME NEW q \in Clients
        PROVE  /\ stage'[q] = "write" =>
                    \A c \in CodesIn(request'[q]) : Has(storage', c)
               /\ stage'[q] \in {"snapshot", "truncate", "rewrite"} =>
                    \A c \in CodesIn(request'[q]) : HasDeleted(storage', c)
    <3>1. CASE q # p
      <4>1. stage'[q] = stage[q] /\ request'[q] = request[q]
        BY <1>1, <3>1 DEF Moves
      <4>2. stage[q] # "idle" => request[q] \in Requests
        BY DEF FileInv, Calls, FileTypes
      <4>3. \A r \in Requests : r.op \in {"create", "createBatch", "softDelete"}
              => CodesIn(r) \subseteq ShortCodes
        BY CallCodes
      <4>4. /\ stage[q] = "write" => request[q].op \in {"create", "createBatch"}
            /\ stage[q] \in {"snapshot", "truncate", "rewrite"} =>
                 request[q].op = "softDelete"
        BY DEF FileInv, Calls
      <4>. QED
        BY <1>3, <4>1, <4>2, <4>3, <4>4 DEF FileInv, CacheDone
    <3>2. CASE q = p /\ stage'[p] = "write"
      <4>1. request'[p] = call[p] /\ CodesIn(call[p]) = CodesOf(todo'[p])
        BY <1>1, <1>2, <3>2, CodesOfCall
      <4>. QED
        BY <1>10, <3>2, <4>1, NoRowAssumption DEF CodesOf, Has
    <3>3. CASE q = p /\ stage'[p] = "snapshot"
      <4>1. /\ pc'[p] = "idle" /\ reply'[p].err = "nil"
            /\ request'[p] = call[p] /\ call[p].op = "softDelete"
        BY <1>1, <1>2, <3>3
      <4>2. \A c \in Range(call[p].shortCodes) : HasDeleted(storage', c)
        BY <1>1, <1>3, <4>1, NilMeansDone
      <4>. QED
        BY <1>1, <3>3, <4>1, <4>2, CodesOfCall
    <3>4. CASE q = p /\ stage'[p] \notin {"write", "snapshot"}
      BY <1>1, <1>2, <3>4
    <3>. QED
      BY <3>1, <3>2, <3>3, <3>4
  <2>. QED
    BY <2>1 DEF CacheDone, Has, HasDeleted
<1>. QED
  BY <1>5, <1>7, <1>8, <1>9, <1>11, <1>12

\* A step in the cache: the part about the file, the promises and the snapshot.
LEMMA InCacheFile ==
  ASSUME FileInv, NEW p \in Clients, InCache(p)
  PROVE  SnapshotIsWhole' /\ Durable'
<1>1. /\ stage[p] = "cache" /\ up /\ fsMu # p /\ call[p] \in Requests
      /\ Moves(p)
      /\ UNCHANGED <<file, torn, broken, fsMu, up, promised, lost>>
  BY CacheOutcome
<1>2. /\ stage'[p] \in {"cache", "idle", "write", "snapshot"}
      /\ stage'[p] = "write" => /\ request'[p] = call[p]
                                /\ todo'[p] = RowsOf(call[p])
                                /\ call[p].op \in {"create", "createBatch"}
  BY CacheOutcome
<1>3. \A c \in ShortCodes :
        /\ Has(storage, c) => Has(storage', c)
        /\ HasDeleted(storage, c) => HasDeleted(storage', c)
        /\ p # Deleter /\ HasDeleted(storage', c) => HasDeleted(storage, c)
  BY CacheKeepsRows
<1>4. Future' = Future
  BY <1>1, FutureStays DEF FileInv
<1>5. stage'[Deleter] \in {"truncate", "rewrite"} =>
        /\ p # Deleter
        /\ stage'[Deleter] = stage[Deleter] /\ Snapshotted' = Snapshotted
        /\ todo'[Deleter] = todo[Deleter]
  BY <1>1, <1>2, DeleterAssumption DEF Moves, Snapshotted
<1>6. SnapshotIsWhole'
  <2>1. CASE stage'[Deleter] = "truncate"
    <3>1. /\ CacheCall(p) /\ CacheInv /\ (call[p].op = "softDelete" => p = Deleter)
      BY <1>1, CacheOutcome DEF FileInv, Calls
    <3>2. ASSUME NEW n \in DOMAIN todo[Deleter]
          PROVE  storage'[todo[Deleter][n].shortCode] = todo[Deleter][n]
      <4>1. /\ storage[todo[Deleter][n].shortCode] = todo[Deleter][n]
            /\ todo[Deleter] \in Seq(ShortenedURL)
        BY <1>5, <2>1, DeleterAssumption
        DEF FileInv, SnapshotIsWhole, FileTypes
      <4>2. todo[Deleter][n] \in ShortenedURL
        BY <4>1
      <4>3. /\ todo[Deleter][n].shortCode \in ShortCodes
            /\ storage[todo[Deleter][n].shortCode] # NoRow
        BY <4>1, <4>2, NoRowAssumption DEF ShortenedURL
      <4>. QED
        BY <1>5, <2>1, <3>1, <4>1, <4>3, MarkedRows
    <3>. QED
      BY <1>3, <1>5, <2>1, <3>2 DEF FileInv, SnapshotIsWhole, HasDeleted
  <2>2. CASE stage'[Deleter] = "rewrite"
    BY <1>3, <1>4, <1>5, <2>2 DEF FileInv, SnapshotIsWhole, HasDeleted
  <2>. QED
    BY <2>1, <2>2 DEF SnapshotIsWhole
<1>7. ASSUME NEW c, Written(c)' PROVE Written(c)
  <2>1. CASE promised'[c] # "nothing"
    BY <1>1, <2>1 DEF Written
  <2>2. ASSUME NEW q \in Clients, stage'[q] = "write",
               c \in CodesIn(request'[q]) \ CodesOf(todo'[q])
        PROVE  Written(c)
    <3>1. q # p
      BY <1>1, <1>2, <2>2, CodesOfCall
    <3>. QED
      BY <1>1, <2>2, <3>1 DEF Moves, Written
  <2>. QED
    BY <1>7, <2>1, <2>2 DEF Written
<1>8. Durable'
  BY <1>1, <1>3, <1>4, <1>5, <1>7 DEF FileInv, Durable, Has, HasDeleted
<1>. QED
  BY <1>6, <1>8

\* A row that is on its way to the file stays on its way, and the rows that a
\* step adds or marks are on their way.
LEMMA InCacheInStep ==
  ASSUME FileInv, NEW p \in Clients, InCache(p)
  PROVE  InStep'
<1>1. /\ CacheCall(p) /\ stage[p] = "cache" /\ up /\ fsMu # p
      /\ request[p] = call[p] /\ call[p] \in Requests
      /\ Moves(p)
      /\ UNCHANGED <<file, fsMu>>
  BY CacheOutcome
<1>2. \/ /\ pc'[p] # "idle" /\ UNCHANGED <<stage, request, todo, diverged>>
      \/ /\ pc'[p] = "idle" /\ stage'[p] = "idle"
         /\ reply'[p].err # "nil" \/ call[p].op \in {"get", "getURLs"}
         /\ diverged' = IF call[p].op = "softDelete" /\ reply'[p] = ErrNotExists
                          THEN diverged \cup
                                 {c \in CodesIn(call[p]) : storage[c] # NoRow}
                          ELSE diverged
      \/ /\ pc'[p] = "idle" /\ stage'[p] = "write" /\ todo'[p] = RowsOf(call[p])
         /\ call[p].op \in {"create", "createBatch"} /\ UNCHANGED diverged
      \/ /\ pc'[p] = "idle" /\ stage'[p] = "snapshot" /\ request'[p] = call[p]
         /\ call[p].op = "softDelete" /\ UNCHANGED diverged
  BY CacheOutcome
<1>3. CacheInv /\ CacheInv'
  BY CacheKeepsRows
<1>4. /\ \A q \in Clients \ {p} :
           pc'[q] = pc[q] /\ call'[q] = call[q] /\ i'[q] = i[q]
      /\ pc'[p] # "idle" => call'[p] = call[p]
  BY <1>1, <1>3, CallIsLocal
<1>5. diverged \subseteq diverged'
  BY <1>2
<1>6. call[p].op = "softDelete" => p = Deleter
  BY <1>1 DEF FileInv, Calls
<1>6a. pc[p] = "deleting" =>
         \A c \in MarkedSoFar(p) : c \in CodesIn(call[p]) /\ storage[c] # NoRow
  <2>. SUFFICES ASSUME pc[p] = "deleting", NEW c \in MarkedSoFar(p)
                PROVE  c \in CodesIn(call[p]) /\ storage[c] # NoRow
    OBVIOUS
  <2>1. /\ call[p].op = "softDelete" /\ i[p] \in 1 .. Len(call[p].shortCodes)
        /\ committed[c] # NoRow /\ storage[c] = Deleted(committed[c])
    BY <1>3 DEF CacheInv, DeleteProgress
  <2>2. call[p].shortCodes \in Seq(ShortCodes) /\ CodesIn(call[p]) = Range(call[p].shortCodes)
    BY <1>1, <2>1, RequestShapes, CodesOfCall
  <2>3. PICK k \in 1 .. i[p] - 1 : c = call[p].shortCodes[k]
    BY DEF MarkedSoFar
  <2>4. k \in DOMAIN call[p].shortCodes
    BY <2>1, <2>2, <2>3
  <2>5. c \in Range(call[p].shortCodes) /\ c \in ShortCodes
    BY <2>2, <2>3, <2>4 DEF Range
  <2>6. committed[c] \in ShortenedURL
    BY <1>3, <2>1, <2>5 DEF CacheInv, TypeOK
  <2>7. Deleted(committed[c]) # NoRow
    BY <2>6, DeletedType, NoRowAssumption
  <2>. QED
    BY <2>1, <2>2, <2>5, <2>7
<1>7. Nothing.err = "nil"
  BY DEF Nothing
<1>8. pc'[p] = "idle" /\ reply'[p] = Nothing =>
        /\ call[p].op = "createBatch" =>
             stage'[p] = "write" /\ CodesOf(todo'[p]) = CodesOf(call[p].rows)
        /\ call[p].op = "create" =>
             /\ stage'[p] = "write"
             /\ CodesOf(todo'[p]) = {call[p].row.shortCode}
        /\ call[p].op = "softDelete" =>
             stage'[p] = "snapshot" /\ request'[p] = call[p]
  <2>1. call[p].op = "create" => CodesIn(call[p]) = {call[p].row.shortCode}
    BY DEF CodesIn
  <2>. QED
    BY <1>1, <1>2, <1>7, <2>1, CodesOfCall
<1>9. ASSUME NEW c \in ShortCodes, Creating(c) PROVE Creating(c)'
  <2>1. ASSUME NEW q \in Clients, stage[q] = "write" /\ c \in CodesOf(todo[q])
        PROVE  Creating(c)'
    BY <1>1, <2>1 DEF Moves, Creating
  <2>2. ASSUME NEW q \in Clients, q # p,
               pc[q] = "setting" /\ c \in CodesOf(call[q].rows)
        PROVE  Creating(c)'
    BY <1>4, <2>2 DEF Creating
  <2>3. ASSUME pc[p] = "setting" /\ c \in CodesOf(call[p].rows)
        PROVE  Creating(c)'
    <3>1. /\ call[p].op = "createBatch"
          /\ pc'[p] = "setting" \/ (pc'[p] = "idle" /\ reply'[p] = Nothing)
      BY <1>1, <1>3, <2>3, LoopMoves
    <3>. QED
      BY <1>4, <1>8, <2>3, <3>1 DEF Creating
  <2>. QED
    BY <1>9, <2>1, <2>2, <2>3 DEF Creating
<1>10. ASSUME NEW c \in ShortCodes \ diverged', Deleting(c) PROVE Deleting(c)'
  <2>1. CASE p # Deleter
    <3>1. /\ stage'[Deleter] = stage[Deleter] /\ pc'[Deleter] = pc[Deleter]
          /\ request'[Deleter] = request[Deleter]
          /\ MarkedSoFar(Deleter)' = MarkedSoFar(Deleter)
      BY <1>1, <1>4, <2>1, DeleterAssumption DEF Moves, MarkedSoFar
    <3>. QED
      BY <1>10, <3>1 DEF Deleting
  <2>2. CASE p = Deleter
    <3>1. pc[p] = "deleting" /\ c \in MarkedSoFar(p)
      BY <1>1, <1>10, <2>2 DEF Deleting
    <3>2. /\ call[p].op = "softDelete"
          /\ \/ pc'[p] = "deleting" /\ c \in MarkedSoFar(p)'
             \/ pc'[p] = "idle" /\ reply'[p] \in {Nothing, ErrNotExists}
      BY <1>1, <1>3, <3>1, LoopMoves
    <3>3. CASE pc'[p] = "deleting" /\ c \in MarkedSoFar(p)'
      BY <2>2, <3>3 DEF Deleting
    <3>3a. c \in CodesIn(call[p]) /\ storage[c] # NoRow
      BY <1>6a, <3>1
    <3>4. CASE pc'[p] = "idle" /\ reply'[p] = Nothing
      BY <1>8, <2>2, <3>2, <3>3a, <3>4 DEF Deleting
    <3>5. CASE pc'[p] = "idle" /\ reply'[p] = ErrNotExists
      <4>1. ErrNotExists.err # "nil"
        BY DEF ErrNotExists
      <4>2. CASE stage'[p] = "idle"
        <5>1. c \in diverged'
          BY <1>2, <3>2, <3>3a, <3>5, <4>2
        <5>. QED
          BY <1>10, <5>1
      <4>3. CASE stage'[p] = "snapshot" /\ request'[p] = call[p]
        BY <2>2, <3>3a, <4>3 DEF Deleting
      <4>. QED
        BY <1>2, <3>2, <3>5, <4>2, <4>3
    <3>. QED
      BY <3>2, <3>3, <3>4, <3>5
  <2>. QED
    BY <2>1, <2>2
<1>11. Future' = Future
  BY <1>1, FutureStays DEF FileInv
<1>12. ASSUME NEW c \in ShortCodes \ diverged'
       PROVE  Future'[c] = storage'[c] \/ Creating(c)' \/ Deleting(c)'
  <2>1. Future[c] = storage[c] \/ Creating(c) \/ Deleting(c)
    BY <1>1, <1>5 DEF FileInv, InStep
  <2>2. CASE storage'[c] = storage[c]
    BY <1>9, <1>10, <1>11, <2>1, <2>2
  <2>3. CASE storage'[c] # storage[c] /\ storage[c] = NoRow
    <3>1. \/ /\ call[p].op = "createBatch"
             /\ c \in CodesOf(call[p].rows)
             /\ pc'[p] = "setting" \/ (pc'[p] = "idle" /\ reply'[p] = Nothing)
          \/ /\ call[p].op = "create"
             /\ c = call[p].row.shortCode
             /\ pc'[p] = "idle" /\ reply'[p] = Nothing
      BY <1>1, <1>3, <2>3, NewRows
    <3>. QED
      BY <1>4, <1>8, <3>1 DEF Creating
  <2>4. CASE storage'[c] # storage[c] /\ storage[c] # NoRow
    <3>1. /\ call[p].op = "softDelete" /\ pc[p] = "deleting"
          /\ \/ pc'[p] = "deleting" /\ c \in MarkedSoFar(p)'
             \/ pc'[p] = "idle" /\ reply'[p] = Nothing
      BY <1>1, <1>3, <2>4, MarkedRows
    <3>2. CASE pc'[p] = "deleting" /\ c \in MarkedSoFar(p)'
      BY <1>6, <3>1, <3>2 DEF Deleting
    <3>3. CASE pc'[p] = "idle" /\ reply'[p] = Nothing
      <4>1. HasDeleted(storage', c) /\ c \in CodesIn(call[p])
        BY <1>1, <1>3, <2>4, <3>1, <3>3, MarkedIsAsked
      <4>. QED
        BY <1>6, <1>8, <3>1, <3>3, <4>1 DEF Deleting
    <3>. QED
      BY <3>1, <3>2, <3>3
  <2>. QED
    BY <2>2, <2>3, <2>4
<1>13. ASSUME NEW c \in ShortCodes \ diverged', stage'[Deleter] = "truncate"
       PROVE  Snapshotted'[c] = storage'[c] \/ Creating(c)'
  <2>1. p # Deleter /\ stage[Deleter] = "truncate" /\ Snapshotted' = Snapshotted
    BY <1>1, <1>2, <1>13, DeleterAssumption DEF Moves, Snapshotted
  <2>2. Snapshotted[c] = storage[c] \/ Creating(c)
    BY <1>1, <1>5, <2>1 DEF FileInv, InStep
  <2>3. CASE storage'[c] = storage[c]
    BY <1>9, <2>1, <2>2, <2>3
  <2>4. CASE storage'[c] # storage[c]
    <3>1. storage[c] = NoRow
      BY <1>1, <1>3, <1>6, <2>1, <2>4, MarkedRows
    <3>2. \/ /\ call[p].op = "createBatch"
             /\ c \in CodesOf(call[p].rows)
             /\ pc'[p] = "setting" \/ (pc'[p] = "idle" /\ reply'[p] = Nothing)
          \/ /\ call[p].op = "create"
             /\ c = call[p].row.shortCode
             /\ pc'[p] = "idle" /\ reply'[p] = Nothing
      BY <1>1, <1>3, <2>4, <3>1, NewRows
    <3>. QED
      BY <1>4, <1>8, <3>2 DEF Creating
  <2>. QED
    BY <2>3, <2>4
<1>. QED
  BY <1>5, <1>12, <1>13 DEF InStep

\* A step in the cache keeps the invariant.
LEMMA InCacheInv ==
  ASSUME FileInv, NEW p \in Clients, InCache(p)
  PROVE  FileInv'
BY CacheKeepsRows, InCacheCalls, InCacheFile, InCacheInStep DEF FileInv

\* A step on the file is one of a call that has left the cache, and of a
\* process that runs.
LEMMA FileCall ==
  ASSUME FileInv, NEW p \in Clients, UNCHANGED <<cacheVars, up>>, Moves(p),
         stage[p] \in {"write", "snapshot", "truncate", "rewrite"},
         \/ stage'[p] = "idle" /\ request'[p] = NoCall /\ todo'[p] = <<>>
         \/ /\ request'[p] = request[p]
            /\ \/ stage[p] = "write" /\ stage'[p] = "write"
               \/ /\ stage[p] # "write" /\ stage'[p] \in {"truncate", "rewrite"}
            /\ \A n \in DOMAIN todo'[p] : LinkIn(storage, todo'[p][n])
  PROVE  /\ CacheInv' /\ Calls' /\ Down' /\ CacheDone'
         /\ UNCHANGED <<storage, pc, call, i>>
         /\ up /\ request[p] \in Requests /\ pc[p] = "idle"
         /\ stage[p] # "write" => p = Deleter /\ request[p].op = "softDelete"
         /\ stage[p] = "write" => request[p].op \in {"create", "createBatch"}
         /\ \A q \in Clients : \A n \in DOMAIN todo'[q] :
              LinkIn(storage, todo'[q][n])
<1>1. UNCHANGED <<storage, originalMap, mu, pc, call, i>> /\ UNCHANGED up
  BY DEF cacheVars, vars
<1>2. CacheInv'
  BY NextCacheInv DEF cacheVars, FileInv
<1>3. stage[p] # "idle"
  OBVIOUS
<1>4. up
  BY <1>3 DEF FileInv, Down, FileTypes
<1>5. request[p] \in Requests /\ pc[p] = "idle"
  BY DEF FileInv, Calls, FileTypes, CacheInv, TypeOK
<1>6. /\ stage[p] # "write" => p = Deleter /\ request[p].op = "softDelete"
      /\ stage[p] = "write" => request[p].op \in {"create", "createBatch"}
  BY DEF FileInv, Calls
<1>7. Calls'
  <2>1. ASSUME NEW q \in Clients
        PROVE  /\ stage'[q] = "cache" <=> pc'[q] # "idle"
               /\ stage'[q] = "idle" <=> request'[q] = NoCall
               /\ stage'[q] = "cache" => request'[q] = call'[q]
               /\ stage'[q] \in {"idle", "cache", "snapshot"} => todo'[q] = <<>>
               /\ stage'[q] = "write" =>
                    request'[q].op \in {"create", "createBatch"}
               /\ stage'[q] \in {"snapshot", "truncate", "rewrite"} =>
                    request'[q].op = "softDelete"
               /\ stage'[q] # "idle" /\ request'[q].op = "softDelete" =>
                    q = Deleter
    <3>1. CASE q = p
      BY <1>1, <1>5, <1>6, <3>1, NoCallAssumption
    <3>2. CASE q # p
      BY <1>1, <3>2 DEF Moves, FileInv, Calls
    <3>. QED
      BY <3>1, <3>2
  <2>. QED
    BY <2>1 DEF Calls
<1>8. Down'
  BY <1>1, <1>4 DEF Down
<1>9. CacheDone'
  BY <1>1 DEF FileInv, CacheDone, Moves, Has, HasDeleted
<1>10. \A q \in Clients : \A n \in DOMAIN todo'[q] : LinkIn(storage, todo'[q][n])
  <2>1. ASSUME NEW q \in Clients, q # p, NEW n \in DOMAIN todo'[q]
        PROVE  LinkIn(storage, todo'[q][n])
    BY <1>4, <2>1 DEF Moves, FileInv, Links
  <2>2. DOMAIN <<>> = {}
    OBVIOUS
  <2>3. \A n \in DOMAIN todo'[p] : LinkIn(storage, todo'[p][n])
    BY <2>2
  <2>. QED
    BY <2>1, <2>3
<1>. QED
  BY <1>1, <1>2, <1>4, <1>5, <1>6, <1>7, <1>8, <1>9, <1>10

\* What the lines of the file and the rows to write need for Links.
LEMMA LinksOf ==
  ASSUME NEW lines \in Seq(ShortenedURL),
         \A n \in DOMAIN lines : LinkIn(storage, lines[n])
  PROVE  \A m, n \in DOMAIN lines :
           lines[m].shortCode = lines[n].shortCode => SameLink(lines[m], lines[n])
BY DEF LinkIn, SameLink

\* A line that is added to the file.
LEMMA AppendedLine ==
  ASSUME FileInv, up, NEW row \in ShortenedURL, LinkIn(storage, row),
         file' = Append(file, row)
  PROVE  /\ file' \in Seq(ShortenedURL)
         /\ \A n \in DOMAIN file' : LinkIn(storage, file'[n])
<1>1. file \in Seq(ShortenedURL)
  BY DEF FileInv, FileTypes
<1>2. /\ file' \in Seq(ShortenedURL) /\ DOMAIN file' = 1 .. Len(file) + 1
      /\ Len(file) \in Nat /\ DOMAIN file = 1 .. Len(file)
      /\ file'[Len(file) + 1] = row
      /\ \A n \in 1 .. Len(file) : file'[n] = file[n]
  BY <1>1, AppendProperties
<1>3. ASSUME NEW n \in DOMAIN file' PROVE LinkIn(storage, file'[n])
  <2>1. CASE n = Len(file) + 1
    BY <1>2, <2>1
  <2>2. CASE n \in 1 .. Len(file)
    BY <1>2, <2>2 DEF FileInv, Links
  <2>. QED
    BY <1>2, <1>3, <2>1, <2>2
<1>. QED
  BY <1>2, <1>3

\* The first of the rows to write is a row with the link of its code.
LEMMA NextRow ==
  ASSUME FileInv, up, NEW p \in Clients, todo[p] # <<>>
  PROVE  /\ todo[p] \in Seq(ShortenedURL) /\ Tail(todo[p]) \in Seq(ShortenedURL)
         /\ Head(todo[p]) \in ShortenedURL /\ Head(todo[p]).shortCode \in ShortCodes
         /\ LinkIn(storage, Head(todo[p]))
         /\ \A n \in DOMAIN Tail(todo[p]) : LinkIn(storage, Tail(todo[p])[n])
<1>1. todo[p] \in Seq(ShortenedURL)
  BY DEF FileInv, FileTypes
<1>2. \A n \in DOMAIN todo[p] : LinkIn(storage, todo[p][n])
  BY DEF FileInv, Links
<1>3. /\ Head(todo[p]) \in ShortenedURL /\ Tail(todo[p]) \in Seq(ShortenedURL)
      /\ Head(todo[p]) = todo[p][1] /\ 1 \in DOMAIN todo[p]
      /\ \A n \in DOMAIN Tail(todo[p]) :
           n + 1 \in DOMAIN todo[p] /\ Tail(todo[p])[n] = todo[p][n + 1]
  BY <1>1, HeadCodes
<1>. QED
  BY <1>1, <1>2, <1>3 DEF ShortenedURL

\* What a snapshot has of a code is what the cache has, until the truncation.
LEMMA SnapshotHasRow ==
  ASSUME FileTypes, SnapshotIsWhole, stage[Deleter] = "truncate",
         NEW c \in CodesOf(todo[Deleter])
  PROVE  c \in ShortCodes /\ Snapshotted[c] = storage[c]
<1>1. todo[Deleter] \in Seq(ShortenedURL)
  BY DeleterAssumption DEF FileTypes
<1>2. PICK n \in DOMAIN todo[Deleter] : todo[Deleter][n].shortCode = c
  BY DEF CodesOf
<1>3. \A m, k \in DOMAIN todo[Deleter] :
        todo[Deleter][m].shortCode = todo[Deleter][k].shortCode => m = k
  BY DEF SnapshotIsWhole
<1>4. Restored(todo[Deleter])[todo[Deleter][n].shortCode] = todo[Deleter][n]
  BY <1>1, <1>3, RestoredDistinct
<1>5. storage[todo[Deleter][n].shortCode] = todo[Deleter][n]
  BY DEF SnapshotIsWhole
<1>. QED
  BY <1>1, <1>2, <1>4, <1>5, RowCodes DEF Snapshotted

\* One append of a create or a batch.
LEMMA WriteInv ==
  ASSUME FileInv, NEW p \in Clients, Write(p)
  PROVE  FileInv'
<1>. DEFINE row == Head(todo[p])
<1>1. /\ stage[p] = "write" /\ fsMu \in {Nobody, p}
      /\ UNCHANGED <<torn, broken, up, cacheVars>>
      /\ \/ /\ Len(todo[p]) <= 1 /\ fsMu' = Nobody /\ Succeed(p)
         \/ /\ Len(todo[p]) > 1 /\ fsMu' = p /\ UNCHANGED promised
            /\ Enter(p, "write", Tail(todo[p]))
      /\ todo[p] = <<>> => UNCHANGED <<file, diverged, lost>>
      /\ todo[p] # <<>> =>
           /\ file' = Append(file, row)
           /\ diverged' = IF storage[row.shortCode] # row \/ Dropped(row)
                            THEN diverged \cup {row.shortCode} ELSE diverged
           /\ lost' = IF promised[row.shortCode] = "deleted" \/ Dropped(row)
                        THEN lost \cup {row.shortCode} ELSE lost
  BY DEF Write, MayWrite
<1>2. FileTypes
  BY DEF FileInv
<1>3. up /\ todo[p] \in Seq(ShortenedURL)
  BY <1>1, <1>2 DEF FileInv, Down, FileTypes
<1>4. Len(todo[p]) > 1 => todo[p] # <<>>
  <2>1. Len(<<>>) = 0
    OBVIOUS
  <2>. QED
    BY <2>1
<1>5. todo[p] # <<>> =>
        /\ Tail(todo[p]) \in Seq(ShortenedURL)
        /\ row \in ShortenedURL /\ row.shortCode \in ShortCodes
        /\ LinkIn(storage, row)
        /\ \A n \in DOMAIN Tail(todo[p]) : LinkIn(storage, Tail(todo[p])[n])
        /\ CodesOf(todo[p]) = {row.shortCode} \cup CodesOf(Tail(todo[p]))
        /\ Len(todo[p]) <= 1 => CodesOf(todo[p]) = {row.shortCode}
  BY <1>3, NextRow, HeadCodes
<1>6. /\ Moves(p)
      /\ \/ /\ stage'[p] = "idle" /\ request'[p] = NoCall /\ todo'[p] = <<>>
            /\ fsMu' = Nobody /\ Len(todo[p]) <= 1
         \/ /\ request'[p] = request[p] /\ stage'[p] = "write"
            /\ todo'[p] = Tail(todo[p]) /\ fsMu' = p /\ todo[p] # <<>>
      /\ stage' \in [Clients -> {"idle", "cache", "write", "snapshot",
                                "truncate", "rewrite"}]
      /\ request' \in [Clients -> Requests \cup {NoCall}]
      /\ todo' \in [Clients -> Seq(ShortenedURL)]
      /\ answer' \in [Clients -> Answer \cup {DiskError}]
  <2>1. CASE Succeed(p) /\ Len(todo[p]) <= 1 /\ fsMu' = Nobody
    BY <1>2, <2>1, SucceedPromises, FinishMoves
  <2>2. CASE Len(todo[p]) > 1 /\ fsMu' = p /\ Enter(p, "write", Tail(todo[p]))
    BY <1>2, <1>4, <1>5, <2>2, EnterMoves
  <2>. QED
    BY <1>1, <2>1, <2>2
<1>7. /\ promised' \in [ShortCodes -> {"nothing", "stored", "deleted"}]
      /\ \A c \in ShortCodes :
           \/ promised'[c] = promised[c]
           \/ c \in CodesIn(request[p]) /\ promised'[c] = "stored"
      /\ \A c \in ShortCodes : promised[c] = "deleted" <=> promised'[c] = "deleted"
  <2>1. CASE UNCHANGED promised
    BY <1>2, <2>1 DEF FileTypes
  <2>2. CASE Succeed(p)
    <3>1. request[p].op # "softDelete"
      BY <1>1 DEF FileInv, Calls
    <3>. QED
      BY <1>2, <2>2, <3>1, SucceedPromises
  <2>. QED
    BY <1>1, <2>1, <2>2
<1>8. /\ CacheInv' /\ Calls' /\ Down' /\ CacheDone'
      /\ UNCHANGED <<storage, pc, call, i>>
      /\ request[p] \in Requests /\ pc[p] = "idle"
      /\ \A q \in Clients : \A n \in DOMAIN todo'[q] :
           LinkIn(storage, todo'[q][n])
  BY <1>1, <1>5, <1>6, FileCall
<1>9. /\ file' \in Seq(ShortenedURL)
      /\ \A n \in DOMAIN file' : LinkIn(storage, file'[n])
  <2>1. CASE todo[p] = <<>>
    BY <1>1, <1>2, <1>3, <2>1 DEF FileInv, Links, FileTypes
  <2>2. CASE todo[p] # <<>>
    BY <1>1, <1>3, <1>5, <2>2, AppendedLine
  <2>. QED
    BY <2>1, <2>2
<1>10. FileTypes'
  <2>2. diverged' \subseteq ShortCodes /\ lost' \subseteq ShortCodes
    BY <1>1, <1>2, <1>5 DEF FileTypes
  <2>3. fsMu' \in Clients \cup {Nobody}
    BY <1>6
  <2>. QED
    BY <1>1, <1>2, <1>6, <1>7, <1>9, <2>2, <2>3 DEF FileTypes
<1>11. Links'
  BY <1>3, <1>8, <1>9, LinksOf DEF Links, LinkIn
<1>12. FileLock'
  BY <1>1, <1>6, NobodyAssumption DEF Moves, FileInv, FileLock
<1>13. stage'[Deleter] \in {"truncate", "rewrite"} =>
         /\ p # Deleter
         /\ stage'[Deleter] = stage[Deleter] /\ todo'[Deleter] = todo[Deleter]
         /\ Snapshotted' = Snapshotted
  BY <1>6, DeleterAssumption DEF Moves, Snapshotted
<1>14. stage'[Deleter] # "rewrite"
  BY <1>1, <1>13, NobodyAssumption, DeleterAssumption DEF FileInv, FileLock
<1>15. SnapshotIsWhole'
  BY <1>8, <1>13, <1>14 DEF FileInv, SnapshotIsWhole, HasDeleted
<1>16. LinesToCome = file /\ LinesToCome' = file'
  BY <1>1, <1>6 DEF LinesToCome
<1>17. /\ todo[p] = <<>> => \A c \in ShortCodes : Future'[c] = Future[c]
       /\ todo[p] # <<>> =>
            \A c \in ShortCodes :
              Future'[c] = IF c = row.shortCode THEN row ELSE Future[c]
  <2>1. Future = Restored(file) /\ Future' = Restored(file')
    BY <1>16 DEF Future
  <2>2. CASE todo[p] = <<>>
    BY <1>1, <2>1, <2>2
  <2>3. CASE todo[p] # <<>>
    <3>1. file' = Append(file, row) /\ file \in Seq(ShortenedURL)
      BY <1>1, <1>2, <2>3 DEF FileTypes
    <3>2. row \in ShortenedURL
      BY <1>5, <2>3
    <3>. HIDE DEF row
    <3>3. \A c \in ShortCodes :
            Restored(file')[c] =
              IF c = row.shortCode THEN row ELSE Restored(file)[c]
      BY <3>1, <3>2, RestoredAppend
    <3>. QED
      BY <2>1, <2>3, <3>3
  <2>. QED
    BY <2>2, <2>3
<1>18. ASSUME todo[p] # <<>>, ~Dropped(row), stage'[Deleter] = "truncate"
       PROVE  row.shortCode \in CodesOf(todo[Deleter])
  BY <1>13, <1>18, DeleterAssumption DEF Dropped
<1>19. ASSUME NEW c \in ShortCodes, Written(c)'
       PROVE  Written(c) \/ (todo[p] # <<>> /\ c = row.shortCode)
  <2>1. ASSUME NEW q \in Clients \ {p}, stage'[q] = "write",
               c \in CodesIn(request'[q]) \ CodesOf(todo'[q])
        PROVE  Written(c)
    BY <1>6, <2>1 DEF Moves, Written
  <2>2. CodesOf(<<>>) = {}
    BY DEF CodesOf
  <2>3. ASSUME c \in CodesIn(request[p])
        PROVE  Written(c) \/ c \in CodesOf(todo[p])
    BY <1>1, <2>3 DEF Written
  <2>4. CASE stage'[p] = "write" /\ c \in CodesIn(request'[p]) \ CodesOf(todo'[p])
    BY <1>5, <1>6, <2>3, <2>4
  <2>5. CASE promised'[c] # "nothing"
    <3>1. CASE promised'[c] = promised[c]
      BY <2>5, <3>1 DEF Written
    <3>2. CASE promised'[c] # promised[c]
      <4>1. c \in CodesIn(request[p]) /\ Succeed(p) /\ Len(todo[p]) <= 1
        BY <1>1, <1>7, <3>2
      <4>. QED
        BY <1>5, <2>2, <2>3, <4>1
    <3>. QED
      BY <3>1, <3>2
  <2>. QED
    BY <1>19, <2>1, <2>4, <2>5 DEF Written
<1>20. Durable'
  <2>. SUFFICES ASSUME NEW c \in ShortCodes
       PROVE  /\ promised'[c] # "nothing" => Has(storage', c)
              /\ promised'[c] = "deleted" => HasDeleted(storage', c)
              /\ c \notin lost' =>
                   /\ stage'[Deleter] = "truncate" /\ Written(c)' =>
                        Has(Snapshotted', c)
                   /\ Written(c)' => Has(Future', c)
                   /\ promised'[c] = "deleted" => HasDeleted(Future', c)
    BY DEF Durable, Has, HasDeleted
  <2>1. /\ lost \subseteq lost'
        /\ todo[p] # <<>> /\ c = row.shortCode /\ c \notin lost' =>
             promised[c] # "deleted" /\ ~Dropped(row)
    BY <1>1
  <2>3. /\ promised[c] # "nothing" => Has(storage, c)
        /\ promised[c] = "deleted" => HasDeleted(storage, c)
        /\ c \notin lost' =>
             /\ stage[Deleter] = "truncate" /\ Written(c) => Has(Snapshotted, c)
             /\ Written(c) => Has(Future, c)
             /\ promised[c] = "deleted" => HasDeleted(Future, c)
    BY <1>3, <2>1 DEF FileInv, Durable
  <2>4. c \in CodesIn(request[p]) => Has(storage, c)
    BY <1>1 DEF FileInv, CacheDone
  <2>5. /\ promised'[c] # "nothing" => Has(storage', c)
        /\ promised'[c] = "deleted" => HasDeleted(storage', c)
    BY <1>7, <1>8, <2>3, <2>4 DEF Has, HasDeleted
  <2>6. ASSUME c \notin lost', stage'[Deleter] = "truncate", Written(c)'
        PROVE  Has(Snapshotted', c)
    <3>1. CASE Written(c)
      BY <1>13, <2>3, <2>6, <3>1 DEF Has
    <3>2. CASE todo[p] # <<>> /\ c = row.shortCode
      <4>2. c \in CodesOf(todo[Deleter])
        BY <1>18, <2>1, <2>6, <3>2
      <4>3. todo[Deleter] \in Seq(ShortenedURL)
        BY <1>2, DeleterAssumption DEF FileTypes
      <4>4. Restored(todo[Deleter])[c] # NoRow
        BY <4>2, <4>3, RestoredRow
      <4>. QED
        BY <1>13, <2>6, <4>4 DEF Has, Snapshotted
    <3>. QED
      BY <1>19, <2>6, <3>1, <3>2
  <2>7. ASSUME c \notin lost', Written(c)' PROVE Has(Future', c)
    BY <1>1, <1>5, <1>17, <1>19, <2>3, <2>7, NoRowAssumption DEF Has
  <2>8. ASSUME c \notin lost', promised'[c] = "deleted" PROVE HasDeleted(Future', c)
    <3>1. promised[c] = "deleted"
      BY <1>7, <2>8
    <3>2. HasDeleted(Future, c) /\ ~(todo[p] # <<>> /\ c = row.shortCode)
      BY <2>1, <2>3, <2>8, <3>1
    <3>. QED
      BY <1>17, <3>2 DEF HasDeleted
  <2>. QED
    BY <2>5, <2>6, <2>7, <2>8
<1>21. InStep'
  <2>. SUFFICES ASSUME NEW c \in ShortCodes \ diverged'
       PROVE  /\ Future'[c] = storage'[c] \/ Creating(c)' \/ Deleting(c)'
              /\ stage'[Deleter] = "truncate" =>
                   Snapshotted'[c] = storage'[c] \/ Creating(c)'
    BY DEF InStep
  <2>1. c \notin diverged
    BY <1>1
  <2>2. todo[p] # <<>> /\ c = row.shortCode =>
          storage[c] = row /\ ~Dropped(row)
    BY <1>1
  <2>3. /\ Future[c] = storage[c] \/ Creating(c) \/ Deleting(c)
        /\ stage[Deleter] = "truncate" =>
             Snapshotted[c] = storage[c] \/ Creating(c)
    BY <1>3, <2>1 DEF FileInv, InStep
  <2>4. Creating(c) => Creating(c)' \/ (todo[p] # <<>> /\ c = row.shortCode)
    <3>1. ASSUME NEW q \in Clients,
                 \/ q # p /\ stage[q] = "write" /\ c \in CodesOf(todo[q])
                 \/ pc[q] = "setting" /\ c \in CodesOf(call[q].rows)
          PROVE  Creating(c)'
      BY <1>6, <1>8, <3>1 DEF Moves, Creating
    <3>2. CodesOf(<<>>) = {}
      BY DEF CodesOf
    <3>3. ASSUME c \in CodesOf(todo[p])
          PROVE  Creating(c)' \/ (todo[p] # <<>> /\ c = row.shortCode)
      <4>1. todo[p] # <<>>
        BY <3>2, <3>3
      <4>2. CASE c \in CodesOf(Tail(todo[p])) /\ stage'[p] = "write"
        BY <1>6, <4>2 DEF Creating
      <4>. QED
        BY <1>5, <1>6, <3>3, <4>1, <4>2
    <3>. QED
      BY <3>1, <3>3 DEF Creating
  <2>5. Deleting(c) => Deleting(c)'
    <3>1. Deleting(c) => Deleter # p
      BY <1>1, <1>8 DEF Deleting
    <3>2. Deleter # p => /\ stage'[Deleter] = stage[Deleter]
                         /\ request'[Deleter] = request[Deleter]
                         /\ MarkedSoFar(Deleter)' = MarkedSoFar(Deleter)
      BY <1>6, <1>8, DeleterAssumption DEF Moves, MarkedSoFar
    <3>. QED
      BY <1>8, <3>1, <3>2 DEF Deleting
  <2>6. Future'[c] = storage'[c] \/ Creating(c)' \/ Deleting(c)'
    <3>1. CASE todo[p] # <<>> /\ c = row.shortCode
      BY <1>8, <1>17, <2>2, <3>1
    <3>2. CASE ~(todo[p] # <<>> /\ c = row.shortCode)
      BY <1>8, <1>17, <2>3, <2>4, <2>5, <3>2
    <3>. QED
      BY <3>1, <3>2
  <2>7. ASSUME stage'[Deleter] = "truncate"
        PROVE  Snapshotted'[c] = storage'[c] \/ Creating(c)'
    <3>1. CASE todo[p] # <<>> /\ c = row.shortCode
      <4>1. c \in CodesOf(todo[Deleter])
        BY <1>18, <2>2, <2>7, <3>1
      <4>2. Snapshotted[c] = storage[c]
        BY <1>13, <2>7, <4>1, SnapshotHasRow DEF FileInv
      <4>. QED
        BY <1>8, <1>13, <2>7, <4>2
    <3>2. CASE ~(todo[p] # <<>> /\ c = row.shortCode)
      BY <1>8, <1>13, <2>3, <2>4, <2>7, <3>2
    <3>. QED
      BY <3>1, <3>2
  <2>. QED
    BY <2>6, <2>7
<1>. QED
  BY <1>8, <1>10, <1>11, <1>12, <1>15, <1>20, <1>21 DEF FileInv

\* Written codes, and what is on its way, after a step that ends no create
\* and starts none.
LEMMA WrittenStays ==
  ASSUME NEW p \in Clients, Moves(p), UNCHANGED promised, stage'[p] # "write",
         NEW c, Written(c)'
  PROVE  Written(c)
BY DEF Written, Moves

\* A create that is on its way to the file stays so while others move.
LEMMA CreatingStays ==
  ASSUME NEW p \in Clients, Moves(p), UNCHANGED <<pc, call>>,
         stage[p] # "write", NEW c, Creating(c)
  PROVE  Creating(c)'
<1>1. ASSUME NEW q \in Clients, stage[q] = "write" /\ c \in CodesOf(todo[q])
      PROVE  Creating(c)'
  BY <1>1 DEF Moves, Creating
<1>2. ASSUME NEW q \in Clients, pc[q] = "setting" /\ c \in CodesOf(call[q].rows)
      PROVE  Creating(c)'
  BY <1>2 DEF Creating
<1>. QED
  BY <1>1, <1>2 DEF Creating

\* An append that fails leaves the file as it was.
LEMMA WriteFailsInv ==
  ASSUME FileInv, NEW p \in Clients, WriteFails(p)
  PROVE  FileInv'
<1>1. /\ stage[p] = "write" /\ fsMu \in {Nobody, p}
      /\ torn' \in {torn, TRUE} /\ broken' = TRUE /\ fsMu' = Nobody
      /\ Finish(p, DiskError) /\ diverged' = diverged \cup CodesOf(todo[p])
      /\ UNCHANGED <<file, up, cacheVars, promised, lost>>
  BY DEF WriteFails, MayWrite
<1>2. FileTypes
  BY DEF FileInv
<1>3. /\ Moves(p)
      /\ stage'[p] = "idle" /\ request'[p] = NoCall /\ todo'[p] = <<>>
      /\ stage' \in [Clients -> {"idle", "cache", "write", "snapshot",
                                "truncate", "rewrite"}]
      /\ request' \in [Clients -> Requests \cup {NoCall}]
      /\ todo' \in [Clients -> Seq(ShortenedURL)]
      /\ answer' \in [Clients -> Answer \cup {DiskError}]
  BY <1>1, <1>2, FinishMoves
<1>4. /\ CacheInv' /\ Calls' /\ Down' /\ CacheDone' /\ up /\ pc[p] = "idle"
      /\ UNCHANGED <<storage, pc, call, i>>
      /\ \A q \in Clients : \A n \in DOMAIN todo'[q] :
           LinkIn(storage, todo'[q][n])
  BY <1>1, <1>3, FileCall
<1>5. FileTypes'
  <2>1. diverged' \subseteq ShortCodes
    BY <1>1, <1>2, RowCodes DEF FileTypes
  <2>. QED
    BY <1>1, <1>2, <1>3, <2>1 DEF FileTypes
<1>6. Links'
  BY <1>1, <1>4 DEF FileInv, Links, LinkIn
<1>7. FileLock'
  BY <1>1, <1>3, NobodyAssumption DEF Moves, FileInv, FileLock
<1>8. stage'[Deleter] \in {"truncate", "rewrite"} =>
        /\ stage'[Deleter] = stage[Deleter] /\ Snapshotted' = Snapshotted
        /\ todo'[Deleter] = todo[Deleter] /\ stage[Deleter] # "rewrite"
  BY <1>1, <1>3, NobodyAssumption, DeleterAssumption
  DEF Moves, Snapshotted, FileInv, FileLock
<1>9. SnapshotIsWhole'
  BY <1>4, <1>8 DEF FileInv, SnapshotIsWhole, HasDeleted
<1>10. Future' = Future
  <2>1. LinesToCome = file /\ LinesToCome' = file
    BY <1>1 DEF LinesToCome
  <2>. QED
    BY <2>1 DEF Future
<1>11. \A c : Written(c)' => Written(c)
  BY <1>1, <1>3, WrittenStays
<1>13. Durable'
  BY <1>1, <1>4, <1>8, <1>10, <1>11 DEF FileInv, Durable, Has, HasDeleted
<1>14. InStep'
  <2>1. ASSUME NEW c \in ShortCodes \ diverged', Creating(c) PROVE Creating(c)'
    <3>1. c \notin CodesOf(todo[p])
      BY <1>1
    <3>. QED
      BY <1>3, <1>4, <2>1, <3>1 DEF Creating, Moves
  <2>2. ASSUME NEW c, Deleting(c) PROVE Deleting(c)'
    <3>1. Deleter # p
      BY <1>1, <1>4, <2>2 DEF Deleting
    <3>. QED
      BY <1>3, <1>4, <2>2, <3>1, DeleterAssumption DEF Deleting, Moves, MarkedSoFar
  <2>. QED
    BY <1>1, <1>4, <1>8, <1>10, <2>1, <2>2 DEF FileInv, InStep
<1>. QED
  BY <1>4, <1>5, <1>6, <1>7, <1>9, <1>13, <1>14 DEF FileInv

\* The snapshot is the table of its time.
LEMMA SnapshotInv ==
  ASSUME FileInv, NEW p \in Clients, Snapshot(p)
  PROVE  FileInv'
<1>1. PICK rows \in SetToSeqs(Stored) :
        /\ stage[p] = "snapshot" /\ Enter(p, "truncate", rows)
        /\ UNCHANGED <<file, torn, broken, fsMu, up, cacheVars, promised,
                       diverged, lost>>
  BY DEF Snapshot, fileVars, auxVars
<1>2. FileTypes /\ CacheInv
  BY DEF FileInv
<1>3. /\ rows \in Seq(ShortenedURL)
      /\ \A m, n \in DOMAIN rows : rows[m].shortCode = rows[n].shortCode => m = n
      /\ \A n \in DOMAIN rows : storage[rows[n].shortCode] = rows[n]
      /\ \A c \in ShortCodes : Restored(rows)[c] = storage[c]
  BY <1>2, SnapshotRows
<1>4. /\ Moves(p)
      /\ stage'[p] = "truncate" /\ request'[p] = request[p] /\ todo'[p] = rows
      /\ stage' \in [Clients -> {"idle", "cache", "write", "snapshot",
                                "truncate", "rewrite"}]
      /\ request' \in [Clients -> Requests \cup {NoCall}]
      /\ todo' \in [Clients -> Seq(ShortenedURL)]
      /\ answer' \in [Clients -> Answer \cup {DiskError}]
  BY <1>1, <1>2, <1>3, EnterMoves
<1>5. \A n \in DOMAIN rows : LinkIn(storage, rows[n])
  <2>1. \A n \in DOMAIN rows : rows[n] \in ShortenedURL
    BY <1>3
  <2>. QED
    BY <1>3, <2>1, NoRowAssumption DEF LinkIn, SameLink
<1>6. /\ CacheInv' /\ Calls' /\ Down' /\ CacheDone'
      /\ UNCHANGED <<storage, pc, call, i>>
      /\ up /\ p = Deleter /\ pc[p] = "idle"
      /\ \A q \in Clients : \A n \in DOMAIN todo'[q] :
           LinkIn(storage, todo'[q][n])
  BY <1>1, <1>4, <1>5, FileCall
<1>7. FileTypes'
  BY <1>1, <1>2, <1>4 DEF FileTypes
<1>8. Links'
  BY <1>1, <1>6 DEF FileInv, Links, LinkIn
<1>9. fsMu # p
  BY <1>1, NobodyAssumption DEF FileInv, FileLock
<1>10. FileLock'
  <2>1. ASSUME NEW q \in Clients
        PROVE  /\ stage'[q] = "rewrite" => fsMu' = q
               /\ stage'[q] = "write" /\ fsMu' # q =>
                    todo'[q] = RowsOf(request'[q])
    BY <1>1, <1>4, <2>1 DEF Moves, FileInv, FileLock
  <2>2. fsMu' # Nobody => stage'[fsMu'] \in {"write", "rewrite"}
    BY <1>1, <1>2, <1>4, <1>9 DEF Moves, FileInv, FileLock, FileTypes
  <2>. QED
    BY <2>1, <2>2 DEF FileLock
<1>11. Snapshotted' = Restored(rows)
  BY <1>4, <1>6 DEF Snapshotted
<1>12. SnapshotIsWhole'
  BY <1>3, <1>4, <1>6, <1>11 DEF SnapshotIsWhole, HasDeleted
<1>13. Future' = Future
  BY <1>1, <1>2, <1>4, <1>9, FutureStays
<1>14. \A c : Written(c)' => Written(c)
  BY <1>1, <1>4, WrittenStays
<1>15. ASSUME NEW c \in ShortCodes, Written(c) PROVE Has(storage, c)
  BY <1>6, <1>15 DEF FileInv, Durable, CacheDone, Written
<1>16. Durable'
  BY <1>1, <1>3, <1>6, <1>11, <1>13, <1>14, <1>15
  DEF FileInv, Durable, Has, HasDeleted
<1>17. InStep'
  <2>1. \A c : Creating(c) => Creating(c)'
    BY <1>1, <1>4, <1>6, CreatingStays
  <2>2. \A c : Deleting(c) => Deleting(c)'
    BY <1>1, <1>4, <1>6 DEF Deleting
  <2>. QED
    BY <1>1, <1>3, <1>6, <1>11, <1>13, <2>1, <2>2 DEF FileInv, InStep
<1>. QED
  BY <1>6, <1>7, <1>8, <1>10, <1>12, <1>16, <1>17 DEF FileInv

\* The file is emptied for a snapshot that still has all promised rows.
LEMMA TruncateInv ==
  ASSUME FileInv, NEW p \in Clients, Truncate(p)
  PROVE  FileInv'
<1>1. /\ stage[p] = "truncate" /\ fsMu = Nobody /\ fsMu' = p
      /\ file' = <<>> /\ torn' = FALSE /\ Enter(p, "rewrite", todo[p])
      /\ lost' = lost \ CodesOf(todo[p]) /\ diverged' = diverged \ CodesOf(todo[p])
      /\ UNCHANGED <<broken, up, cacheVars, promised>>
  BY DEF Truncate
<1>2. FileTypes /\ todo[p] \in Seq(ShortenedURL)
  BY DEF FileInv, FileTypes
<1>3. /\ Moves(p)
      /\ stage'[p] = "rewrite" /\ request'[p] = request[p] /\ todo'[p] = todo[p]
      /\ stage' \in [Clients -> {"idle", "cache", "write", "snapshot",
                                "truncate", "rewrite"}]
      /\ request' \in [Clients -> Requests \cup {NoCall}]
      /\ todo' \in [Clients -> Seq(ShortenedURL)]
      /\ answer' \in [Clients -> Answer \cup {DiskError}]
  BY <1>1, <1>2, EnterMoves
<1>4. up
  BY <1>1, <1>2 DEF FileInv, Down, FileTypes
<1>5. \A n \in DOMAIN todo[p] : LinkIn(storage, todo[p][n])
  BY <1>4 DEF FileInv, Links
<1>6. /\ CacheInv' /\ Calls' /\ Down' /\ CacheDone'
      /\ UNCHANGED <<storage, pc, call, i>>
      /\ p = Deleter /\ pc[p] = "idle"
      /\ \A q \in Clients : \A n \in DOMAIN todo'[q] :
           LinkIn(storage, todo'[q][n])
  BY <1>1, <1>3, <1>5, FileCall
<1>7. <<>> \in Seq(ShortenedURL) /\ DOMAIN <<>> = {}
  OBVIOUS
<1>8. FileTypes'
  BY <1>1, <1>2, <1>3, <1>7 DEF FileTypes
<1>9. Links'
  BY <1>1, <1>6, <1>7 DEF Links, LinkIn
<1>10. FileLock'
  <2>1. ASSUME NEW q \in Clients, q # p
        PROVE  /\ stage'[q] # "rewrite"
               /\ stage'[q] = "write" => todo'[q] = RowsOf(request'[q])
    BY <1>1, <1>3, <2>1, NobodyAssumption DEF Moves, FileInv, FileLock
  <2>. QED
    BY <1>1, <1>3, <2>1 DEF FileLock
<1>11. Future' = Snapshotted
  <2>1. p # Nobody
    BY NobodyAssumption
  <2>2. LinesToCome' = <<>> \o todo[p]
    BY <1>1, <1>3, <2>1 DEF LinesToCome
  <2>3. <<>> \o todo[p] = todo[p]
    BY <1>2, ConcatEmptySeq
  <2>. QED
    BY <1>6, <2>2, <2>3 DEF Future, Snapshotted
<1>12. \A c \in ShortCodes : HasDeleted(storage, c) => HasDeleted(Snapshotted, c)
  BY <1>1, <1>6 DEF FileInv, SnapshotIsWhole
<1>13. \A c : Written(c)' => Written(c)
  BY <1>1, <1>3, WrittenStays
<1>14. SnapshotIsWhole'
  <2>1. \A c \in ShortCodes : HasDeleted(storage', c) => HasDeleted(Future', c)
    BY <1>6, <1>11, <1>12 DEF HasDeleted
  <2>. QED
    BY <1>3, <1>6, <2>1 DEF SnapshotIsWhole, HasDeleted
<1>14a. \A c \in ShortCodes : c \in CodesOf(todo[p]) => Has(Snapshotted, c)
  BY <1>2, <1>6, RestoredRow DEF Snapshotted, Has
<1>15. Durable'
  <2>. SUFFICES ASSUME NEW c \in ShortCodes
       PROVE  /\ promised'[c] # "nothing" => Has(storage', c)
              /\ promised'[c] = "deleted" => HasDeleted(storage', c)
              /\ c \notin lost' =>
                   /\ Written(c)' => Has(Future', c)
                   /\ promised'[c] = "deleted" => HasDeleted(Future', c)
    BY <1>3, <1>6 DEF Durable, Has, HasDeleted
  <2>1. /\ promised[c] # "nothing" => Has(storage, c)
        /\ promised[c] = "deleted" => HasDeleted(storage, c)
        /\ c \notin lost /\ Written(c) => Has(Snapshotted, c)
    BY <1>1, <1>4, <1>6 DEF FileInv, Durable
  <2>2. c \notin lost' => c \notin lost \/ c \in CodesOf(todo[p])
    BY <1>1
  <2>. QED
    BY <1>1, <1>6, <1>11, <1>12, <1>13, <1>14a, <2>1, <2>2 DEF Has, HasDeleted
<1>16. InStep'
  <2>1. \A c : Creating(c) => Creating(c)'
    BY <1>1, <1>3, <1>6, CreatingStays
  <2>2. ASSUME NEW c \in ShortCodes \ diverged'
        PROVE  Snapshotted[c] = storage[c] \/ Creating(c)
    <3>1. CASE c \in CodesOf(todo[p])
      BY <1>1, <1>2, <1>6, <3>1, SnapshotHasRow DEF FileInv
    <3>2. CASE c \notin CodesOf(todo[p])
      BY <1>1, <1>4, <1>6, <3>2 DEF FileInv, InStep
    <3>. QED
      BY <3>1, <3>2
  <2>. QED
    BY <1>3, <1>6, <1>11, <2>1, <2>2 DEF InStep
<1>. QED
  BY <1>6, <1>8, <1>9, <1>10, <1>14, <1>15, <1>16 DEF FileInv

\* The truncation fails, or the seek after it.
LEMMA TruncateFailsInv ==
  ASSUME FileInv, NEW p \in Clients, TruncateFails(p)
  PROVE  FileInv'
<1>1. /\ stage[p] = "truncate" /\ fsMu = Nobody
      /\ \/ /\ UNCHANGED <<file, torn, lost>>
            /\ diverged' = diverged \cup CodesIn(request[p])
         \/ /\ file' = <<>> /\ torn' = FALSE /\ lost' = lost \cup CodesOf(file)
            /\ diverged' = diverged \cup CodesOf(file) \cup CodesIn(request[p])
      /\ Finish(p, DiskError)
      /\ UNCHANGED <<broken, fsMu, up, cacheVars, promised>>
  BY DEF TruncateFails
<1>2. FileTypes
  BY DEF FileInv
<1>3. /\ Moves(p)
      /\ stage'[p] = "idle" /\ request'[p] = NoCall /\ todo'[p] = <<>>
      /\ stage' \in [Clients -> {"idle", "cache", "write", "snapshot",
                                "truncate", "rewrite"}]
      /\ request' \in [Clients -> Requests \cup {NoCall}]
      /\ todo' \in [Clients -> Seq(ShortenedURL)]
      /\ answer' \in [Clients -> Answer \cup {DiskError}]
  BY <1>1, <1>2, FinishMoves
<1>4. /\ CacheInv' /\ Calls' /\ Down' /\ CacheDone' /\ up /\ p = Deleter
      /\ UNCHANGED <<storage, pc, call, i>> /\ pc[p] = "idle"
      /\ request[p] \in Requests /\ request[p].op = "softDelete"
      /\ \A q \in Clients : \A n \in DOMAIN todo'[q] :
           LinkIn(storage, todo'[q][n])
  BY <1>1, <1>3, FileCall
<1>5. <<>> \in Seq(ShortenedURL) /\ DOMAIN <<>> = {}
  OBVIOUS
<1>6. FileTypes'
  <2>1. CodesIn(request[p]) \subseteq ShortCodes
    BY <1>4, CallCodes
  <2>2. CodesOf(file) \subseteq ShortCodes
    BY <1>2, RowCodes DEF FileTypes
  <2>3. diverged' \subseteq ShortCodes /\ lost' \subseteq ShortCodes
    BY <1>1, <1>2, <2>1, <2>2 DEF FileTypes
  <2>. QED
    BY <1>1, <1>2, <1>3, <1>5, <2>3 DEF FileTypes
<1>7. Links'
  <2>1. CASE file' = file
    BY <1>1, <1>4, <2>1 DEF FileInv, Links, LinkIn
  <2>2. CASE file' = <<>>
    BY <1>1, <1>4, <1>5, <2>2 DEF Links, LinkIn
  <2>. QED
    BY <1>1, <2>1, <2>2
<1>8. FileLock'
  <2>1. ASSUME NEW q \in Clients, q # p
        PROVE  /\ stage'[q] = "rewrite" => fsMu' = q
               /\ stage'[q] = "write" => todo'[q] = RowsOf(request'[q])
    BY <1>1, <1>3, <2>1, NobodyAssumption DEF Moves, FileInv, FileLock
  <2>. QED
    BY <1>1, <1>3, <2>1 DEF FileLock
<1>9. SnapshotIsWhole'
  BY <1>3, <1>4 DEF SnapshotIsWhole
<1>10. LinesToCome = file /\ LinesToCome' = file'
  BY <1>1 DEF LinesToCome
<1>10a. Future = Restored(file) /\ Future' = Restored(file')
  BY <1>10 DEF Future
<1>10b. file' = file \/ \A c \in ShortCodes : c \notin CodesOf(file) =>
          Future[c] = NoRow /\ Future'[c] = NoRow
  BY <1>1, <1>2, <1>10a, RestoredRow, RestoredEmpty DEF FileTypes
<1>10c. \A c : Written(c)' => Written(c)
  BY <1>1, <1>3, WrittenStays
<1>10d. Durable'
  <2>. SUFFICES ASSUME NEW c \in ShortCodes
       PROVE  /\ promised'[c] # "nothing" => Has(storage', c)
              /\ promised'[c] = "deleted" => HasDeleted(storage', c)
              /\ c \notin lost' =>
                   /\ Written(c)' => Has(Future', c)
                   /\ promised'[c] = "deleted" => HasDeleted(Future', c)
    BY <1>3, <1>4 DEF Durable, Has, HasDeleted
  <2>1. /\ promised[c] # "nothing" => Has(storage, c)
        /\ promised[c] = "deleted" => HasDeleted(storage, c)
        /\ c \notin lost =>
             /\ Written(c) => Has(Future, c)
             /\ promised[c] = "deleted" => HasDeleted(Future, c)
    BY <1>4 DEF FileInv, Durable
  <2>2. CASE file' = file /\ lost' = lost
    BY <1>1, <1>4, <1>10a, <1>10c, <2>1, <2>2 DEF Has, HasDeleted
  <2>3. CASE file' = <<>> /\ lost' = lost \cup CodesOf(file)
    <3>1. c \notin lost' => ~Has(Future, c)
      BY <1>1, <1>2, <1>10a, <2>3, RestoredRow DEF FileTypes, Has
    <3>2. HasDeleted(Future, c) => Has(Future, c)
      BY DEF Has, HasDeleted
    <3>3. c \notin lost' => c \notin lost
      BY <2>3
    <3>. QED
      BY <1>1, <1>4, <1>10c, <2>1, <3>1, <3>2, <3>3 DEF Has, HasDeleted
  <2>. QED
    BY <1>1, <2>2, <2>3
<1>11. InStep'
  <2>1. \A c : Creating(c) => Creating(c)'
    BY <1>1, <1>3, <1>4, CreatingStays
  <2>2. ASSUME NEW c \in ShortCodes \ diverged' PROVE ~Deleting(c) /\ c \notin diverged
    BY <1>1, <1>4, <2>2 DEF Deleting
  <2>3. ASSUME NEW c \in ShortCodes \ diverged' PROVE Future'[c] = Future[c]
    BY <1>1, <1>10a, <1>10b, <2>3
  <2>4. stage'[Deleter] # "truncate"
    BY <1>3, <1>4
  <2>. QED
    BY <1>4, <2>1, <2>2, <2>3, <2>4 DEF FileInv, InStep
<1>. QED
  BY <1>4, <1>6, <1>7, <1>8, <1>9, <1>10d, <1>11 DEF FileInv

\* One line of the rewrite, or its end.
LEMMA RewriteInv ==
  ASSUME FileInv, NEW p \in Clients, Rewrite(p)
  PROVE  FileInv'
<1>1. /\ stage[p] = "rewrite"
      /\ UNCHANGED <<torn, broken, up, cacheVars, diverged, lost>>
  BY DEF Rewrite
<1>2. FileTypes /\ todo[p] \in Seq(ShortenedURL) /\ fsMu = p /\ p # Nobody
  BY <1>1, NobodyAssumption DEF FileInv, FileTypes, FileLock
<1>3. up
  BY <1>1, <1>2 DEF FileInv, Down, FileTypes
<1>4. LinesToCome = file \o todo[p]
  BY <1>1, <1>2 DEF LinesToCome
<1>5. CASE todo[p] # <<>> /\ file' = Append(file, Head(todo[p]))
           /\ Enter(p, "rewrite", Tail(todo[p])) /\ UNCHANGED <<fsMu, promised>>
  <2>1. /\ Tail(todo[p]) \in Seq(ShortenedURL)
        /\ Head(todo[p]) \in ShortenedURL /\ LinkIn(storage, Head(todo[p]))
        /\ \A n \in DOMAIN Tail(todo[p]) : LinkIn(storage, Tail(todo[p])[n])
    BY <1>3, <1>5, NextRow
  <2>2. /\ Moves(p)
        /\ stage'[p] = "rewrite" /\ request'[p] = request[p]
        /\ todo'[p] = Tail(todo[p])
        /\ stage' \in [Clients -> {"idle", "cache", "write", "snapshot",
                                  "truncate", "rewrite"}]
        /\ request' \in [Clients -> Requests \cup {NoCall}]
        /\ todo' \in [Clients -> Seq(ShortenedURL)]
        /\ answer' \in [Clients -> Answer \cup {DiskError}]
    BY <1>2, <1>5, <2>1, EnterMoves
  <2>3. /\ CacheInv' /\ Calls' /\ Down' /\ CacheDone'
        /\ UNCHANGED <<storage, pc, call, i>>
        /\ p = Deleter /\ pc[p] = "idle"
        /\ \A q \in Clients : \A n \in DOMAIN todo'[q] :
             LinkIn(storage, todo'[q][n])
    BY <1>1, <2>1, <2>2, FileCall
  <2>4. /\ file' \in Seq(ShortenedURL)
        /\ \A n \in DOMAIN file' : LinkIn(storage, file'[n])
    BY <1>3, <1>5, <2>1, AppendedLine
  <2>5. FileTypes'
    BY <1>1, <1>2, <1>5, <2>2, <2>4 DEF FileTypes
  <2>6. Links'
    BY <1>3, <2>3, <2>4, LinksOf DEF Links, LinkIn
  <2>7. FileLock'
    BY <1>1, <1>2, <1>5, <2>2 DEF Moves, FileInv, FileLock
  <2>8. Future' = Future
    <3>1. LinesToCome' = file' \o Tail(todo[p])
      BY <1>2, <1>5, <2>2 DEF LinesToCome
    <3>2. file' \o Tail(todo[p]) = file \o todo[p]
      BY <1>2, <1>5, NextLine DEF FileTypes
    <3>. QED
      BY <1>4, <3>1, <3>2 DEF Future
  <2>9. SnapshotIsWhole'
    BY <1>1, <2>2, <2>3, <2>8 DEF FileInv, SnapshotIsWhole, HasDeleted
  <2>10. \A c : Written(c)' => Written(c)
    BY <1>5, <2>2, WrittenStays
  <2>11. Durable'
    BY <1>1, <1>5, <2>2, <2>3, <2>8, <2>10 DEF FileInv, Durable, Has, HasDeleted
  <2>12. InStep'
    <3>1. \A c : Creating(c) => Creating(c)'
      BY <1>1, <2>2, <2>3, CreatingStays
    <3>2. \A c : ~Deleting(c)
      BY <1>1, <2>3 DEF Deleting
    <3>. QED
      BY <1>1, <1>3, <2>2, <2>3, <2>8, <3>1, <3>2 DEF FileInv, InStep
  <2>. QED
    BY <2>3, <2>5, <2>6, <2>7, <2>9, <2>11, <2>12 DEF FileInv
<1>6. CASE todo[p] = <<>> /\ fsMu' = Nobody /\ Succeed(p) /\ UNCHANGED file
  <2>1. /\ Finish(p, Nothing) /\ Nothing \in Answer \cup {DiskError}
        /\ promised' \in [ShortCodes -> {"nothing", "stored", "deleted"}]
        /\ \A c \in ShortCodes :
             /\ c \notin CodesIn(request[p]) => promised'[c] = promised[c]
             /\ c \in CodesIn(request[p]) =>
                  promised'[c] =
                    IF request[p].op = "softDelete" \/ promised[c] = "deleted"
                      THEN "deleted" ELSE "stored"
    BY <1>2, <1>6, SucceedPromises
  <2>2. /\ Moves(p)
        /\ stage'[p] = "idle" /\ request'[p] = NoCall /\ todo'[p] = <<>>
        /\ stage' \in [Clients -> {"idle", "cache", "write", "snapshot",
                                  "truncate", "rewrite"}]
        /\ request' \in [Clients -> Requests \cup {NoCall}]
        /\ todo' \in [Clients -> Seq(ShortenedURL)]
        /\ answer' \in [Clients -> Answer \cup {DiskError}]
    BY <1>2, <2>1, FinishMoves
  <2>3. /\ CacheInv' /\ Calls' /\ Down' /\ CacheDone'
        /\ UNCHANGED <<storage, pc, call, i>>
        /\ p = Deleter /\ pc[p] = "idle" /\ request[p].op = "softDelete"
        /\ \A q \in Clients : \A n \in DOMAIN todo'[q] :
             LinkIn(storage, todo'[q][n])
    BY <1>1, <2>2, FileCall
  <2>4. FileTypes'
    BY <1>1, <1>2, <1>6, <2>1, <2>2 DEF FileTypes
  <2>5. Links'
    BY <1>1, <1>6, <2>3 DEF FileInv, Links, LinkIn
  <2>6. FileLock'
    <3>1. ASSUME NEW q \in Clients, q # p
          PROVE  /\ stage'[q] # "rewrite"
                 /\ stage'[q] = "write" => todo'[q] = RowsOf(request'[q])
      BY <1>2, <2>2, <3>1 DEF Moves, FileInv, FileLock
    <3>. QED
      BY <1>6, <2>2, <3>1 DEF FileLock
  <2>7. Future' = Future
    <3>1. LinesToCome' = file
      BY <1>6 DEF LinesToCome
    <3>2. file \o <<>> = file
      BY <1>2, ConcatEmptySeq DEF FileTypes
    <3>. QED
      BY <1>4, <1>6, <3>1, <3>2 DEF Future
  <2>8. SnapshotIsWhole'
    BY <2>2, <2>3 DEF SnapshotIsWhole
  <2>9. \A c \in ShortCodes : promised'[c] = promised[c] \/
          (promised'[c] = "deleted" /\ c \in CodesIn(request[p]))
    BY <2>1, <2>3
  <2>10. \A c \in ShortCodes : c \in CodesIn(request[p]) =>
           HasDeleted(storage, c) /\ HasDeleted(Future, c)
    BY <1>1, <2>3 DEF FileInv, CacheDone, SnapshotIsWhole
  <2>11. ASSUME NEW c \in ShortCodes, Written(c)'
         PROVE  Written(c) \/ c \in CodesIn(request[p])
    BY <2>2, <2>9, <2>11 DEF Written, Moves
  <2>12. Durable'
    <3>. SUFFICES ASSUME NEW c \in ShortCodes
         PROVE  /\ promised'[c] # "nothing" => Has(storage', c)
                /\ promised'[c] = "deleted" => HasDeleted(storage', c)
                /\ c \notin lost' =>
                     /\ Written(c)' => Has(Future', c)
                     /\ promised'[c] = "deleted" => HasDeleted(Future', c)
      BY <2>2, <2>3 DEF Durable, Has, HasDeleted
    <3>1. /\ promised[c] # "nothing" => Has(storage, c)
          /\ promised[c] = "deleted" => HasDeleted(storage, c)
          /\ c \notin lost' =>
               /\ Written(c) => Has(Future, c)
               /\ promised[c] = "deleted" => HasDeleted(Future, c)
      BY <1>1, <1>3 DEF FileInv, Durable
    <3>2. /\ HasDeleted(storage, c) => Has(storage, c)
          /\ HasDeleted(Future, c) => Has(Future, c)
      BY DEF Has, HasDeleted
    <3>. QED
      BY <2>3, <2>7, <2>9, <2>10, <2>11, <3>1, <3>2 DEF Has, HasDeleted
  <2>13. InStep'
    <3>1. \A c : Creating(c) => Creating(c)'
      BY <1>1, <2>2, <2>3, CreatingStays
    <3>2. \A c : ~Deleting(c)
      BY <1>1, <2>3 DEF Deleting
    <3>. QED
      BY <1>1, <1>3, <2>2, <2>3, <2>7, <3>1, <3>2 DEF FileInv, InStep
  <2>. QED
    BY <2>3, <2>4, <2>5, <2>6, <2>8, <2>12, <2>13 DEF FileInv
<1>. QED
  BY <1>5, <1>6 DEF Rewrite

\* A rewrite that ends before its last line loses what it has not written.
LEMMA RewriteFailsInv ==
  ASSUME FileInv, NEW p \in Clients, RewriteFails(p)
  PROVE  FileInv'
<1>1. /\ stage[p] = "rewrite" /\ torn' \in {torn, TRUE} /\ fsMu' = Nobody
      /\ Finish(p, DiskError)
      /\ diverged' = diverged \cup CodesOf(todo[p])
      /\ lost' = lost \cup CodesOf(todo[p])
      /\ UNCHANGED <<file, broken, up, cacheVars, promised>>
  BY DEF RewriteFails
<1>2. FileTypes /\ fsMu = p /\ p # Nobody /\ todo[p] \in Seq(ShortenedURL)
  BY <1>1, NobodyAssumption DEF FileInv, FileLock, FileTypes
<1>3. /\ Moves(p)
      /\ stage'[p] = "idle" /\ request'[p] = NoCall /\ todo'[p] = <<>>
      /\ stage' \in [Clients -> {"idle", "cache", "write", "snapshot",
                                "truncate", "rewrite"}]
      /\ request' \in [Clients -> Requests \cup {NoCall}]
      /\ todo' \in [Clients -> Seq(ShortenedURL)]
      /\ answer' \in [Clients -> Answer \cup {DiskError}]
  BY <1>1, <1>2, FinishMoves
<1>4. /\ CacheInv' /\ Calls' /\ Down' /\ CacheDone' /\ p = Deleter
      /\ UNCHANGED <<storage, pc, call, i>> /\ up /\ pc[p] = "idle"
      /\ \A q \in Clients : \A n \in DOMAIN todo'[q] :
           LinkIn(storage, todo'[q][n])
  BY <1>1, <1>3, FileCall
<1>5. FileTypes'
  <2>1. diverged' \subseteq ShortCodes /\ lost' \subseteq ShortCodes
    BY <1>1, <1>2, RowCodes DEF FileTypes
  <2>. QED
    BY <1>1, <1>2, <1>3, <2>1 DEF FileTypes
<1>6. Links'
  BY <1>1, <1>4 DEF FileInv, Links, LinkIn
<1>7. FileLock'
  <2>1. ASSUME NEW q \in Clients, q # p
        PROVE  /\ stage'[q] # "rewrite"
               /\ stage'[q] = "write" => todo'[q] = RowsOf(request'[q])
    BY <1>2, <1>3, <2>1 DEF Moves, FileInv, FileLock
  <2>. QED
    BY <1>1, <1>3, <2>1 DEF FileLock
<1>8. stage'[Deleter] = "idle"
  BY <1>3, <1>4
<1>9. ASSUME NEW c \in ShortCodes, c \notin CodesOf(todo[p])
      PROVE  Future'[c] = Future[c]
  <2>1. LinesToCome = file \o todo[p] /\ LinesToCome' = file
    BY <1>1, <1>2 DEF LinesToCome
  <2>2. Future[c] = Restored(file \o todo[p])[c] /\ Future'[c] = Restored(file)[c]
    BY <2>1 DEF Future, Restored, LinesOf
  <2>. QED
    BY <1>2, <1>9, <2>2, RestoredConcat DEF FileTypes
<1>10. \A c : Written(c)' => Written(c)
  BY <1>1, <1>3, WrittenStays
<1>11. SnapshotIsWhole'
  BY <1>8 DEF SnapshotIsWhole
<1>12. Durable'
  BY <1>1, <1>4, <1>8, <1>9, <1>10 DEF FileInv, Durable, Has, HasDeleted
<1>13. InStep'
  <2>1. \A c : Creating(c) => Creating(c)'
    BY <1>1, <1>3, <1>4, CreatingStays
  <2>2. \A c : ~Deleting(c)
    BY <1>1, <1>4 DEF Deleting
  <2>. QED
    BY <1>1, <1>4, <1>8, <1>9, <2>1, <2>2 DEF FileInv, InStep
<1>. QED
  BY <1>4, <1>5, <1>6, <1>7, <1>11, <1>12, <1>13 DEF FileInv

\* The process dies: a rewrite that was under way with rows to write loses
\* them, and no other promise is touched.
LEMMA CrashInv ==
  ASSUME FileInv, Crash
  PROVE  FileInv'
<1>1. /\ up' = FALSE
      /\ storage' = [c \in ShortCodes |-> NoRow]
      /\ originalMap' = [u \in OriginalURLs |-> NoCode]
      /\ mu' = Nobody /\ pc' = [p \in Clients |-> "idle"]
      /\ call' = [p \in Clients |-> NoCall] /\ i' = [p \in Clients |-> 1]
      /\ reply' = [p \in Clients |-> Nothing] /\ committed' = storage'
      /\ broken' = FALSE /\ fsMu' = Nobody
      /\ stage' = [p \in Clients |-> "idle"]
      /\ request' = [p \in Clients |-> NoCall]
      /\ todo' = [p \in Clients |-> <<>>]
      /\ answer' = [p \in Clients |-> Nothing]
      /\ lost' = lost \cup {c \in ShortCodes :
                   \E p \in Clients : stage[p] = "rewrite" /\ c \in CodesOf(todo[p])}
      /\ UNCHANGED <<file, torn, promised, diverged>>
  BY DEF Crash
<1>2. FileTypes
  BY DEF FileInv
<1>3. CacheInv'
  <2>1. TypeOK'
    BY <1>1, AnswerTypes DEF TypeOK
  <2>2. LocalsReset' /\ WriterHoldsLock' /\ BatchProgress' /\ DeleteProgress'
    BY <1>1, NobodyAssumption
    DEF LocalsReset, WriterHoldsLock, BatchProgress, DeleteProgress
  <2>3. IndexPoints'
    BY <1>1 DEF IndexPoints
  <2>. QED
    BY <2>1, <2>2, <2>3 DEF CacheInv
<1>4. <<>> \in Seq(ShortenedURL)
  OBVIOUS
<1>5. FileTypes'
  <2>1. lost' \subseteq ShortCodes
    BY <1>1, <1>2 DEF FileTypes
  <2>. QED
    BY <1>1, <1>2, <1>4, <2>1, AnswerTypes DEF FileTypes
<1>6. Calls' /\ FileLock' /\ Down' /\ CacheDone'
  BY <1>1 DEF Calls, FileLock, Down, CacheDone
<1>7. Links'
  BY <1>1 DEF FileInv, Links
<1>8. stage'[Deleter] = "idle" /\ \A q \in Clients : stage'[q] = "idle"
  BY <1>1, DeleterAssumption
<1>9. SnapshotIsWhole' /\ InStep'
  BY <1>1, <1>8 DEF SnapshotIsWhole, InStep
<1>10. ASSUME NEW c \in ShortCodes \ lost' PROVE Future'[c] = Future[c]
  <2>1. LinesToCome' = file
    BY <1>1 DEF LinesToCome
  <2>2. Future'[c] = Restored(file)[c]
    BY <2>1 DEF Future, Restored, LinesOf
  <2>3. CASE fsMu # Nobody /\ stage[fsMu] = "rewrite"
    <3>1. /\ fsMu \in Clients /\ file \in Seq(ShortenedURL)
          /\ todo[fsMu] \in Seq(ShortenedURL)
      BY <1>2, <2>3 DEF FileTypes
    <3>2. c \notin CodesOf(todo[fsMu])
      BY <1>1, <1>10, <2>3, <3>1
    <3>3. Future[c] = Restored(file \o todo[fsMu])[c]
      BY <2>3 DEF Future, LinesToCome
    <3>. QED
      BY <2>2, <3>1, <3>2, <3>3, RestoredConcat
  <2>4. CASE ~(fsMu # Nobody /\ stage[fsMu] = "rewrite")
    BY <2>2, <2>4 DEF Future, LinesToCome
  <2>. QED
    BY <2>3, <2>4
<1>11. \A c : Written(c)' => Written(c)
  BY <1>1, <1>8 DEF Written
<1>12. Durable'
  BY <1>1, <1>2, <1>8, <1>10, <1>11
  DEF FileInv, Durable, FileTypes, Has, HasDeleted
<1>. QED
  BY <1>3, <1>5, <1>6, <1>7, <1>9, <1>12 DEF FileInv

\* A new process: the cache is what the lines of the file say.
LEMMA RestartInv ==
  ASSUME FileInv, Restart
  PROVE  FileInv'
<1>1. /\ ~up /\ up' = TRUE
      /\ storage' = Restored(file) /\ committed' = storage'
      /\ diverged' = {} /\ lost' = {}
      /\ promised' =
           [c \in ShortCodes |-> IF c \in lost THEN "nothing" ELSE promised[c]]
      /\ UNCHANGED <<originalMap, mu, pc, call, i, reply, file, torn, broken,
                     fsMu, stage, request, todo, answer>>
  BY DEF Restart, fileVars, callVars
<1>2. FileTypes /\ CacheInv /\ file \in Seq(ShortenedURL)
  BY DEF FileInv, FileTypes
<1>3. /\ \A p \in Clients : stage[p] = "idle"
      /\ fsMu = Nobody /\ mu = Nobody
      /\ \A u \in OriginalURLs : originalMap[u] = NoCode
  BY <1>1 DEF FileInv, Down
<1>4. \A p \in Clients : pc[p] = "idle" /\ todo[p] = <<>>
  BY <1>3 DEF FileInv, Calls, CacheInv, TypeOK
<1>5. \A c \in ShortCodes : Restored(file)[c] \in ShortenedURL \cup {NoRow}
  BY <1>2, RestoredRow
<1>6. storage' \in [ShortCodes -> ShortenedURL \cup {NoRow}]
  BY <1>1, <1>5 DEF Restored
<1>7. CacheInv'
  <2>1. TypeOK'
    BY <1>1, <1>2, <1>6 DEF CacheInv, TypeOK
  <2>2. LocalsReset' /\ WriterHoldsLock'
    BY <1>1, <1>2, <1>3, <1>4 DEF CacheInv, LocalsReset, WriterHoldsLock
  <2>3. BatchProgress' /\ DeleteProgress'
    BY <1>1, <1>4 DEF BatchProgress, DeleteProgress
  <2>4. IndexPoints'
    <3>1. \A c \in ShortCodes : storage'[c] # NoRow => storage'[c].shortCode = c
      BY <1>1, <1>2, RestoredRow
    <3>. QED
      BY <1>1, <1>3, <3>1 DEF IndexPoints
  <2>. QED
    BY <2>1, <2>2, <2>3, <2>4 DEF CacheInv
<1>8. FileTypes'
  BY <1>1, <1>2 DEF FileTypes
<1>9. Calls' /\ FileLock' /\ Down' /\ CacheDone'
  BY <1>1, <1>3 DEF FileInv, Calls, FileLock, Down, CacheDone
<1>10. Links'
  <2>1. ASSUME NEW n \in DOMAIN file PROVE LinkIn(storage', file[n])
    <3>1. file[n] \in ShortenedURL
      BY <1>2
    <3>2. file[n].shortCode \in ShortCodes
      BY <3>1 DEF ShortenedURL
    <3>3. n \in LinesOf(file, file[n].shortCode)
      BY DEF LinesOf
    <3>4. Restored(file)[file[n].shortCode] # NoRow
      BY <1>2, <3>2, <3>3, RestoredRow
    <3>5. PICK m \in DOMAIN file : /\ Restored(file)[file[n].shortCode] = file[m]
                                   /\ file[m].shortCode = file[n].shortCode
      BY <1>2, <3>2, <3>4, RestoredRow
    <3>6. SameLink(file[m], file[n])
      BY <3>5 DEF FileInv, Links
    <3>. QED
      BY <1>1, <3>4, <3>5, <3>6 DEF LinkIn
  <2>2. DOMAIN <<>> = {}
    OBVIOUS
  <2>. QED
    BY <1>1, <1>4, <2>1, <2>2 DEF FileInv, Links, LinkIn
<1>11. \A q \in Clients : stage'[q] = "idle"
  BY <1>1, <1>3
<1>12. SnapshotIsWhole'
  BY <1>11, DeleterAssumption DEF SnapshotIsWhole
<1>13. Future' = Restored(file) /\ Future = Restored(file)
  BY <1>1, <1>3 DEF Future, LinesToCome
<1>14. /\ \A c : Written(c)' => promised'[c] # "nothing"
       /\ \A c \in ShortCodes : promised'[c] # "nothing" =>
            c \notin lost /\ promised'[c] = promised[c]
  BY <1>1, <1>11 DEF Written
<1>15. Durable'
  BY <1>1, <1>11, <1>13, <1>14, DeleterAssumption
  DEF FileInv, Durable, Written, Has, HasDeleted
<1>16. InStep'
  BY <1>1, <1>11, <1>13, DeleterAssumption DEF InStep
<1>. QED
  BY <1>7, <1>8, <1>9, <1>10, <1>12, <1>15, <1>16 DEF FileInv

\* No variable changes.
LEMMA StutterInv ==
  ASSUME FileInv, UNCHANGED allVars
  PROVE  FileInv'
<1>1. /\ UNCHANGED <<storage, originalMap, mu, pc, call, i, reply, committed>>
      /\ UNCHANGED <<file, torn, broken, fsMu, stage, request, todo, answer, up>>
      /\ UNCHANGED <<promised, diverged, lost>>
  BY DEF allVars, cacheVars, vars, fileVars, callVars, auxVars
<1>2. CacheInv'
  BY <1>1, NextCacheInv DEF FileInv, vars
<1>3. FileTypes' /\ Calls' /\ FileLock' /\ Down' /\ Links' /\ CacheDone'
  BY <1>1 DEF FileInv, FileTypes, Calls, FileLock, Down, Links, LinkIn,
              CacheDone, Has, HasDeleted
<1>4. Future' = Future /\ Snapshotted' = Snapshotted
  BY <1>1 DEF Future, LinesToCome, Snapshotted
<1>5. /\ \A c : Written(c)' = Written(c)
      /\ \A c : Creating(c)' = Creating(c)
      /\ \A c : Deleting(c)' = Deleting(c)
  BY <1>1 DEF Written, Creating, Deleting, MarkedSoFar
<1>6. SnapshotIsWhole' /\ Durable' /\ InStep'
  BY <1>1, <1>4, <1>5 DEF FileInv, SnapshotIsWhole, Durable, InStep, Has,
                          HasDeleted
<1>. QED
  BY <1>2, <1>3, <1>6 DEF FileInv

\* Every step of the calls, the disk and the process keeps the invariant.
LEMMA FileNextInv == FileInv /\ [FileNext]_allVars => FileInv'
BY FileInvokeInv, InCacheInv, WriteInv, WriteFailsInv, SnapshotInv, TruncateInv,
   TruncateFailsInv, RewriteInv, RewriteFailsInv, CrashInv, RestartInv, StutterInv
DEF FileNext, FileStep

\* It holds in every state.
LEMMA FileSpecInv == FileSpec => []FileInv
BY FileInitInv, FileNextInv, PTL DEF FileSpec

-----------------------------------------------------------------------------
(***************************************************************************)
(* What Get finds, from one step to the next.                              *)
(***************************************************************************)
\* What was acknowledged is found, now or after a restart.
LEMMA AcknowledgedIsFindable ==
  ASSUME FileInv, NEW c \in ShortCodes, up \/ c \notin lost,
         promised[c] # "nothing"
  PROVE  /\ Findable(c) # NoRow
         /\ promised[c] = "deleted" => Findable(c).isDeleted
<1>1. CASE up
  BY <1>1 DEF FileInv, Durable, Has, HasDeleted, Findable
<1>2. CASE ~up
  <2>1. Future = Restored(file)
    BY <1>2 DEF FileInv, Down, Future, LinesToCome
  <2>2. Written(c)
    BY DEF Written
  <2>. QED
    BY <1>2, <2>1, <2>2 DEF FileInv, Durable, Has, HasDeleted, Findable
<1>. QED
  BY <1>1, <1>2

\* A step of a process changes no link that its cache has, and revives none.
LEMMA CacheLinksStay ==
  ASSUME FileInv, up, NEW p \in Clients, FileInvoke(p) \/ FileStep(p),
         NEW c \in ShortCodes, storage[c] # NoRow
  PROVE  /\ up' /\ storage'[c] # NoRow
         /\ SameLink(storage'[c], storage[c])
         /\ storage[c].isDeleted => storage'[c].isDeleted
<1>1. CASE InCache(p)
  BY <1>1, CacheKeepsRows DEF InCache, Has, SameLink
<1>2. CASE FileInvoke(p)
  BY <1>2 DEF FileInvoke, Invoke, SameLink
<1>3. CASE \/ Write(p) \/ WriteFails(p) \/ Snapshot(p) \/ Truncate(p)
           \/ TruncateFails(p) \/ Rewrite(p) \/ RewriteFails(p)
  BY <1>3
  DEF Write, WriteFails, Snapshot, Truncate, TruncateFails, Rewrite,
      RewriteFails, cacheVars, vars, SameLink
<1>. QED
  BY <1>1, <1>2, <1>3 DEF FileStep

\* A crash leaves the links of the cache to the lines of the file.
LEMMA FileLinksAgree ==
  ASSUME FileInv, up, NEW c \in ShortCodes, Restored(file)[c] # NoRow
  PROVE  SameLink(Restored(file)[c], storage[c])
<1>1. file \in Seq(ShortenedURL)
  BY DEF FileInv, FileTypes
<1>2. PICK n \in DOMAIN file : /\ Restored(file)[c] = file[n]
                               /\ file[n].shortCode = c
  BY <1>1, RestoredRow
<1>. QED
  BY <1>2 DEF FileInv, Links, LinkIn, SameLink

\* Calls are made, and go on, in a running process only.
LEMMA StepsNeedProcess ==
  ASSUME FileInv, NEW p \in Clients, FileInvoke(p) \/ FileStep(p)
  PROVE  up
BY DEF FileInvoke, FileStep, InCache, Write, WriteFails, MayWrite, Snapshot,
   Truncate, TruncateFails, Rewrite, RewriteFails, FileInv, Down

-----------------------------------------------------------------------------
(***************************************************************************)
(* The theorems.                                                           *)
(***************************************************************************)
\* The variables keep their types, and fs.mu is held from the first to the
\* last line of a batch or a rewrite.
THEOREM FileTypeCorrect == FileSpec => []FileTypeOK
<1>1. FileInv => FileTypeOK
  <2>. SUFFICES ASSUME FileInv PROVE FileTypeOK
    OBVIOUS
  <2>1. FileTypes
    BY DEF FileInv
  <2>2. ASSUME NEW p \in Clients, stage[p] = "write",
               request[p].op = "createBatch", fsMu # p
        PROVE  Len(todo[p]) = Len(request[p].rows)
    <3>1. request[p] \in Requests
      BY <2>1, <2>2 DEF FileInv, Calls, FileTypes
    <3>. QED
      BY <2>2, <3>1, CodesOfCall DEF FileInv, FileLock
  <2>3. \A p \in Clients : stage[p] = "rewrite" => fsMu = p
    BY DEF FileInv, FileLock
  <2>. QED
    BY <2>1, <2>2, <2>3 DEF FileTypeOK, FileTypes
<1>. QED
  BY <1>1, FileSpecInv, PTL

\* A short link keeps its meaning across restarts: no line of the file, and no
\* line about to be written, gives a code another URL or owner.
THEOREM LinksSurvive == FileSpec => []LinesNameOneLink
<1>1. FileInv => LinesNameOneLink
  <2>. SUFFICES ASSUME FileInv PROVE LinesNameOneLink
    OBVIOUS
  <2>1. ASSUME up, NEW row \in Range(file) \cup UNION {Range(todo[p]) : p \in Clients}
        PROVE  storage[row.shortCode] # NoRow /\ SameLink(storage[row.shortCode], row)
    <3>1. CASE row \in Range(file)
      BY <2>1, <3>1 DEF FileInv, Links, LinkIn, Range
    <3>2. ASSUME NEW p \in Clients, row \in Range(todo[p])
          PROVE  LinkIn(storage, row)
      BY <2>1, <3>2 DEF FileInv, Links, Range
    <3>. QED
      BY <2>1, <3>1, <3>2 DEF LinkIn
  <2>2. \A m, n \in DOMAIN file :
          file[m].shortCode = file[n].shortCode => SameLink(file[m], file[n])
    BY DEF FileInv, Links
  <2>. QED
    BY <2>1, <2>2 DEF LinesNameOneLink
<1>. QED
  BY <1>1, FileSpecInv, PTL

\* What a nil error has promised is in the file or in the rewrite that holds
\* fs.mu, for every code that is not lost.
THEOREM PromisesOutliveCrashes == FileSpec => []PromisesAreDurable
<1>1. FileInv => PromisesAreDurable
  <2>. SUFFICES ASSUME FileInv, NEW c \in ShortCodes \ lost
       PROVE  /\ promised[c] # "nothing" => Restored(LinesToCome)[c] # NoRow
              /\ promised[c] = "deleted" => Restored(LinesToCome)[c].isDeleted
    BY DEF PromisesAreDurable
  <2>. QED
    BY DEF FileInv, Durable, Written, Has, HasDeleted, Future
<1>. QED
  BY <1>1, FileSpecInv, PTL

\* When no call runs, the file has each code as the cache has it, unless the
\* calls about it failed or overtook each other.
THEOREM RestartIsHarmless == FileSpec => []RestartChangesNothing
<1>1. FileInv => RestartChangesNothing
  <2>. SUFFICES ASSUME FileInv, up, \A p \in Clients : stage[p] = "idle",
                       NEW c \in ShortCodes \ diverged
       PROVE  Restored(file)[c] = storage[c]
    BY DEF RestartChangesNothing
  <2>1. \A p \in Clients : pc[p] = "idle"
    BY DEF FileInv, Calls, CacheInv, TypeOK
  <2>2. LinesToCome = file
    BY DEF LinesToCome, FileInv, FileTypes
  <2>3. ~Creating(c) /\ ~Deleting(c)
    BY <2>1, DeleterAssumption DEF Creating, Deleting
  <2>. QED
    BY <2>2, <2>3 DEF FileInv, InStep, Future
<1>. QED
  BY <1>1, FileSpecInv, PTL

\* An acknowledged link keeps its meaning, and an acknowledged deletion stays,
\* in a running process whatever happens, and from a crash to the next process
\* if the file can be read and the code is not lost.
THEOREM AcknowledgedLinksEndure == FileSpec => AcknowledgedLinksStay
<1>. DEFINE Stays(c) ==
        /\ Findable(c) # NoRow /\ Findable(c)' # NoRow
        /\ SameLink(Findable(c)', Findable(c))
        /\ promised[c] = "deleted" => Findable(c)'.isDeleted
<1>1. ASSUME FileInv, [FileNext]_allVars, NEW c \in ShortCodes,
             promised[c] # "nothing",
             (up /\ up') \/ (c \notin lost \cup lost' /\ Readable')
      PROVE  Stays(c)
  <2>1. /\ Findable(c) # NoRow
        /\ promised[c] = "deleted" => Findable(c).isDeleted
    BY <1>1, AcknowledgedIsFindable
  <2>2. ASSUME NEW p \in Clients, FileInvoke(p) \/ FileStep(p)
        PROVE  Stays(c)
    <3>1. up
      BY <1>1, <2>2, StepsNeedProcess
    <3>2. /\ storage[c] # NoRow
          /\ promised[c] = "deleted" => storage[c].isDeleted
      BY <2>1, <3>1 DEF Findable
    <3>. QED
      BY <1>1, <2>2, <3>1, <3>2, CacheLinksStay DEF Findable
  <2>3. CASE Crash
    <3>1. /\ FileInv' /\ up /\ ~up' /\ UNCHANGED <<file, promised>>
          /\ c \notin lost'
      BY <1>1, <2>3, CrashInv DEF Crash
    <3>2. storage[c] # NoRow /\ Findable(c) = storage[c]
      BY <2>1, <3>1 DEF Findable
    <3>3. /\ Restored(file)[c] # NoRow
          /\ promised[c] = "deleted" => Restored(file)[c].isDeleted
      <4>1. LinesToCome' = file
        BY <3>1 DEF FileInv, Down, LinesToCome
      <4>2. Future' = Restored(file)
        BY <4>1 DEF Future, Restored, LinesOf
      <4>3. Written(c)'
        BY <1>1, <3>1 DEF Written
      <4>. QED
        BY <1>1, <3>1, <4>2, <4>3 DEF FileInv, Durable, Has, HasDeleted
    <3>4. Findable(c)' = Restored(file)[c]
      BY <3>1 DEF Findable, Restored, LinesOf
    <3>. QED
      BY <1>1, <3>1, <3>2, <3>3, <3>4, FileLinksAgree
  <2>4. CASE Restart
    <3>1. Findable(c)' = Findable(c)
      BY <2>4 DEF Findable, Restart
    <3>. QED
      BY <2>1, <3>1 DEF SameLink
  <2>5. CASE UNCHANGED allVars
    <3>1. UNCHANGED <<up, storage, file>>
      BY <2>5 DEF allVars, cacheVars, vars, fileVars
    <3>2. Findable(c)' = Findable(c)
      BY <3>1 DEF Findable, Restored, LinesOf
    <3>. QED
      BY <2>1, <3>2 DEF SameLink
  <2>. QED
    BY <1>1, <2>2, <2>3, <2>4, <2>5 DEF FileNext
<1>2. FileInv /\ [FileNext]_allVars =>
        \A c \in ShortCodes :
          /\ promised[c] # "nothing"
          /\ (up /\ up') \/ (c \notin lost \cup lost' /\ Readable')
          => Stays(c)
  BY <1>1
<1>. QED
  BY <1>2, FileSpecInv, PTL DEF FileSpec, AcknowledgedLinksStay

-----------------------------------------------------------------------------
(***************************************************************************)
(* The file storage and the store that its callers see.  A call takes      *)
(* effect when the method of the embedded cache returns; the caller hears  *)
(* of it then, or after the call's work on the file.                       *)
(***************************************************************************)
\* A step of a call that goes on in the cache shows nothing outside.
LEMMA LoopIsSilent ==
  ASSUME CacheInv, NEW p \in Clients, CacheCall(p), pc'[p] # "idle"
  PROVE  UNCHANGED <<committed, call, reply>>
<1>. USE DEF CacheInv, TypeOK
<1>1. ASSUME NEW a, UnlockAndReturn(p, a) \/ Return(p, a) PROVE FALSE
  BY <1>1 DEF UnlockAndReturn, Return
<1>. QED
  BY <1>1 DEF CacheCall, Step, CtxDone, Create, CreateBatchCheck, CreateBatchSet,
              SoftDeleteLock, SoftDeleteSet, Get, GetURLs, EnterLoop

\* The step with which it returns is the call of the abstract store.
LEMMA ReturnTakesEffect ==
  ASSUME CacheInv, CacheInv', NEW p \in Clients, CacheCall(p), pc'[p] = "idle"
  PROVE  \/ Store!Refuse(p) \/ Store!Create(p) \/ StoreAgain(p)
         \/ Store!CreateBatch(p) \/ Store!SoftDelete(p) \/ Store!Get(p)
         \/ Store!GetURLs(p)
<1>1. call[p] # NoCall /\ call'[p] = NoCall
  BY CallIsLocal DEF CacheInv, LocalsReset
<1>2. CASE CtxDone(p)
  BY <1>1, <1>2
  DEF CtxDone, Return, Store!Refuse, Store!Return, CtxError, Store!CtxError
<1>3. CASE Step(p)
  BY <1>1, <1>3, CreateRefines, CreateBatchCheckRefines, CreateBatchSetRefines,
     SoftDeleteLockRefines, SoftDeleteSetRefines, GetRefines, GetURLsRefines
  DEF Step
<1>. QED
  BY <1>2, <1>3 DEF CacheCall

\* The two stores have their calls in common, and a URL that is stored again
\* is a step of the second.
LEMMA SameCalls ==
  ASSUME NEW p \in Clients
  PROVE  /\ Store!Refuse(p) <=> FileStore!Refuse(p)
         /\ Store!Create(p) <=> FileStore!Create(p)
         /\ Store!CreateBatch(p) <=> FileStore!CreateBatch(p)
         /\ Store!SoftDelete(p) <=> FileStore!SoftDelete(p)
         /\ Store!Get(p) <=> FileStore!Get(p)
         /\ Store!GetURLs(p) <=> FileStore!GetURLs(p)
         /\ StoreAgain(p) => FileStore!CreateAgain(p)
<1>1. Store!Refuse(p) <=> FileStore!Refuse(p)
  BY DEF Store!Refuse, FileStore!Refuse, Store!Return, FileStore!Return,
         Store!CtxError, FileStore!CtxError
<1>2. Store!Create(p) <=> FileStore!Create(p)
  BY DEF Store!Create, FileStore!Create, Store!InCall, FileStore!InCall,
         Store!Return, FileStore!Return, Store!Nothing, FileStore!Nothing,
         Store!ErrConflictShortCode, FileStore!ErrConflictShortCode,
         Store!OriginalURLConflictError, FileStore!OriginalURLConflictError
<1>3. Store!CreateBatch(p) <=> FileStore!CreateBatch(p)
  BY DEF Store!CreateBatch, FileStore!CreateBatch, Store!InCall, FileStore!InCall,
         Store!Return, FileStore!Return, Store!Nothing, FileStore!Nothing,
         Store!CodesOf, FileStore!CodesOf, Store!RowFor, FileStore!RowFor,
         Store!BatchConflictError, FileStore!BatchConflictError
<1>4. Store!SoftDelete(p) <=> FileStore!SoftDelete(p)
  BY DEF Store!SoftDelete, FileStore!SoftDelete, Store!InCall, FileStore!InCall,
         Store!Return, FileStore!Return, Store!Nothing, FileStore!Nothing,
         Store!Deleted, FileStore!Deleted,
         Store!ErrNotExists, FileStore!ErrNotExists
<1>5. Store!Get(p) <=> FileStore!Get(p)
  BY DEF Store!Get, FileStore!Get, Store!InCall, FileStore!InCall,
         Store!Return, FileStore!Return, Store!GetAnswer, FileStore!GetAnswer,
         Store!ErrNotExists, FileStore!ErrNotExists,
         Store!ErrRowGone, FileStore!ErrRowGone, Store!Found, FileStore!Found
<1>6. Store!GetURLs(p) <=> FileStore!GetURLs(p)
  BY DEF Store!GetURLs, FileStore!GetURLs, Store!InCall, FileStore!InCall,
         Store!Return, FileStore!Return, Store!ListedFor, FileStore!ListedFor,
         Store!BeingCreated, FileStore!BeingCreated,
         Store!BeingDeleted, FileStore!BeingDeleted,
         Store!Listed, FileStore!Listed, Store!ErrNoRows, FileStore!ErrNoRows
<1>7. StoreAgain(p) => FileStore!CreateAgain(p)
  BY DEF StoreAgain, FileStore!CreateAgain, Store!InCall, FileStore!InCall,
         Store!Return, FileStore!Return, Store!Nothing, FileStore!Nothing
<1>. QED
  BY <1>1, <1>2, <1>3, <1>4, <1>5, <1>6, <1>7

\* A step of a call on the file shows nothing outside, or its caller hears of
\* the call that has taken effect.
LEMMA FileStepTells ==
  ASSUME FileInv, NEW p \in Clients,
         \/ Write(p) \/ WriteFails(p) \/ Snapshot(p) \/ Truncate(p)
         \/ TruncateFails(p) \/ Rewrite(p) \/ RewriteFails(p)
  PROVE  FileStore!Tell(p) \/ UNCHANGED <<committed, call, reply, request, answer>>
<1>1. /\ stage[p] \in {"write", "snapshot", "truncate", "rewrite"}
      /\ UNCHANGED <<committed, call, reply>>
  BY DEF Write, WriteFails, MayWrite, Snapshot, Truncate, TruncateFails, Rewrite,
         RewriteFails, cacheVars, vars
<1>2. \/ Finish(p, Nothing) \/ Finish(p, DiskError)
      \/ UNCHANGED <<request, answer>>
  BY DEF Write, WriteFails, Snapshot, Truncate, TruncateFails, Rewrite,
         RewriteFails, Succeed, Enter
<1>3. request[p] # NoCall /\ call[p] = NoCall
  BY <1>1 DEF FileInv, Calls, CacheInv, LocalsReset
<1>4. Nothing = FileStore!Nothing /\ DiskError = FileStore!DiskError
  BY DEF Nothing, FileStore!Nothing, DiskError, FileStore!DiskError
<1>5. \A a : Finish(p, a) => FileStore!Answered(p, a)
  BY DEF Finish, FileStore!Answered
<1>. QED
  BY <1>1, <1>2, <1>3, <1>4, <1>5 DEF FileStore!Tell, FileStore!storeVars

\* A step of a call in the cache shows nothing outside, or takes effect.
LEMMA CacheStepTakesEffect ==
  ASSUME FileInv, NEW p \in Clients, InCache(p)
  PROVE  \/ FileStore!TakeEffect(p)
         \/ UNCHANGED <<committed, call, reply, request, answer>>
<1>1. /\ CacheCall(p) /\ CacheInv /\ CacheInv'
      /\ \/ pc'[p] = "idle" /\ AfterCache(p)
         \/ pc'[p] # "idle" /\ UNCHANGED callVars
  BY CacheOutcome, CacheKeepsRows DEF InCache
<1>2. CASE pc'[p] # "idle" /\ UNCHANGED callVars
  <2>1. UNCHANGED <<committed, call, reply>>
    BY <1>1, <1>2, LoopIsSilent
  <2>. QED
    BY <1>2, <2>1 DEF callVars
<1>3. CASE pc'[p] = "idle" /\ AfterCache(p)
  <2>1. \/ FileStore!Refuse(p) \/ FileStore!Create(p) \/ FileStore!CreateAgain(p)
        \/ FileStore!CreateBatch(p) \/ FileStore!SoftDelete(p)
        \/ FileStore!Get(p) \/ FileStore!GetURLs(p)
    BY <1>1, <1>3, ReturnTakesEffect, SameCalls
  <2>2. \/ /\ reply'[p].err # "nil" \/ ~FileStore!Changes(request[p])
           /\ FileStore!Answered(p, reply'[p])
        \/ /\ reply'[p].err = "nil"
           /\ FileStore!Changes(request[p])
           /\ UNCHANGED <<request, answer>>
    BY <1>3 DEF AfterCache, Finish, Enter, FileStore!Changes, FileStore!Answered
  <2>. QED
    BY <2>1, <2>2 DEF FileStore!TakeEffect
<1>. QED
  BY <1>1, <1>2, <1>3

(***************************************************************************)
(* While a process runs, whatever came before it and whatever the disk     *)
(* does, each step of the file storage is a step of FallibleStore: for     *)
(* what the callers are answered, and not only for the embedded cache.     *)
(***************************************************************************)
THEOREM CallersSeeStore == FileSpec => CallersSeeTheStore
<1>1. ASSUME FileInv, [FileNext]_allVars, up, up'
      PROVE  [FileStore!FallibleNext]_<<committed, call, reply, request, answer>>
  <2>1. ASSUME NEW p \in Clients, FileInvoke(p) PROVE FileStore!Open(p)
    <3>1. /\ Invoke(p) /\ stage[p] = "idle"
          /\ request' = [request EXCEPT ![p] = call'[p]]
          /\ answer' = [answer EXCEPT ![p] = Nothing]
      BY <2>1 DEF FileInvoke
    <3>2. FileStore!Invoke(p)
      BY <1>1, <3>1 DEF Invoke, FileStore!Invoke, FileInv, CacheInv, LocalsReset
    <3>. QED
      BY <3>1, <3>2 DEF FileStore!Open, Nothing, FileStore!Nothing
  <2>2. UNCHANGED allVars => UNCHANGED <<committed, call, reply, request, answer>>
    BY DEF allVars, cacheVars, vars, callVars
  <2>3. ~Crash /\ ~Restart
    BY <1>1 DEF Crash, Restart
  <2>. QED
    BY <1>1, <2>1, <2>2, <2>3, CacheStepTakesEffect, FileStepTells
    DEF FileNext, FileStep, FileStore!FallibleNext
<1>2. FileInv /\ [FileNext]_allVars =>
        (up /\ up' =>
           [FileStore!FallibleNext]_<<committed, call, reply, request, answer>>)
  BY <1>1
<1>. QED
  BY <1>2, FileSpecInv, PTL DEF FileSpec, CallersSeeTheStore
=============================================================================
