---------------------- MODULE PostgresRepositoryProofs ----------------------
(***************************************************************************)
(* Theorems about PostgresRepository, for any sets of codes, URLs, users   *)
(* and clients, any requests, any size of the pool, with or without        *)
(* faults.                                                                 *)
(*                                                                         *)
(* The inductive invariant adds to the two invariants of the run that a    *)
(* row is stored under its own code, and that the entries an open          *)
(* transaction has made are distinct: what its commit adds to the table    *)
(* then is a table with distinct URLs again.                               *)
(***************************************************************************)
EXTENDS PostgresRepository, FiniteSetTheorems, URLModelProofs

Running == {p \in Clients : pc[p] = "running"}

\* What PgTypeOK says of call, got and the pool, in the form a step needs.
Shapes ==
  /\ call \in [Clients -> Requests \cup {NoCall}]
  /\ got \in [Clients -> Nat]
  /\ IsFiniteSet(Running)

RowsUnderTheirCodes ==
  \A c \in ShortCodes : rows[c] # NoRow => rows[c].shortCode = c

EntriesAreDistinct ==
  \A p \in Clients : InTx(p) =>
    \A j, k \in 1 .. got[p] :
      Entries(call[p].rows)[j] = Entries(call[p].rows)[k] => j = k

\* The two halves of OneCodePerURL: the table, and the open transactions.
UniqueURLs ==
  \A c, d \in ShortCodes :
    rows[c] # NoRow /\ rows[d] # NoRow /\ rows[c].originalURL = rows[d].originalURL
      => c = d

EntriesAreNew ==
  \A p \in Clients : \A entry \in Made(p) :
    entry \notin Committed /\ ~Pending(p, entry)

IInv ==
  /\ PgTypeOK
  /\ Shapes
  /\ RowsUnderTheirCodes
  /\ EntriesAreDistinct
  /\ UniqueURLs
  /\ EntriesAreNew

TableRow == NewURL \cup {Deleted(row) : row \in NewURL} \cup {NoRow}
PgAnswer ==
  Answer \cup {OtherError(why) : why \in {"failed", "lost", "unique"}}

-----------------------------------------------------------------------------
\* The entries of a batch, in the order of its rows: a code, then its URL.
LEMMA EntryAt ==
  ASSUME NEW batch \in Seq(NewURL), NEW k \in 1 .. Len(batch)
  PROVE  /\ 2 * k - 1 \in 1 .. 2 * Len(batch) /\ 2 * k \in 1 .. 2 * Len(batch)
         /\ Entries(batch)[2 * k - 1] = Code(batch[k].shortCode)
         /\ Entries(batch)[2 * k] = URL(batch[k].originalURL)
<1>1. /\ 2 * k - 1 \in 1 .. 2 * Len(batch) /\ (2 * k - 1) % 2 = 1
      /\ (2 * k - 1 + 1) \div 2 = k
  OBVIOUS
<1>2. /\ 2 * k \in 1 .. 2 * Len(batch) /\ (2 * k) % 2 # 1
      /\ (2 * k) \div 2 = k
  OBVIOUS
<1>. QED
  BY <1>1, <1>2 DEF Entries

\* Every entry of a batch is one of these two kinds.
LEMMA EntryCases ==
  ASSUME NEW batch \in Seq(NewURL), NEW n \in 1 .. 2 * Len(batch)
  PROVE  \E k \in 1 .. Len(batch) :
           \/ /\ n = 2 * k - 1 /\ (n - 1) \div 2 + 1 = k
              /\ Entries(batch)[n] = Code(batch[k].shortCode)
           \/ /\ n = 2 * k
              /\ Entries(batch)[n] = URL(batch[k].originalURL)
<1>1. CASE n % 2 = 1
  <2>. DEFINE k == (n + 1) \div 2
  <2>1. k \in 1 .. Len(batch) /\ n = 2 * k - 1 /\ (n - 1) \div 2 + 1 = k
    BY <1>1
  <2>. HIDE DEF k
  <2>. QED
    BY <2>1, EntryAt
<1>2. CASE n % 2 # 1
  <2>. DEFINE k == n \div 2
  <2>1. k \in 1 .. Len(batch) /\ n = 2 * k
    BY <1>2
  <2>. HIDE DEF k
  <2>. QED
    BY <2>1, EntryAt
<1>. QED
  BY <1>1, <1>2

\* A code is not a URL: entries of the two indexes never meet.
LEMMA EntryKinds ==
  /\ \A c, d : Code(c) = Code(d) => c = d
  /\ \A u, v : URL(u) = URL(v) => u = v
  /\ \A c, u : Code(c) # URL(u)
  /\ \A c : Code(c)[1] = "short_code"
  /\ \A u : URL(u)[1] # "short_code"
  BY DEF Code, URL

\* The rows of the table are rows of the model.
LEMMA TableRows ==
  ASSUME NEW row \in TableRow, row # NoRow
  PROVE  row \in ShortenedURL /\ Deleted(row) \in TableRow
<1>1. CASE row \in NewURL
  <2>1. row \in ShortenedURL
    BY <1>1 DEF NewURL
  <2>. QED
    BY <1>1, <2>1 DEF TableRow
<1>2. CASE \E new \in NewURL : row = Deleted(new)
  <2>1. PICK new \in NewURL : row = Deleted(new)
    BY <1>2
  <2>2. new \in ShortenedURL
    BY DEF NewURL
  <2>. QED
    BY <2>1, <2>2, DeletedType DEF TableRow
<1>. QED
  BY <1>1, <1>2 DEF TableRow

\* The invariant with its parts in the form that steps use.
LEMMA Facts ==
  ASSUME IInv
  PROVE  /\ rows \in [ShortCodes -> TableRow]
         /\ pc \in [Clients -> {"idle", "called", "running"}]
         /\ reply \in [Clients -> PgAnswer]
         /\ Cardinality(Running) <= PoolSize
         /\ \A p \in Clients :
              /\ pc[p] = "idle" => call[p] = NoCall
              /\ pc[p] # "idle" => call[p] \in Requests /\ call[p] # NoCall
              /\ InTx(p) => /\ call[p].rows \in Seq(NewURL)
                            /\ got[p] \in 0 .. 2 * Len(call[p].rows)
              /\ ~InTx(p) => got[p] = 0
<1>. USE DEF IInv, PgTypeOK
<1>1. /\ rows \in [ShortCodes -> TableRow]
      /\ pc \in [Clients -> {"idle", "called", "running"}]
      /\ reply \in [Clients -> PgAnswer]
      /\ Cardinality(Running) <= PoolSize
  BY DEF TableRow, PgAnswer, Running
<1>2. ASSUME NEW p \in Clients
      PROVE  /\ pc[p] = "idle" => call[p] = NoCall
             /\ pc[p] # "idle" => call[p] \in Requests /\ call[p] # NoCall
             /\ InTx(p) => /\ call[p].rows \in Seq(NewURL)
                           /\ got[p] \in 0 .. 2 * Len(call[p].rows)
             /\ ~InTx(p) => got[p] = 0
  <2>1. pc[p] = "idle" => call[p] = NoCall
    OBVIOUS
  <2>2. pc[p] # "idle" => call[p] \in Requests /\ call[p] # NoCall
    BY NoCallAssumption
  <2>3. got[p] \in IF InTx(p) THEN 0 .. 2 * Len(call[p].rows) ELSE {0}
    OBVIOUS
  <2>4. InTx(p) => call[p].rows \in Seq(NewURL)
    BY <2>2, RequestShapes DEF InTx
  <2>. QED
    BY <2>1, <2>2, <2>3, <2>4
<1>. QED
  BY <1>1, <1>2

\* The empty table satisfies the invariant.
LEMMA InitIInv == PgInit => IInv
<1>. SUFFICES ASSUME PgInit PROVE IInv
  OBVIOUS
<1>1. Running = {}
  BY DEF PgInit, Running
<1>2. IsFiniteSet(Running) /\ Cardinality(Running) = 0
  BY <1>1, FS_EmptySet
<1>3. PgTypeOK
  BY <1>2, AnswerTypes, PoolSizeAssumption DEF PgInit, PgTypeOK, InTx, Running
<1>4. Shapes
  BY <1>2 DEF PgInit, Shapes
<1>5. \A p \in Clients : Made(p) = {}
  BY DEF PgInit, Made, InTx
<1>6. RowsUnderTheirCodes /\ EntriesAreDistinct /\ UniqueURLs /\ EntriesAreNew
  BY <1>5
  DEF PgInit, RowsUnderTheirCodes, EntriesAreDistinct, UniqueURLs,
      EntriesAreNew, InTx
<1>. QED
  BY <1>3, <1>4, <1>6 DEF IInv

-----------------------------------------------------------------------------
\* A transaction is what its client's call, pc and got say.
LEMMA Frame ==
  ASSUME NEW q \in Clients, call'[q] = call[q], pc'[q] = pc[q], got'[q] = got[q]
  PROVE  InTx(q)' = InTx(q) /\ Made(q)' = Made(q)
  BY DEF InTx, Made

\* A transaction that has ended has made nothing.
LEMMA Ended ==
  ASSUME NEW q \in Clients, ~InTx(q)'
  PROVE  Made(q)' = {}
  BY DEF Made

(***************************************************************************)
(* A call that returns.  What it leaves in the table is the caller's       *)
(* business, but the entries of open transactions must stay new.           *)
(***************************************************************************)
LEMMA ReturnIInv ==
  ASSUME IInv, NEW p \in Clients, NEW ans \in PgAnswer,
         pc[p] # "idle", Return(p, ans),
         rows' \in [ShortCodes -> TableRow],
         RowsUnderTheirCodes', UniqueURLs',
         \A q \in Clients \ {p} : \A entry \in Made(q) : entry \notin Committed'
  PROVE  IInv'
<1>1. /\ pc'[p] = "idle" /\ call'[p] = NoCall /\ got'[p] = 0
      /\ \A q \in Clients \ {p} :
           call'[q] = call[q] /\ pc'[q] = pc[q] /\ got'[q] = got[q]
      /\ pc' \in [Clients -> {"idle", "called", "running"}]
      /\ call' \in [Clients -> Requests \cup {NoCall}]
      /\ got' \in [Clients -> Nat]
      /\ reply' \in [Clients -> PgAnswer]
  BY Facts DEF IInv, Shapes, Return, End
<1>2. /\ ~InTx(p)' /\ Made(p)' = {}
      /\ \A q \in Clients \ {p} : InTx(q)' = InTx(q) /\ Made(q)' = Made(q)
  <2>1. ~InTx(p)'
    BY <1>1 DEF InTx
  <2>. QED
    BY <1>1, <2>1, Frame, Ended
<1>3. IsFiniteSet(Running') /\ Cardinality(Running') <= PoolSize
  <2>1. Running' \subseteq Running
    BY <1>1 DEF Running
  <2>2. IsFiniteSet(Running)
    BY DEF IInv, Shapes
  <2>3. /\ IsFiniteSet(Running') /\ Cardinality(Running') <= Cardinality(Running)
        /\ Cardinality(Running') \in Nat /\ Cardinality(Running) \in Nat
    BY <2>1, <2>2, FS_Subset, FS_CardinalityType
  <2>. QED
    BY <2>3, Facts, PoolSizeAssumption
<1>4. Shapes'
  BY <1>1, <1>3 DEF Shapes
<1>5. PgTypeOK'
  <2>1. ASSUME NEW q \in Clients
        PROVE  /\ IF pc'[q] = "idle" THEN call'[q] = NoCall ELSE call'[q] \in Requests
               /\ got'[q] \in
                    IF InTx(q)' THEN 0 .. 2 * Len(call'[q].rows) ELSE {0}
    BY <1>1, <1>2, Facts
  <2>. QED
    BY <1>1, <1>3, <2>1 DEF PgTypeOK, TableRow, PgAnswer, Running
<1>6. EntriesAreDistinct'
  BY <1>1, <1>2 DEF IInv, EntriesAreDistinct
<1>7. EntriesAreNew'
  <2>. SUFFICES ASSUME NEW q \in Clients, NEW entry \in Made(q)'
                PROVE  entry \notin Committed' /\ ~Pending(q, entry)'
    BY DEF EntriesAreNew
  <2>1. q # p /\ entry \in Made(q)
    BY <1>2
  <2>2. ~Pending(q, entry)
    BY <2>1 DEF IInv, EntriesAreNew
  <2>. QED
    BY <1>2, <2>1, <2>2 DEF Pending
<1>. QED
  BY <1>4, <1>5, <1>6, <1>7 DEF IInv

\* The same for a call that leaves the table alone.
LEMMA ReadIInv ==
  ASSUME IInv, NEW p \in Clients, NEW ans \in PgAnswer,
         pc[p] # "idle", Return(p, ans), UNCHANGED rows
  PROVE  IInv'
<1>1. /\ rows' \in [ShortCodes -> TableRow] /\ RowsUnderTheirCodes' /\ UniqueURLs'
      /\ Committed' = Committed
  BY Facts DEF IInv, RowsUnderTheirCodes, UniqueURLs, Committed
<1>2. \A q \in Clients \ {p} : \A entry \in Made(q) : entry \notin Committed'
  BY <1>1 DEF IInv, EntriesAreNew
<1>. QED
  BY <1>1, <1>2, ReturnIInv

\* The answers of PostgresRepository.
LEMMA PgAnswerTypes ==
  /\ Answer \subseteq PgAnswer
  /\ \A why \in {"failed", "lost", "unique"} : OtherError(why) \in PgAnswer
  BY DEF PgAnswer

\* Whether or not its answer arrives, a statement that has taken effect
\* answers with one of two values.
LEMMA DoneReturns ==
  ASSUME NEW p \in Clients, Done(p)
  PROVE  \E ans \in {Nothing, OtherError("lost")} :
           ans \in PgAnswer /\ Return(p, ans)
  BY AnswerTypes, PgAnswerTypes DEF Done

\* A call that fails gives its connection back and its entries up.
LEMMA BreakIInv ==
  ASSUME IInv, NEW p \in Clients, Deadlock(p) \/ Fail(p)
  PROVE  IInv'
<1>1. pc[p] # "idle" /\ UNCHANGED rows /\ Return(p, OtherError("failed"))
  <2>1. CASE Deadlock(p)
    BY <2>1 DEF Deadlock, Break, WaitsFor, HasNext, InTx
  <2>2. CASE Fail(p)
    BY <2>2 DEF Fail, Break
  <2>. QED
    BY <2>1, <2>2
<1>. QED
  BY <1>1, ReadIInv, PgAnswerTypes

\* A new call has no connection and no entries.
LEMMA InvokeIInv ==
  ASSUME IInv, NEW p \in Clients, Invoke(p)
  PROVE  IInv'
<1>1. PICK r \in Requests : call' = [call EXCEPT ![p] = r]
  BY DEF Invoke
<1>2. /\ pc[p] = "idle" /\ pc'[p] = "called" /\ call'[p] = r
      /\ pc' \in [Clients -> {"idle", "called", "running"}]
      /\ call' \in [Clients -> Requests \cup {NoCall}]
      /\ \A q \in Clients \ {p} : call'[q] = call[q] /\ pc'[q] = pc[q]
      /\ UNCHANGED <<rows, got, reply>>
  BY <1>1, Facts DEF Invoke, IInv, Shapes
<1>3. \A q \in Clients : InTx(q)' = InTx(q) /\ Made(q)' = Made(q)
  <2>1. ~InTx(p) /\ ~InTx(p)' /\ InTx(p)' = InTx(p)
    BY <1>2 DEF InTx
  <2>2. Made(p) = {} /\ Made(p)' = {}
    BY <2>1 DEF Made
  <2>3. \A q \in Clients \ {p} : InTx(q)' = InTx(q) /\ Made(q)' = Made(q)
    BY <1>2, Frame
  <2>. QED
    BY <2>1, <2>2, <2>3
<1>4. Running' = Running
  BY <1>2 DEF Running
<1>5. Shapes'
  BY <1>2, <1>4 DEF IInv, Shapes
<1>6. PgTypeOK'
  <2>1. ASSUME NEW q \in Clients
        PROVE  /\ IF pc'[q] = "idle" THEN call'[q] = NoCall ELSE call'[q] \in Requests
               /\ got'[q] \in
                    IF InTx(q)' THEN 0 .. 2 * Len(call'[q].rows) ELSE {0}
    <3>1. CASE q = p
      BY <1>1, <1>2, <1>3, <3>1, Facts DEF InTx
    <3>2. CASE q # p
      BY <1>2, <1>3, <3>2, Facts
    <3>. QED
      BY <3>1, <3>2
  <2>. QED
    BY <1>2, <1>4, <2>1, Facts DEF PgTypeOK, TableRow, PgAnswer, Running
<1>7. RowsUnderTheirCodes' /\ UniqueURLs' /\ Committed' = Committed
  BY <1>2 DEF IInv, RowsUnderTheirCodes, UniqueURLs, Committed
<1>8. EntriesAreDistinct'
  BY <1>2, <1>3 DEF IInv, EntriesAreDistinct, InTx
<1>9. EntriesAreNew'
  BY <1>3, <1>7 DEF IInv, EntriesAreNew, Pending
<1>. QED
  BY <1>5, <1>6, <1>7, <1>8, <1>9 DEF IInv

\* A connection is taken only when the pool has one.
LEMMA AcquireIInv ==
  ASSUME IInv, NEW p \in Clients, Acquire(p)
  PROVE  IInv'
<1>1. /\ pc[p] = "called" /\ pc'[p] = "running"
      /\ pc' \in [Clients -> {"idle", "called", "running"}]
      /\ \A q \in Clients \ {p} : pc'[q] = pc[q]
      /\ UNCHANGED <<rows, call, got, reply>>
  BY Facts DEF Acquire
<1>2. ~InTx(p) /\ got[p] = 0
  BY <1>1, Facts DEF InTx
<1>3. \A q \in Clients : Made(q)' = Made(q)
  <2>1. Made(p) = {} /\ Made(p)' = {}
    BY <1>1, <1>2 DEF Made
  <2>. QED
    BY <1>1, <2>1, Frame
<1>4. IsFiniteSet(Running') /\ Cardinality(Running') <= PoolSize
  <2>1. Running' = Running \cup {p} /\ p \notin Running
    BY <1>1 DEF Running
  <2>2. IsFiniteSet(Running) /\ Cardinality(Running) < PoolSize
    BY DEF IInv, Shapes, Acquire, Running
  <2>3. /\ IsFiniteSet(Running') /\ Cardinality(Running') = Cardinality(Running) + 1
        /\ Cardinality(Running) \in Nat
    BY <2>1, <2>2, FS_AddElement, FS_CardinalityType
  <2>. QED
    BY <2>2, <2>3, PoolSizeAssumption
<1>5. Shapes'
  BY <1>1, <1>4 DEF IInv, Shapes
<1>6. PgTypeOK'
  <2>1. ASSUME NEW q \in Clients
        PROVE  /\ IF pc'[q] = "idle" THEN call'[q] = NoCall ELSE call'[q] \in Requests
               /\ got'[q] \in
                    IF InTx(q)' THEN 0 .. 2 * Len(call'[q].rows) ELSE {0}
    <3>1. CASE q = p
      <4>1. call[p] \in Requests
        BY <1>1, Facts
      <4>2. InTx(p)' => 0 \in 0 .. 2 * Len(call[p].rows)
        BY <1>1, <4>1, RequestShapes DEF InTx
      <4>. QED
        BY <1>1, <1>2, <3>1, <4>1, <4>2
    <3>2. CASE q # p
      BY <1>1, <3>2, Frame, Facts
    <3>. QED
      BY <3>1, <3>2
  <2>. QED
    BY <1>1, <1>4, <2>1, Facts DEF PgTypeOK, TableRow, PgAnswer, Running
<1>7. RowsUnderTheirCodes' /\ UniqueURLs' /\ Committed' = Committed
  BY <1>1 DEF IInv, RowsUnderTheirCodes, UniqueURLs, Committed
<1>8. EntriesAreDistinct'
  <2>. SUFFICES ASSUME NEW q \in Clients, InTx(q)'
                PROVE  \A j, k \in 1 .. got'[q] :
                         Entries(call'[q].rows)[j] = Entries(call'[q].rows)[k]
                           => j = k
    BY DEF EntriesAreDistinct
  <2>1. CASE q = p
    BY <1>1, <1>2, <2>1
  <2>2. CASE q # p
    BY <1>1, <2>2, Frame DEF IInv, EntriesAreDistinct
  <2>. QED
    BY <2>1, <2>2
<1>9. EntriesAreNew'
  BY <1>3, <1>7 DEF IInv, EntriesAreNew, Pending
<1>. QED
  BY <1>5, <1>6, <1>7, <1>8, <1>9 DEF IInv

-----------------------------------------------------------------------------
(***************************************************************************)
(* The transaction of a batch.                                             *)
(***************************************************************************)
LEMMA InsertIInv ==
  ASSUME IInv, NEW p \in Clients, CreateBatchInsert(p)
  PROVE  IInv'
<1>. DEFINE batch == call[p].rows
            entry == NextEntry(p)
<1>1. /\ InTx(p) /\ pc[p] = "running" /\ batch \in Seq(NewURL)
      /\ got[p] \in 0 .. 2 * Len(batch) /\ got[p] < 2 * Len(batch)
  BY Facts DEF CreateBatchInsert, HasNext, InTx
<1>2. CASE UniqueViolation(p, entry)
  <2>1. got[p] \div 2 + 1 \in Nat
    BY <1>1
  <2>2. \E ans \in PgAnswer : Return(p, ans) /\ UNCHANGED rows
    BY <1>2, <2>1, AnswerTypes, PgAnswerTypes DEF UniqueViolation, Break
  <2>. QED
    BY <1>1, <2>2, ReadIInv
<1>3. CASE /\ entry \notin Committed \cup Made(p)
           /\ got' = [got EXCEPT ![p] = @ + 1]
           /\ UNCHANGED <<rows, call, pc, reply>>
  <2>1. /\ got'[p] = got[p] + 1 /\ \A q \in Clients \ {p} : got'[q] = got[q]
        /\ got' \in [Clients -> Nat]
    BY <1>1, <1>3 DEF IInv, Shapes
  <2>2. /\ \A q \in Clients \ {p} : InTx(q)' = InTx(q) /\ Made(q)' = Made(q)
        /\ InTx(p)'
    BY <1>1, <1>3, <2>1, Frame DEF InTx
  <2>3. Made(p)' = Made(p) \cup {entry}
    <3>1. 1 .. got'[p] = (1 .. got[p]) \cup {got[p] + 1}
      BY <1>1, <2>1
    <3>. QED
      BY <1>1, <1>3, <2>2, <3>1 DEF Made, NextEntry
  <2>4. Running' = Running /\ Committed' = Committed
    BY <1>3 DEF Running, Committed
  <2>5. Shapes'
    BY <1>3, <2>1, <2>4 DEF IInv, Shapes
  <2>6. PgTypeOK'
    <3>1. ASSUME NEW q \in Clients
          PROVE  /\ IF pc'[q] = "idle" THEN call'[q] = NoCall ELSE call'[q] \in Requests
                 /\ got'[q] \in
                      IF InTx(q)' THEN 0 .. 2 * Len(call'[q].rows) ELSE {0}
      <4>1. CASE q = p
        BY <1>1, <1>3, <2>1, <2>2, <4>1, Facts
      <4>2. CASE q # p
        BY <1>3, <2>1, <2>2, <4>2, Facts
      <4>. QED
        BY <4>1, <4>2
    <3>. QED
      BY <1>3, <2>4, <3>1, Facts DEF PgTypeOK, TableRow, PgAnswer, Running
  <2>7. RowsUnderTheirCodes' /\ UniqueURLs'
    BY <1>3 DEF IInv, RowsUnderTheirCodes, UniqueURLs
  <2>8. EntriesAreDistinct'
    <3>. SUFFICES ASSUME NEW q \in Clients, InTx(q)',
                         NEW j \in 1 .. got'[q], NEW k \in 1 .. got'[q],
                         Entries(call[q].rows)[j] = Entries(call[q].rows)[k]
                  PROVE  j = k
      BY <1>3 DEF EntriesAreDistinct
    <3>1. CASE q = p
      <4>1. \A n \in 1 .. got[p] : Entries(batch)[n] # entry
        BY <1>1, <1>3 DEF Made
      <4>2. \A n \in 1 .. got'[p] : n = got[p] + 1 \/ n \in 1 .. got[p]
        BY <1>1, <2>1
      <4>3. entry = Entries(batch)[got[p] + 1]
        BY DEF NextEntry
      <4>4. CASE j = got[p] + 1 \/ k = got[p] + 1
        BY <3>1, <4>1, <4>2, <4>3, <4>4
      <4>5. CASE j \in 1 .. got[p] /\ k \in 1 .. got[p]
        BY <1>1, <3>1, <4>5 DEF IInv, EntriesAreDistinct
      <4>. QED
        BY <3>1, <4>2, <4>4, <4>5
    <3>2. CASE q # p
      BY <2>1, <2>2, <3>2 DEF IInv, EntriesAreDistinct
    <3>. QED
      BY <3>1, <3>2
  <2>9. EntriesAreNew'
    <3>. SUFFICES ASSUME NEW q \in Clients, NEW e \in Made(q)'
                  PROVE  /\ e \notin Committed
                         /\ \A r \in Clients \ {q} : e \notin Made(r)'
      BY <2>4 DEF EntriesAreNew, Pending
    <3>1. \A r \in Clients \ {p} : entry \notin Made(r)
      BY DEF CreateBatchInsert, Pending
    <3>2. \A r \in Clients : \A d \in Made(r) :
            d \notin Committed /\ \A s \in Clients \ {r} : d \notin Made(s)
      BY DEF IInv, EntriesAreNew, Pending
    <3>. HIDE DEF entry
    <3>. QED
      BY <1>3, <2>2, <2>3, <3>1, <3>2
  <2>. QED
    BY <2>5, <2>6, <2>7, <2>8, <2>9 DEF IInv
<1>. QED
  BY <1>2, <1>3 DEF CreateBatchInsert

(***************************************************************************)
(* What a transaction knows of its batch once it has made every entry: its *)
(* codes and its URLs are distinct and not in the table.                   *)
(***************************************************************************)
LEMMA CompleteBatch ==
  ASSUME IInv, NEW p \in Clients, InTx(p), ~HasNext(p)
  PROVE  /\ call[p].rows \in Seq(NewURL)
         /\ \A k \in DOMAIN call[p].rows :
              LET new == call[p].rows[k]
              IN /\ Code(new.shortCode) \in Made(p)
                 /\ URL(new.originalURL) \in Made(p)
                 /\ rows[new.shortCode] = NoRow
                 /\ \A c \in ShortCodes :
                      rows[c] # NoRow => rows[c].originalURL # new.originalURL
         /\ \A j, k \in DOMAIN call[p].rows :
              \/ call[p].rows[j].shortCode = call[p].rows[k].shortCode
              \/ call[p].rows[j].originalURL = call[p].rows[k].originalURL
              => j = k
<1>. DEFINE batch == call[p].rows
<1>1. /\ batch \in Seq(NewURL) /\ got[p] = 2 * Len(batch)
      /\ DOMAIN batch = 1 .. Len(batch)
  <2>1. /\ batch \in Seq(NewURL) /\ got[p] \in 0 .. 2 * Len(batch)
        /\ ~(got[p] < 2 * Len(batch))
    BY Facts DEF HasNext
  <2>. QED
    BY <2>1
<1>2. ASSUME NEW k \in DOMAIN batch
      PROVE  /\ 2 * k - 1 \in 1 .. got[p] /\ 2 * k \in 1 .. got[p]
             /\ Entries(batch)[2 * k - 1] = Code(batch[k].shortCode)
             /\ Entries(batch)[2 * k] = URL(batch[k].originalURL)
             /\ Code(batch[k].shortCode) \in Made(p)
             /\ URL(batch[k].originalURL) \in Made(p)
  <2>1. /\ 2 * k - 1 \in 1 .. got[p] /\ 2 * k \in 1 .. got[p]
        /\ Entries(batch)[2 * k - 1] = Code(batch[k].shortCode)
        /\ Entries(batch)[2 * k] = URL(batch[k].originalURL)
    BY <1>1, EntryAt
  <2>2. Made(p) = {Entries(batch)[n] : n \in 1 .. got[p]}
    BY DEF Made
  <2>. QED
    BY <2>1, <2>2
<1>3. ASSUME NEW k \in DOMAIN batch
      PROVE  /\ rows[batch[k].shortCode] = NoRow
             /\ \A c \in ShortCodes :
                  rows[c] # NoRow => rows[c].originalURL # batch[k].originalURL
  <2>1. batch[k].shortCode \in ShortCodes
    BY <1>1 DEF NewURL, ShortenedURL
  <2>2. /\ Code(batch[k].shortCode) \notin Committed
        /\ URL(batch[k].originalURL) \notin Committed
    BY <1>2 DEF IInv, EntriesAreNew
  <2>. QED
    BY <2>1, <2>2 DEF Committed
<1>4. ASSUME NEW j \in DOMAIN batch, NEW k \in DOMAIN batch,
             \/ batch[j].shortCode = batch[k].shortCode
             \/ batch[j].originalURL = batch[k].originalURL
      PROVE  j = k
  <2>1. \A m, n \in 1 .. got[p] : Entries(batch)[m] = Entries(batch)[n] => m = n
    BY DEF IInv, EntriesAreDistinct
  <2>2. 2 * j - 1 = 2 * k - 1 \/ 2 * j = 2 * k
    BY <1>2, <1>4, <2>1
  <2>. QED
    BY <1>1, <2>2
<1>. QED
  BY <1>1, <1>2, <1>3, <1>4

\* A commit puts the entries of its batch into the table, each free until then.
LEMMA CommitIInv ==
  ASSUME IInv, NEW p \in Clients, CreateBatchCommit(p)
  PROVE  IInv'
<1>. DEFINE batch == call[p].rows
<1>1. InTx(p) /\ ~HasNext(p) /\ pc[p] # "idle"
  BY DEF CreateBatchCommit, InTx
<1>2. batch \in Seq(NewURL)
  BY <1>1, CompleteBatch
<1>3. \A c \in ShortCodes :
        rows'[c] = IF c \in CodesOf(batch) THEN RowFor(batch, c) ELSE rows[c]
  BY DEF CreateBatchCommit, Commit
<1>4. ASSUME NEW c \in ShortCodes
      PROVE  \/ rows'[c] = rows[c]
             \/ \E k \in DOMAIN batch :
                  /\ rows'[c] = batch[k] /\ batch[k] \in NewURL
                  /\ batch[k].shortCode = c
  BY <1>2, <1>3, RowOfBatch
<1>5. rows' \in [ShortCodes -> TableRow]
  <2>1. \A c \in ShortCodes : rows'[c] \in TableRow
    BY <1>4, Facts DEF TableRow
  <2>2. rows' = [c \in ShortCodes |-> rows'[c]]
    BY DEF CreateBatchCommit, Commit
  <2>. QED
    BY <2>1, <2>2
<1>6. RowsUnderTheirCodes'
  BY <1>4 DEF IInv, RowsUnderTheirCodes
<1>7. UniqueURLs'
  <2>. SUFFICES ASSUME NEW c \in ShortCodes, NEW d \in ShortCodes,
                       rows'[c] # NoRow, rows'[d] # NoRow,
                       rows'[c].originalURL = rows'[d].originalURL
                PROVE  c = d
    BY DEF UniqueURLs
  <2>1. CASE rows'[c] = rows[c] /\ rows'[d] = rows[d]
    BY <2>1 DEF IInv, UniqueURLs
  <2>2. CASE rows'[c] = rows[c] /\ rows'[d] # rows[d]
    BY <1>1, <1>4, <2>2, CompleteBatch
  <2>3. CASE rows'[c] # rows[c] /\ rows'[d] = rows[d]
    BY <1>1, <1>4, <2>3, CompleteBatch
  <2>4. CASE rows'[c] # rows[c] /\ rows'[d] # rows[d]
    BY <1>1, <1>4, <2>4, CompleteBatch
  <2>. QED
    BY <2>1, <2>2, <2>3, <2>4
<1>8. Committed' \subseteq Committed \cup Made(p)
  <2>1. ASSUME NEW c \in ShortCodes, rows'[c] # NoRow
        PROVE  /\ Code(c) \in Committed \cup Made(p)
               /\ URL(rows'[c].originalURL) \in Committed \cup Made(p)
    <3>1. CASE rows'[c] = rows[c]
      BY <2>1, <3>1 DEF Committed
    <3>2. CASE rows'[c] # rows[c]
      BY <1>1, <1>4, <3>2, CompleteBatch
    <3>. QED
      BY <3>1, <3>2
  <2>. QED
    BY <2>1 DEF Committed
<1>9. \A q \in Clients \ {p} : \A entry \in Made(q) : entry \notin Committed'
  BY <1>8 DEF IInv, EntriesAreNew, Pending
<1>10. \E ans \in PgAnswer : Return(p, ans)
  BY DoneReturns DEF CreateBatchCommit
<1>. QED
  BY <1>1, <1>5, <1>6, <1>7, <1>9, <1>10, ReturnIInv

-----------------------------------------------------------------------------
(***************************************************************************)
(* The methods of one statement.                                           *)
(***************************************************************************)
LEMMA CreateIInv ==
  ASSUME IInv, NEW p \in Clients, Create(p)
  PROVE  IInv'
<1>. DEFINE new == call[p].row
            sameURL(c) == rows[c] # NoRow /\ rows[c].originalURL = new.originalURL
<1>1. /\ pc[p] # "idle" /\ call[p] \in Requests /\ call[p].op = "create"
      /\ new \in NewURL
  BY Facts, RequestShapes DEF Create, Runs
<1>2. /\ new # NoRow /\ new.shortCode \in ShortCodes
      /\ new.originalURL \in OriginalURLs
  BY <1>1, NoRowAssumption DEF NewURL, ShortenedURL
<1>3. CASE \E c \in ShortCodes :
             UNCHANGED rows /\ Return(p, OriginalURLConflictError(c))
  BY <1>1, <1>3, AnswerTypes, PgAnswerTypes, ReadIInv
<1>4. CASE UNCHANGED rows /\ Return(p, ErrConflictShortCode)
  BY <1>1, <1>4, AnswerTypes, PgAnswerTypes, ReadIInv
<1>5. CASE /\ \A c \in ShortCodes : ~sameURL(c)
           /\ ~Pending(p, URL(new.originalURL))
           /\ rows[new.shortCode] = NoRow
           /\ ~Pending(p, Code(new.shortCode))
           /\ rows' = [rows EXCEPT ![new.shortCode] = new]
           /\ Done(p)
  <2>. HIDE DEF new
  <2>1. /\ rows'[new.shortCode] = new
        /\ \A c \in ShortCodes : c # new.shortCode => rows'[c] = rows[c]
        /\ rows' \in [ShortCodes -> TableRow]
    BY <1>1, <1>2, <1>5, Facts DEF TableRow
  <2>2. RowsUnderTheirCodes' /\ UniqueURLs'
    BY <1>5, <2>1 DEF IInv, RowsUnderTheirCodes, UniqueURLs
  <2>3. Committed' \subseteq
          Committed \cup {Code(new.shortCode), URL(new.originalURL)}
    BY <2>1 DEF Committed
  <2>4. \A q \in Clients \ {p} : \A entry \in Made(q) : entry \notin Committed'
    BY <1>5, <2>3 DEF IInv, EntriesAreNew, Pending
  <2>5. \E ans \in PgAnswer : Return(p, ans)
    BY <1>5, DoneReturns
  <2>. QED
    BY <1>1, <2>1, <2>2, <2>4, <2>5, ReturnIInv
<1>. QED
  BY <1>3, <1>4, <1>5 DEF Create

\* A row that SoftDeleteURLs leaves: marked, or as it was.
LEMMA SoftDeleteRows ==
  ASSUME IInv, NEW p \in Clients, SoftDeleteURLs(p), NEW c \in ShortCodes
  PROVE  /\ rows'[c] \in TableRow
         /\ rows'[c] # NoRow <=> rows[c] # NoRow
         /\ rows[c] # NoRow =>
              /\ rows'[c] \in {rows[c], Deleted(rows[c])}
              /\ rows'[c].shortCode = rows[c].shortCode
              /\ rows'[c].originalURL = rows[c].originalURL
<1>1. \/ rows'[c] = rows[c]
      \/ rows[c] # NoRow /\ rows'[c] = Deleted(rows[c])
  BY DEF SoftDeleteURLs
<1>2. rows[c] \in TableRow
  BY Facts
<1>3. CASE rows'[c] = rows[c]
  BY <1>2, <1>3
<1>4. CASE rows[c] # NoRow /\ rows'[c] = Deleted(rows[c])
  <2>1. rows[c] \in ShortenedURL /\ Deleted(rows[c]) \in TableRow
    BY <1>2, <1>4, TableRows
  <2>. QED
    BY <1>4, <2>1, DeletedType
<1>. QED
  BY <1>1, <1>3, <1>4

\* A delete changes the mark of rows, and neither their code nor their URL.
LEMMA SoftDeleteIInv ==
  ASSUME IInv, NEW p \in Clients, SoftDeleteURLs(p)
  PROVE  IInv'
<1>1. rows' \in [ShortCodes -> TableRow]
  <2>1. rows' = [c \in ShortCodes |-> rows'[c]]
    BY DEF SoftDeleteURLs
  <2>. QED
    BY <2>1, SoftDeleteRows
<1>2. RowsUnderTheirCodes' /\ UniqueURLs'
  BY SoftDeleteRows DEF IInv, RowsUnderTheirCodes, UniqueURLs
<1>3. Committed' = Committed
  BY SoftDeleteRows DEF Committed
<1>4. \A q \in Clients \ {p} : \A entry \in Made(q) : entry \notin Committed'
  BY <1>3 DEF IInv, EntriesAreNew
<1>5. \E ans \in PgAnswer : Return(p, ans)
  BY DoneReturns DEF SoftDeleteURLs
<1>6. pc[p] # "idle"
  BY DEF SoftDeleteURLs, Runs
<1>. QED
  BY <1>1, <1>2, <1>4, <1>5, <1>6, ReturnIInv

\* Get and GetURLs change nothing but the answer.
LEMMA ReadersIInv ==
  ASSUME IInv, NEW p \in Clients, Get(p) \/ GetURLs(p)
  PROVE  IInv'
<1>1. CASE Get(p)
  <2>1. pc[p] # "idle" /\ call[p] \in Requests /\ call[p].op = "get"
    BY <1>1, Facts DEF Get, Runs
  <2>2. call[p].shortCode \in ShortCodes
    BY <2>1, RequestShapes
  <2>3. rows[call[p].shortCode] \in ShortenedURL \cup {NoRow}
    BY <2>2, TableRows, Facts
  <2>4. GetAnswer(rows[call[p].shortCode]) \in PgAnswer
    BY <2>3, AnswerTypes, PgAnswerTypes
  <2>. QED
    BY <1>1, <2>1, <2>4, ReadIInv DEF Get
<1>2. CASE GetURLs(p)
  <2>. DEFINE codes == {c \in ShortCodes : ListedFor(rows[c], call[p].uid)}
  <2>1. (IF codes = {} THEN ErrNoRows ELSE Listed(codes)) \in PgAnswer
    BY AnswerTypes, PgAnswerTypes
  <2>. QED
    BY <1>2, <2>1, ReadIInv DEF GetURLs, Runs
<1>. QED
  BY <1>1, <1>2

\* Every step keeps the invariant.
LEMMA NextIInv == IInv /\ [PgNext]_pgVars => IInv'
<1>. SUFFICES ASSUME IInv, [PgNext]_pgVars PROVE IInv'
  OBVIOUS
<1>1. ASSUME NEW p \in Clients, Statement(p) PROVE IInv'
  BY <1>1, CreateIInv, InsertIInv, CommitIInv, SoftDeleteIInv, ReadersIInv
  DEF Statement
<1>2. ASSUME NEW p \in Clients,
             Invoke(p) \/ Acquire(p) \/ Deadlock(p) \/ Fail(p)
      PROVE  IInv'
  BY <1>2, InvokeIInv, AcquireIInv, BreakIInv
<1>3. CASE UNCHANGED pgVars
  BY <1>3
  DEF pgVars, IInv, PgTypeOK, Shapes, Running, RowsUnderTheirCodes,
      EntriesAreDistinct, UniqueURLs, EntriesAreNew, InTx, Made, Pending,
      Committed
<1>. QED
  BY <1>1, <1>2, <1>3 DEF PgNext

\* It holds in every state.
LEMMA SpecIInv == PgSpec => []IInv
  BY InitIInv, NextIInv, PTL DEF PgSpec

-----------------------------------------------------------------------------
\* Types: of the table, the calls, the transactions and every answer, with
\* the bound on the pool.
THEOREM TypeCorrect == PgSpec => []PgTypeOK
<1>1. IInv => PgTypeOK
  BY DEF IInv
<1>. QED
  BY <1>1, SpecIInv, PTL

(***************************************************************************)
(* A URL has one code, whichever transactions race for it.                 *)
(***************************************************************************)
THEOREM URLsAreUnique == PgSpec => []OneCodePerURL
<1>1. IInv => OneCodePerURL
  BY DEF IInv, UniqueURLs, EntriesAreNew, OneCodePerURL
<1>. QED
  BY <1>1, SpecIInv, PTL

-----------------------------------------------------------------------------
\* What Return(p, ans) does to the observable state of p and of the others.
LEMMA ReturnShape ==
  ASSUME IInv, NEW p \in Clients, NEW ans, Return(p, ans)
  PROVE  /\ call' = [call EXCEPT ![p] = NoCall] /\ call'[p] = NoCall
         /\ reply' = [reply EXCEPT ![p] = ans] /\ reply'[p] = ans
         /\ \A q \in Clients \ {p} : call'[q] = call[q]
  BY Facts DEF Return, End, IInv, Shapes

\* The answers of the interface are not errors without a name.
LEMMA AnswersAreNamed ==
  /\ \A ans \in Answer : ans.err # "error"
  /\ \A why : OtherError(why).err = "error" /\ OtherError(why).why = why
<1>1. \A ans \in Answer : ans.err # "error"
  <2>. SUFFICES ASSUME NEW ans \in Answer PROVE ans.err # "error"
    OBVIOUS
  <2>1. CASE ans \in {Nothing, CtxError, ErrConflictShortCode, ErrNotExists,
                      ErrRowGone, ErrNoRows}
    BY <2>1
    DEF Nothing, CtxError, ErrConflictShortCode, ErrNotExists, ErrRowGone,
        ErrNoRows
  <2>2. CASE ans \notin {Nothing, CtxError, ErrConflictShortCode, ErrNotExists,
                         ErrRowGone, ErrNoRows}
    BY <2>2 DEF Answer
  <2>. QED
    BY <2>1, <2>2
<1>2. \A why : OtherError(why).err = "error" /\ OtherError(why).why = why
  BY DEF OtherError
<1>. QED
  BY <1>1, <1>2

\* The only step that answers with a violation that has no name.
LEMMA UniqueStep ==
  ASSUME IInv, NEW p \in Clients, Statement(p) \/ Deadlock(p) \/ Fail(p),
         call[p] # NoCall, call'[p] = NoCall, reply'[p] = OtherError("unique")
  PROVE  /\ CreateBatchInsert(p)
         /\ NextEntry(p) \in Committed \cup Made(p)
         /\ NextEntry(p)[1] # "short_code"
<1>1. ASSUME NEW ans \in Answer \cup {OtherError("failed"), OtherError("lost")},
             Return(p, ans)
      PROVE  FALSE
  BY <1>1, ReturnShape, AnswersAreNamed
<1>2. CASE CreateBatchInsert(p)
  <2>1. UniqueViolation(p, NextEntry(p)) /\ NextEntry(p) \in Committed \cup Made(p)
    BY <1>2 DEF CreateBatchInsert
  <2>2. InTx(p) /\ got[p] < 2 * Len(call[p].rows)
    BY <1>2 DEF CreateBatchInsert, HasNext
  <2>3. got[p] \div 2 + 1 \in Nat
    BY <2>2, Facts
  <2>4. ~Return(p, BatchConflictError(got[p] \div 2 + 1))
    BY <1>1, <2>3, AnswerTypes
  <2>. QED
    BY <1>2, <2>1, <2>4 DEF UniqueViolation
<1>3. CASE Create(p)
  BY <1>1, <1>3, AnswerTypes DEF Create, Done
<1>4. CASE CreateBatchCommit(p) \/ SoftDeleteURLs(p)
  BY <1>1, <1>4, AnswerTypes DEF CreateBatchCommit, SoftDeleteURLs, Done
<1>5. CASE Get(p)
  <2>1. pc[p] # "idle" /\ call[p] \in Requests /\ call[p].op = "get"
    BY <1>5, Facts DEF Get, Runs
  <2>2. rows[call[p].shortCode] \in ShortenedURL \cup {NoRow}
    BY <2>1, RequestShapes, TableRows, Facts
  <2>. QED
    BY <1>1, <1>5, <2>2, AnswerTypes DEF Get
<1>6. CASE GetURLs(p)
  <2>. DEFINE codes == {c \in ShortCodes : ListedFor(rows[c], call[p].uid)}
  <2>1. (IF codes = {} THEN ErrNoRows ELSE Listed(codes)) \in Answer
    BY AnswerTypes
  <2>. QED
    BY <1>1, <1>6, <2>1 DEF GetURLs
<1>7. CASE Deadlock(p) \/ Fail(p)
  BY <1>1, <1>7 DEF Deadlock, Fail, Break
<1>. QED
  BY <1>2, <1>3, <1>4, <1>5, <1>6, <1>7 DEF Statement

(***************************************************************************)
(* A code that is taken always has the error that the service retries on:  *)
(* a violation without a name is one of a batch's URLs.                    *)
(***************************************************************************)
THEOREM TakenCodesHaveNames == PgSpec => TakenCodesAreNamed
<1>1. ASSUME IInv, [PgNext]_pgVars, NEW p \in Clients,
             call[p] # NoCall, call'[p] = NoCall, reply'[p] = OtherError("unique")
      PROVE  call[p].op = "createBatch" /\ URLTaken(call[p].rows)
  <2>. DEFINE batch == call[p].rows
  <2>1. ASSUME NEW q \in Clients, Statement(q) \/ Deadlock(q) \/ Fail(q)
        PROVE  \/ call' = call
               \/ \E ans : Return(q, ans)
    BY <2>1
    DEF Statement, Create, CreateBatchInsert, UniqueViolation, Break,
        CreateBatchCommit, Done, SoftDeleteURLs, Get, GetURLs, Deadlock, Fail
  <2>2. \A q \in Clients : Invoke(q) \/ Acquire(q) => call'[p] # NoCall
    <3>. SUFFICES ASSUME NEW q \in Clients, Invoke(q) \/ Acquire(q)
                  PROVE  call'[p] # NoCall
      OBVIOUS
    <3>1. CASE Invoke(q)
      <4>1. PICK r \in Requests : call' = [call EXCEPT ![q] = r]
        BY <3>1 DEF Invoke
      <4>. QED
        BY <1>1, <4>1, NoCallAssumption DEF IInv, Shapes
    <3>2. CASE Acquire(q)
      BY <1>1, <3>2 DEF Acquire
    <3>. QED
      BY <3>1, <3>2
  <2>3. Statement(p) \/ Deadlock(p) \/ Fail(p)
    <3>1. PgNext
      BY <1>1 DEF pgVars
    <3>2. PICK q \in Clients : Statement(q) \/ Deadlock(q) \/ Fail(q)
      BY <1>1, <2>2, <3>1 DEF PgNext
    <3>. QED
      BY <1>1, <2>1, <3>2, ReturnShape
  <2>4. /\ CreateBatchInsert(p)
        /\ NextEntry(p) \in Committed \cup Made(p)
        /\ NextEntry(p)[1] # "short_code"
    BY <1>1, <2>3, UniqueStep
  <2>5. /\ InTx(p) /\ call[p].op = "createBatch" /\ batch \in Seq(NewURL)
        /\ got[p] \in Nat /\ got[p] + 1 \in 1 .. 2 * Len(batch)
        /\ DOMAIN batch = 1 .. Len(batch)
    <3>1. InTx(p) /\ got[p] < 2 * Len(batch)
      BY <2>4 DEF CreateBatchInsert, HasNext
    <3>2. batch \in Seq(NewURL) /\ got[p] \in 0 .. 2 * Len(batch)
      BY <1>1, <3>1, Facts
    <3>. QED
      BY <3>1, <3>2 DEF InTx
  <2>6. PICK k \in 1 .. Len(batch) :
          got[p] + 1 = 2 * k /\ NextEntry(p) = URL(batch[k].originalURL)
    <3>. DEFINE n == got[p] + 1
    <3>1. NextEntry(p) = Entries(batch)[n] /\ n \in 1 .. 2 * Len(batch)
      BY <2>5 DEF NextEntry
    <3>. HIDE DEF n
    <3>2. PICK k \in 1 .. Len(batch) :
            \/ Entries(batch)[n] = Code(batch[k].shortCode)
            \/ n = 2 * k /\ Entries(batch)[n] = URL(batch[k].originalURL)
      BY <2>5, <3>1, EntryCases
    <3>3. NextEntry(p) # Code(batch[k].shortCode)
      BY <2>4, EntryKinds
    <3>. QED
      BY <3>1, <3>2, <3>3 DEF n
  <2>7. CASE NextEntry(p) \in Committed
    BY <2>5, <2>6, <2>7 DEF URLTaken
  <2>8. CASE NextEntry(p) \in Made(p)
    <3>1. PICK n \in 1 .. got[p] : NextEntry(p) = Entries(batch)[n]
      BY <2>5, <2>8 DEF Made
    <3>2. n \in 1 .. 2 * Len(batch)
      BY <2>5
    <3>3. PICK j \in 1 .. Len(batch) :
            n = 2 * j /\ Entries(batch)[n] = URL(batch[j].originalURL)
      BY <2>4, <2>5, <3>1, <3>2, EntryCases, EntryKinds
    <3>4. j # k /\ batch[j].originalURL = batch[k].originalURL
      <4>1. URL(batch[j].originalURL) = URL(batch[k].originalURL)
        BY <2>6, <3>1, <3>3
      <4>2. j # k
        BY <2>5, <2>6, <3>3
      <4>. QED
        BY <4>1, <4>2, EntryKinds
    <3>. QED
      BY <2>5, <3>4 DEF URLTaken
  <2>. QED
    BY <2>4, <2>5, <2>7, <2>8
<1>2. IInv /\ [PgNext]_pgVars =>
        [\A p \in Clients :
           call[p] # NoCall /\ call'[p] = NoCall /\ reply'[p] = OtherError("unique") =>
             call[p].op = "createBatch" /\ URLTaken(call[p].rows)]_pgVars
  BY <1>1
<1>. QED
  BY <1>2, SpecIInv, PTL DEF PgSpec, TakenCodesAreNamed

-----------------------------------------------------------------------------
(***************************************************************************)
(* The refinement: a statement, or the commit of a batch, is a step of the *)
(* store; a failure that has changed nothing is its Refuse; the rest       *)
(* leaves rows, call and the answers as they are.                          *)
(***************************************************************************)
LEMMA StoreAnswers ==
  /\ \A ans \in Answer : StoreAnswer(ans) = ans
  /\ StoreAnswer(OtherError("lost")) = Nothing
  /\ \A why \in {"failed", "unique"} : StoreAnswer(OtherError(why)) = CtxError
<1>1. \A why : OtherError(why) = OtherError("lost") => why = "lost"
  BY AnswersAreNamed
<1>. QED
  BY <1>1, AnswersAreNamed DEF StoreAnswer

\* The answer that the store gives when p returns with ans.
LEMMA StoreReturns ==
  ASSUME IInv, NEW p \in Clients, NEW ans, Return(p, ans)
  PROVE  Store!Return(p, StoreAnswer(ans))
<1>. DEFINE answers == [q \in Clients |-> StoreAnswer(reply[q])]
            answers2 == [q \in Clients |-> StoreAnswer(reply'[q])]
<1>1. reply' = [reply EXCEPT ![p] = ans] /\ call' = [call EXCEPT ![p] = NoCall]
  BY ReturnShape
<1>2. \A q \in Clients : reply'[q] = IF q = p THEN ans ELSE reply[q]
  BY <1>1, Facts
<1>3. answers2 = [answers EXCEPT ![p] = StoreAnswer(ans)]
  BY <1>2
<1>. QED
  BY <1>1, <1>3 DEF Store!Return

\* The store's names for the answers are the model's.
LEMMA StoreNames ==
  /\ Store!Nothing = Nothing /\ Store!CtxError = CtxError
  /\ Store!ErrConflictShortCode = ErrConflictShortCode
  /\ Store!ErrNoRows = ErrNoRows
  /\ \A k : Store!BatchConflictError(k) = BatchConflictError(k)
  /\ \A c : Store!OriginalURLConflictError(c) = OriginalURLConflictError(c)
  /\ \A codes : Store!Listed(codes) = Listed(codes)
  /\ \A row : Store!GetAnswer(row) = GetAnswer(row)
  /\ \A row, uid : Store!ListedFor(row, uid) = ListedFor(row, uid)
  /\ \A row : Store!Deleted(row) = Deleted(row)
  BY DEF Store!Nothing, Nothing, Store!CtxError, CtxError,
         Store!ErrConflictShortCode, ErrConflictShortCode, Store!ErrNoRows,
         ErrNoRows, Store!BatchConflictError, BatchConflictError,
         Store!OriginalURLConflictError, OriginalURLConflictError, Store!Listed,
         Listed, Store!GetAnswer, GetAnswer, Store!ErrNotExists, ErrNotExists,
         Store!ErrRowGone, ErrRowGone, Store!Found, Found, Store!ListedFor,
         ListedFor, Store!Deleted, Deleted

\* A call that is running is a call of the store.
LEMMA InStoreCall ==
  ASSUME IInv, NEW p \in Clients, pc[p] # "idle"
  PROVE  /\ call[p] # NoCall /\ call[p] \in Requests
         /\ \A op : Store!InCall(p, op) <=> call[p].op = op
  BY Facts DEF Store!InCall

\* A call that fails with the table as it was.
LEMMA BreakRefines ==
  ASSUME IInv, NEW p \in Clients, pc[p] # "idle",
         Break(p, "failed") \/ Break(p, "unique")
  PROVE  Store!Refuse(p)
<1>1. PICK why \in {"failed", "unique"} : Break(p, why)
  OBVIOUS
<1>2. rows' = rows /\ Return(p, OtherError(why))
  BY <1>1 DEF Break
<1>3. Store!Return(p, StoreAnswer(OtherError(why)))
  BY <1>2, StoreReturns
<1>4. Store!Return(p, Store!CtxError)
  BY <1>3, StoreAnswers, StoreNames
<1>. QED
  BY <1>2, <1>4, InStoreCall DEF Store!Refuse

\* A write that took effect is the abstract success, its answer lost or not.
LEMMA DoneRefines ==
  ASSUME IInv, NEW p \in Clients, Done(p)
  PROVE  Store!Return(p, Store!Nothing)
<1>1. PICK ans \in {Nothing, OtherError("lost")} : Return(p, ans)
  BY DoneReturns
<1>2. StoreAnswer(ans) = Store!Nothing
  BY AnswerTypes, StoreAnswers, StoreNames
<1>. QED
  BY <1>1, <1>2, StoreReturns

\* Any other answer is the abstract answer of the same kind.
LEMMA AnswerRefines ==
  ASSUME IInv, NEW p \in Clients, NEW ans \in Answer, Return(p, ans)
  PROVE  Store!Return(p, ans)
  BY StoreReturns, StoreAnswers

\* Create is atomic: it inserts, finds the URL, or meets a taken code.
LEMMA CreateRefines ==
  ASSUME IInv, NEW p \in Clients, Create(p)
  PROVE  Store!Create(p)
<1>. DEFINE new == call[p].row
            sameURL(c) == rows[c] # NoRow /\ rows[c].originalURL = new.originalURL
<1>1. Store!InCall(p, "create")
  BY InStoreCall DEF Create, Runs
<1>2. ASSUME NEW c \in ShortCodes, sameURL(c), UNCHANGED rows,
             Return(p, OriginalURLConflictError(c))
      PROVE  Store!Create(p)
  <2>1. Store!Return(p, Store!OriginalURLConflictError(c))
    BY <1>2, AnswerTypes, AnswerRefines, StoreNames
  <2>. QED
    BY <1>1, <1>2, <2>1 DEF Store!Create
<1>3. CASE /\ rows[new.shortCode] # NoRow
           /\ UNCHANGED rows /\ Return(p, ErrConflictShortCode)
  <2>1. Store!Return(p, Store!ErrConflictShortCode)
    BY <1>3, AnswerTypes, AnswerRefines, StoreNames
  <2>. QED
    BY <1>1, <1>3, <2>1 DEF Store!Create
<1>4. CASE /\ \A c \in ShortCodes : ~sameURL(c)
           /\ rows[new.shortCode] = NoRow
           /\ rows' = [rows EXCEPT ![new.shortCode] = new]
           /\ Done(p)
  BY <1>1, <1>4, DoneRefines DEF Store!Create
<1>. QED
  BY <1>2, <1>3, <1>4 DEF Create

\* The statements of a batch change nothing until one meets a conflict.
LEMMA InsertRefines ==
  ASSUME IInv, NEW p \in Clients, CreateBatchInsert(p)
  PROVE  \/ Store!CreateBatch(p) \/ Store!Refuse(p)
         \/ UNCHANGED <<rows, call, reply>>
<1>. DEFINE batch == call[p].rows
            n == got[p] + 1
            entry == NextEntry(p)
<1>1. /\ InTx(p) /\ pc[p] # "idle" /\ batch \in Seq(NewURL)
      /\ DOMAIN batch = 1 .. Len(batch)
      /\ n \in 1 .. 2 * Len(batch) /\ got[p] = n - 1 /\ got[p] \in Nat
  <2>1. InTx(p) /\ got[p] < 2 * Len(batch)
    BY DEF CreateBatchInsert, HasNext
  <2>2. batch \in Seq(NewURL) /\ got[p] \in 0 .. 2 * Len(batch)
    BY <2>1, Facts
  <2>. QED
    BY <2>1, <2>2 DEF InTx
<1>2. entry = Entries(batch)[n]
  BY DEF NextEntry
<1>3. CASE entry[1] # "short_code" /\ Break(p, "unique")
  BY <1>1, <1>3, BreakRefines
<1>4. CASE /\ entry[1] = "short_code" /\ entry \in Committed \cup Made(p)
           /\ UNCHANGED rows
           /\ Return(p, BatchConflictError(got[p] \div 2 + 1))
  <2>. HIDE DEF n, entry
  <2>1. PICK k \in 1 .. Len(batch) :
          \/ /\ n = 2 * k - 1 /\ (n - 1) \div 2 + 1 = k
             /\ Entries(batch)[n] = Code(batch[k].shortCode)
          \/ /\ n = 2 * k
             /\ Entries(batch)[n] = URL(batch[k].originalURL)
    BY <1>1, EntryCases
  <2>2. /\ n = 2 * k - 1 /\ got[p] \div 2 + 1 = k
        /\ entry = Code(batch[k].shortCode)
    BY <1>1, <1>2, <1>4, <2>1, EntryKinds
  <2>3. \/ rows[batch[k].shortCode] # NoRow
        \/ \E j \in 1 .. k - 1 : batch[j].shortCode = batch[k].shortCode
    <3>1. CASE entry \in Committed
      BY <2>2, <3>1, EntryKinds DEF Committed
    <3>2. CASE entry \in Made(p)
      <4>1. PICK m \in 1 .. got[p] : Entries(batch)[m] = entry
        BY <1>1, <3>2 DEF Made
      <4>2. m \in 1 .. 2 * Len(batch)
        BY <1>1
      <4>3. PICK j \in 1 .. Len(batch) :
              m = 2 * j - 1 /\ Entries(batch)[m] = Code(batch[j].shortCode)
        <5>1. PICK j \in 1 .. Len(batch) :
                \/ m = 2 * j - 1 /\ Entries(batch)[m] = Code(batch[j].shortCode)
                \/ Entries(batch)[m] = URL(batch[j].originalURL)
          BY <1>1, <4>2, EntryCases
        <5>2. Entries(batch)[m] # URL(batch[j].originalURL)
          BY <2>2, <4>1, EntryKinds
        <5>. QED
          BY <5>1, <5>2
      <4>4. j \in 1 .. k - 1
        BY <1>1, <2>2, <4>3
      <4>. QED
        BY <2>2, <4>1, <4>3, <4>4, EntryKinds
    <3>. QED
      BY <1>4, <3>1, <3>2
  <2>4. Store!Return(p, Store!BatchConflictError(k))
    BY <1>4, <2>2, AnswerTypes, AnswerRefines, StoreNames
  <2>5. Store!InCall(p, "createBatch")
    BY <1>1, InStoreCall DEF InTx
  <2>. QED
    BY <1>1, <1>4, <2>3, <2>4, <2>5 DEF Store!CreateBatch
<1>. QED
  BY <1>3, <1>4 DEF CreateBatchInsert, UniqueViolation

\* The commit of a batch is the abstract call.
LEMMA CommitRefines ==
  ASSUME IInv, NEW p \in Clients, CreateBatchCommit(p)
  PROVE  Store!CreateBatch(p)
<1>. DEFINE batch == call[p].rows
<1>1. /\ InTx(p) /\ pc[p] # "idle" /\ ~HasNext(p) /\ Store!InCall(p, "createBatch")
  BY InStoreCall DEF CreateBatchCommit, InTx
<1>2. /\ \A k \in DOMAIN batch : rows[batch[k].shortCode] = NoRow
      /\ \A j, k \in DOMAIN batch :
           batch[j].shortCode = batch[k].shortCode => j = k
  BY <1>1, CompleteBatch
<1>3. rows' = [c \in ShortCodes |->
                 IF c \in Store!CodesOf(batch) THEN Store!RowFor(batch, c)
                 ELSE rows[c]]
  BY DEF CreateBatchCommit, Commit, CodesOf, RowFor, Store!CodesOf, Store!RowFor
<1>4. Store!Return(p, Store!Nothing)
  BY DoneRefines DEF CreateBatchCommit
<1>. QED
  BY <1>1, <1>2, <1>3, <1>4 DEF Store!CreateBatch

\* A delete marks the rows of its user, which the abstract one may choose.
LEMMA SoftDeleteRefines ==
  ASSUME IInv, NEW p \in Clients, SoftDeleteURLs(p)
  PROVE  Store!SoftDelete(p)
<1>. DEFINE uid == call[p].uid
            codes == {call[p].shortCodes[k] : k \in DOMAIN call[p].shortCodes}
            marked == {c \in codes : rows[c] # NoRow /\ rows[c].userID = uid}
<1>1. Store!InCall(p, "softDelete") /\ Store!Return(p, Store!Nothing)
  BY InStoreCall, DoneRefines DEF SoftDeleteURLs, Runs
<1>2. rows' = [c \in ShortCodes |->
                 IF c \in marked THEN Store!Deleted(rows[c]) ELSE rows[c]]
  BY StoreNames DEF SoftDeleteURLs
<1>3. /\ marked \in SUBSET codes /\ \A c \in marked : rows[c] # NoRow
      /\ \A c \in codes \ marked : rows[c] # NoRow => rows[c].userID # uid
  OBVIOUS
<1>. HIDE DEF marked
<1>. QED
  BY <1>1, <1>2, <1>3 DEF Store!SoftDelete

\* Get and GetURLs read the committed table.
LEMMA ReadersRefine ==
  ASSUME IInv, NEW p \in Clients, Get(p) \/ GetURLs(p)
  PROVE  Store!Get(p) \/ Store!GetURLs(p)
<1>1. CASE Get(p)
  <2>1. pc[p] # "idle" /\ call[p] \in Requests /\ call[p].op = "get"
    BY <1>1, Facts DEF Get, Runs
  <2>2. rows[call[p].shortCode] \in ShortenedURL \cup {NoRow}
    BY <2>1, RequestShapes, TableRows, Facts
  <2>3. Store!Return(p, GetAnswer(rows[call[p].shortCode]))
    BY <1>1, <2>2, AnswerTypes, AnswerRefines DEF Get
  <2>. QED
    BY <1>1, <2>1, <2>3, InStoreCall, StoreNames DEF Get, Store!Get
<1>2. CASE GetURLs(p)
  <2>. DEFINE uid == call[p].uid
              codes == {c \in ShortCodes : ListedFor(rows[c], uid)}
  <2>1. Store!InCall(p, "getURLs") /\ rows' = rows
    BY <1>2, InStoreCall DEF GetURLs, Runs
  <2>2. /\ codes \in SUBSET ShortCodes
        /\ \A c \in codes : Store!ListedFor(rows[c], uid)
        /\ \A c \in ShortCodes \ codes : ~Store!ListedFor(rows[c], uid)
    BY StoreNames
  <2>3. \/ Store!Return(p, Store!Listed(codes))
        \/ codes = {} /\ Store!Return(p, Store!ErrNoRows)
    <3>1. Listed(codes) \in Answer /\ ErrNoRows \in Answer
      BY <2>2, AnswerTypes
    <3>. QED
      BY <1>2, <3>1, AnswerRefines, StoreNames DEF GetURLs
  <2>. HIDE DEF codes
  <2>. QED
    BY <2>1, <2>2, <2>3 DEF Store!GetURLs
<1>. QED
  BY <1>1, <1>2

(***************************************************************************)
(* PostgresRepository implements the store: a batch is stored whole or not *)
(* at all whatever other transactions do, and a call whose answer is lost  *)
(* has still taken effect at one moment.                                   *)
(***************************************************************************)
THEOREM Refinement == PgSpec => ImplementsURLStore
<1>. DEFINE answers == [p \in Clients |-> StoreAnswer(reply[p])]
<1>1. PgInit => Store!StoreInit
  <2>. SUFFICES ASSUME PgInit PROVE Store!StoreInit
    OBVIOUS
  <2>1. answers = [p \in Clients |-> Store!Nothing]
    BY StoreAnswers, StoreNames, AnswerTypes DEF PgInit
  <2>. QED
    BY <2>1 DEF PgInit, Store!StoreInit
<1>2. IInv /\ [PgNext]_pgVars => [Store!StoreNext]_<<rows, call, answers>>
  <2>. SUFFICES ASSUME IInv, [PgNext]_pgVars
                PROVE  Store!StoreNext \/ UNCHANGED <<rows, call, reply>>
    OBVIOUS
  <2>1. ASSUME NEW p \in Clients, Invoke(p) PROVE Store!Invoke(p)
    BY <2>1, Facts DEF Invoke, Store!Invoke
  <2>2. ASSUME NEW p \in Clients, Acquire(p) PROVE UNCHANGED <<rows, call, reply>>
    BY <2>2 DEF Acquire
  <2>3. ASSUME NEW p \in Clients, Deadlock(p) \/ Fail(p) PROVE Store!Refuse(p)
    BY <2>3, BreakRefines DEF Deadlock, Fail, WaitsFor, HasNext, InTx
  <2>4. ASSUME NEW p \in Clients, Statement(p)
        PROVE  Store!StoreNext \/ UNCHANGED <<rows, call, reply>>
    BY <2>4, CreateRefines, InsertRefines, CommitRefines, SoftDeleteRefines,
       ReadersRefine DEF Statement, Store!StoreNext
  <2>5. CASE UNCHANGED pgVars
    BY <2>5 DEF pgVars
  <2>. QED
    BY <2>1, <2>2, <2>3, <2>4, <2>5 DEF PgNext, Store!StoreNext
<1>. QED
  BY <1>1, <1>2, SpecIInv, PTL
  DEF PgSpec, ImplementsURLStore, Store!StoreSpec, Store!storeVars
=============================================================================
