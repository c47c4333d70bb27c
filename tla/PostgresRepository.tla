------------------------- MODULE PostgresRepository -------------------------
(***************************************************************************)
(* PostgresRepository (internal/repository/url/postgres.go), called by     *)
(* concurrent goroutines, over the table that the migrations create.       *)
(*                                                                         *)
(* Every method but CreateBatch runs one statement, which takes effect at  *)
(* one moment.  CreateBatch sends its INSERTs in one transaction, and each *)
(* of them makes an entry in the unique index of short_code, then in that  *)
(* of original_url.  As long as the transaction is open, its entries are   *)
(* invisible to reads, and an INSERT that meets one waits for the          *)
(* transaction to end.  PostgreSQL ends a circle of waits by aborting one  *)
(* of its members.                                                         *)
(***************************************************************************)
EXTENDS URLModel, FiniteSets

CONSTANTS
  PoolSize,  (* the connections the pool may open              *)
  Faults     (* whether contexts end and connections break     *)

ASSUME PoolSizeAssumption == PoolSize \in Nat \ {0}
ASSUME FaultsAssumption == Faults \in BOOLEAN

VARIABLES
  rows,    (* the committed table: code -> row or NoRow                      *)
  call,    (* the arguments of each client's call                            *)
  pc,      (* "idle", "called", or "running" with a connection of the pool   *)
  got,     (* the index entries that the transaction of each client has made *)
  reply    (* the answer to each client's last call                          *)

pgVars == <<rows, call, pc, got, reply>>

\* The errors that callers do not tell apart, by their cause: "failed" (a
\* context that is done, a broken connection, a deadlock), "lost" (the same
\* after the database had done its work), "unique" (another unique violation).
OtherError(why) == [err |-> "error", why |-> why]

PgInit ==
  /\ rows = [c \in ShortCodes |-> NoRow]
  /\ call = [p \in Clients |-> NoCall]
  /\ pc = [p \in Clients |-> "idle"]
  /\ got = [p \in Clients |-> 0]
  /\ reply = [p \in Clients |-> Nothing]

-----------------------------------------------------------------------------
(***************************************************************************)
(* The unique indexes.                                                     *)
(***************************************************************************)
Code(c) == <<"short_code", c>>
URL(u) == <<"original_url", u>>

\* Faulty variant: original_url has an index, but not a unique one.
EntriesOfCodes(batch) ==
  [k \in 1 .. 2 * Len(batch) |->
     IF k % 2 = 1 THEN Code(batch[(k + 1) \div 2].shortCode)
                  ELSE <<"other", batch[k \div 2]>>]

\* The entries that the INSERTs of a batch make, in their order.
Entries(batch) ==
  [k \in 1 .. 2 * Len(batch) |->
     IF k % 2 = 1 THEN Code(batch[(k + 1) \div 2].shortCode)
                  ELSE URL(batch[k \div 2].originalURL)]

Committed ==
  {Code(c) : c \in {c \in ShortCodes : rows[c] # NoRow}}
    \cup {URL(rows[c].originalURL) : c \in {c \in ShortCodes : rows[c] # NoRow}}

InTx(p) == pc[p] = "running" /\ call[p].op = "createBatch"
Made(p) == IF InTx(p) THEN {Entries(call[p].rows)[k] : k \in 1 .. got[p]} ELSE {}
Pending(p, entry) == \E q \in Clients \ {p} : entry \in Made(q)

HasNext(p) == InTx(p) /\ got[p] < 2 * Len(call[p].rows)
NextEntry(p) == Entries(call[p].rows)[got[p] + 1]

\* p waits for the transaction of q.
WaitsFor(p, q) == p # q /\ HasNext(p) /\ NextEntry(p) \in Made(q)

-----------------------------------------------------------------------------
Invoke(p) ==
  /\ pc[p] = "idle"
  /\ \E r \in Requests : call' = [call EXCEPT ![p] = r]
  /\ pc' = [pc EXCEPT ![p] = "called"]
  /\ UNCHANGED <<rows, got, reply>>

\* The pool gives the call a connection.
Acquire(p) ==
  /\ pc[p] = "called"
  /\ Cardinality({q \in Clients : pc[q] = "running"}) < PoolSize
  /\ pc' = [pc EXCEPT ![p] = "running"]
  /\ UNCHANGED <<rows, call, got, reply>>

Runs(p, op) == pc[p] = "running" /\ call[p].op = op

\* Faulty variant: the transaction stays open on an error, without the
\* deferred Rollback, and keeps its connection and its entries.
EndKeepsTx(p) ==
  IF InTx(p) /\ rows' = rows
    THEN UNCHANGED <<pc, call, got>>
    ELSE /\ pc' = [pc EXCEPT ![p] = "idle"]
         /\ call' = [call EXCEPT ![p] = NoCall]
         /\ got' = [got EXCEPT ![p] = 0]

\* The call returns: its transaction has ended, its connection is back.
End(p) ==
  /\ pc' = [pc EXCEPT ![p] = "idle"]
  /\ call' = [call EXCEPT ![p] = NoCall]
  /\ got' = [got EXCEPT ![p] = 0]

Return(p, ans) ==
  /\ reply' = [reply EXCEPT ![p] = ans]
  /\ End(p)

\* The call fails and the database has done nothing.
Break(p, why) ==
  /\ UNCHANGED rows
  /\ Return(p, OtherError(why))

\* A statement that writes has taken effect; its answer arrives, or is lost
\* with the connection or with the context of the call.
Done(p) ==
  \/ Return(p, Nothing)
  \/ Faults /\ Return(p, OtherError("lost"))

\* ctx.Err() at the start, no connection, or one that breaks on the way.
Fail(p) ==
  /\ Faults
  /\ pc[p] # "idle"
  /\ Break(p, "failed")

-----------------------------------------------------------------------------
(***************************************************************************)
(* INSERT ... ON CONFLICT (original_url) DO UPDATE ... RETURNING.  The URL *)
(* is looked up first; a known one is answered with the code of its row.   *)
(* The statement makes no entry before it can make both.                   *)
(***************************************************************************)
Create(p) ==
  /\ Runs(p, "create")
  /\ LET new == call[p].row
         sameURL(c) == rows[c] # NoRow /\ rows[c].originalURL = new.originalURL
     IN \/ \E c \in ShortCodes :
             /\ sameURL(c)
             /\ UNCHANGED rows
             /\ Return(p, OriginalURLConflictError(c))
        \/ /\ \A c \in ShortCodes : ~sameURL(c)
           /\ ~Pending(p, URL(new.originalURL))
           /\ \/ /\ rows[new.shortCode] # NoRow
                 /\ UNCHANGED rows
                 /\ Return(p, ErrConflictShortCode)
              \/ /\ rows[new.shortCode] = NoRow
                 /\ ~Pending(p, Code(new.shortCode))
                 /\ rows' = [rows EXCEPT ![new.shortCode] = new]
                 /\ Done(p)

\* Faulty variant: the name of the constraint is not recognised.
UniqueViolationOther(p, entry) == Break(p, "unique")

\* The error of br.Exec for a row whose entry exists: BatchConflictError only
\* for the constraint shortened_urls_short_code_key.
UniqueViolation(p, entry) ==
  IF entry[1] = "short_code"
    THEN /\ UNCHANGED rows
         /\ Return(p, BatchConflictError(got[p] \div 2 + 1))
    ELSE Break(p, "unique")

CreateBatchInsert(p) ==
  /\ HasNext(p)
  /\ ~Pending(p, NextEntry(p))
  /\ \/ /\ NextEntry(p) \in Committed \cup Made(p)
        /\ UniqueViolation(p, NextEntry(p))
     \/ /\ NextEntry(p) \notin Committed \cup Made(p)
        /\ got' = [got EXCEPT ![p] = @ + 1]
        /\ UNCHANGED <<rows, call, pc, reply>>

\* Faulty variant: the commit is left to the rollback.
CommitNothing(p) == UNCHANGED rows

\* tx.Commit: the rows of the batch are in the table.
Commit(p) ==
  LET batch == call[p].rows
  IN rows' = [c \in ShortCodes |->
                IF c \in CodesOf(batch) THEN RowFor(batch, c) ELSE rows[c]]

CreateBatchCommit(p) ==
  /\ InTx(p)
  /\ ~HasNext(p)
  /\ Commit(p)
  /\ Done(p)

\* p is in a circle of waits, and PostgreSQL aborts its transaction.
Deadlock(p) ==
  /\ \E S \in SUBSET Clients :
       /\ p \in S
       /\ \A q \in S : (\E r \in S : WaitsFor(q, r)) /\ (\E r \in S : WaitsFor(r, q))
  /\ Break(p, "failed")

-----------------------------------------------------------------------------
\* The user's own rows among the codes are marked by one UPDATE.
SoftDeleteURLs(p) ==
  /\ Runs(p, "softDelete")
  /\ LET codes == {call[p].shortCodes[k] : k \in DOMAIN call[p].shortCodes}
     IN rows' = [c \in ShortCodes |->
                   IF c \in codes /\ rows[c] # NoRow /\ rows[c].userID = call[p].uid
                     THEN Deleted(rows[c]) ELSE rows[c]]
  /\ Done(p)

Get(p) ==
  /\ Runs(p, "get")
  /\ UNCHANGED rows
  /\ Return(p, GetAnswer(rows[call[p].shortCode]))

GetURLs(p) ==
  /\ Runs(p, "getURLs")
  /\ UNCHANGED rows
  /\ LET codes == {c \in ShortCodes : ListedFor(rows[c], call[p].uid)}
     IN Return(p, IF codes = {} THEN ErrNoRows ELSE Listed(codes))

-----------------------------------------------------------------------------
Statement(p) ==
  \/ Create(p) \/ CreateBatchInsert(p) \/ CreateBatchCommit(p)
  \/ SoftDeleteURLs(p) \/ Get(p) \/ GetURLs(p)

PgNext ==
  \E p \in Clients :
    Invoke(p) \/ Acquire(p) \/ Statement(p) \/ Deadlock(p) \/ Fail(p)

PgSpec == PgInit /\ [][PgNext]_pgVars

(***************************************************************************)
(* The pool and the lock table of PostgreSQL serve those who wait in the   *)
(* order in which they came, and a circle of waits is found.               *)
(***************************************************************************)
PgFairSpec ==
  /\ PgSpec
  /\ \A p \in Clients : SF_pgVars(Acquire(p)) /\ SF_pgVars(Statement(p))
  /\ WF_pgVars(\E p \in Clients : Deadlock(p))

-----------------------------------------------------------------------------
PgTypeOK ==
  /\ rows \in [ShortCodes -> NewURL \cup {Deleted(row) : row \in NewURL} \cup {NoRow}]
  /\ pc \in [Clients -> {"idle", "called", "running"}]
  /\ reply \in [Clients -> Answer \cup
                  {OtherError(why) : why \in {"failed", "lost", "unique"}}]
  /\ Cardinality({p \in Clients : pc[p] = "running"}) <= PoolSize
  /\ \A p \in Clients :
       /\ IF pc[p] = "idle" THEN call[p] = NoCall ELSE call[p] \in Requests
       /\ got[p] \in IF InTx(p) THEN 0 .. 2 * Len(call[p].rows) ELSE {0}

(***************************************************************************)
(* A URL has one code, whichever transactions race for it: the table never *)
(* holds two rows of a URL, and no two open transactions have made the     *)
(* same entry, or one that the table has.                                  *)
(***************************************************************************)
OneCodePerURL ==
  /\ \A c, d \in ShortCodes :
       rows[c] # NoRow /\ rows[d] # NoRow /\ rows[c].originalURL = rows[d].originalURL
         => c = d
  /\ \A p \in Clients : \A entry \in Made(p) :
       entry \notin Committed /\ ~Pending(p, entry)

(***************************************************************************)
(* A unique violation without a name of its own is a batch's, with a URL   *)
(* that is in the table or twice in the batch: a code that is taken always *)
(* has an error that the service retries on.                               *)
(***************************************************************************)
URLTaken(batch) ==
  \E k \in DOMAIN batch :
    \/ URL(batch[k].originalURL) \in Committed
    \/ \E j \in DOMAIN batch : j # k /\ batch[j].originalURL = batch[k].originalURL

TakenCodesAreNamed ==
  [][\A p \in Clients :
       call[p] # NoCall /\ call'[p] = NoCall /\ reply'[p] = OtherError("unique") =>
         call[p].op = "createBatch" /\ URLTaken(call[p].rows)]_pgVars

(***************************************************************************)
(* The table, and the answers as the database gave them, are those of the  *)
(* abstract store that the service counts on: a batch is one step, seen    *)
(* whole or not at all.                                                    *)
(***************************************************************************)
StoreAnswer(ans) ==
  IF ans = OtherError("lost") THEN Nothing
  ELSE IF ans.err = "error" THEN CtxError ELSE ans

Store == INSTANCE URLStore WITH reply <- [p \in Clients |-> StoreAnswer(reply[p])]
ImplementsURLStore == Store!StoreSpec

(***************************************************************************)
(* Every call returns: waits for transactions end, circles of them         *)
(* included.  (With fewer connections than callers so do the waits for a   *)
(* connection.)                                                            *)
(***************************************************************************)
EveryPgCallReturns == \A p \in Clients : pc[p] # "idle" ~> pc[p] = "idle"
=============================================================================
