-------------------------- MODULE CacheRepository --------------------------
(***************************************************************************)
(* CacheRepository: the in-memory implementation of URLRepository          *)
(* (internal/repository/url/inmemory.go) over the map of internal/core/    *)
(* cache, called by concurrent goroutines.                                 *)
(*                                                                         *)
(* r.mu is held by at most one writer.  A method that touches the cache    *)
(* once, or that only reads it, under r.mu is one step taken while no      *)
(* writer holds r.mu: nobody can see it half done.  CreateBatch and        *)
(* SoftDeleteURLs call c.Set in a loop, and c.Snapshot, which GetURLs      *)
(* calls without r.mu, can see between two of these calls; so they take    *)
(* r.mu in one step and make one step per c.Set.                           *)
(***************************************************************************)
EXTENDS URLModel

CONSTANTS
  NoCode,   (* originalMap has no entry for the URL *)
  Nobody    (* r.mu has no writer                   *)

ASSUME NoCodeAssumption == NoCode \notin ShortCodes
ASSUME NobodyAssumption == Nobody \notin Clients

VARIABLES
  storage,      (* c.storage: code -> row or NoRow           *)
  originalMap,  (* r.originalMap: URL -> code or NoCode      *)
  mu,           (* the writer that holds r.mu, or Nobody     *)
  pc,           (* where each client is in its call          *)
  call,         (* the arguments of each client's call       *)
  i,            (* the index of each client's loop           *)
  reply,        (* the answer to each client's last call     *)
  committed     (* auxiliary: storage when r.mu was last free *)

vars == <<storage, originalMap, mu, pc, call, i, reply, committed>>

Init ==
  /\ storage = [c \in ShortCodes |-> NoRow]
  /\ originalMap = [u \in OriginalURLs |-> NoCode]
  /\ mu = Nobody
  /\ pc = [p \in Clients |-> "idle"]
  /\ call = [p \in Clients |-> NoCall]
  /\ i = [p \in Clients |-> 1]
  /\ reply = [p \in Clients |-> Nothing]
  /\ committed = storage

-----------------------------------------------------------------------------
Invoke(p) ==
  /\ pc[p] = "idle"
  /\ pc' = [pc EXCEPT ![p] = "called"]
  /\ \E r \in Requests : call' = [call EXCEPT ![p] = r]
  /\ UNCHANGED <<storage, originalMap, mu, i, reply, committed>>

Called(p, op) == pc[p] = "called" /\ call[p].op = op

\* The call ends, and its local variables with it.
Return(p, answer) ==
  /\ pc' = [pc EXCEPT ![p] = "idle"]
  /\ call' = [call EXCEPT ![p] = NoCall]
  /\ i' = [i EXCEPT ![p] = 1]
  /\ reply' = [reply EXCEPT ![p] = answer]

\* Every method first returns ctx.Err() when its context is done.
CtxDone(p) ==
  /\ pc[p] = "called"
  /\ Return(p, CtxError)
  /\ UNCHANGED <<storage, originalMap, mu, committed>>

\* r.mu.Lock(), then the loop, i still at the first element.
EnterLoop(p, label) ==
  /\ mu' = p
  /\ pc' = [pc EXCEPT ![p] = label]
  /\ UNCHANGED <<storage, originalMap, call, i, reply, committed>>

\* The deferred r.mu.Unlock() and the return.
UnlockAndReturn(p, answer) ==
  /\ mu' = Nobody
  /\ Return(p, answer)
  /\ committed' = storage'

-----------------------------------------------------------------------------
\* Faulty variant: the reverse index is forgotten.
SetStorageOnly(row) ==
  /\ storage' = [storage EXCEPT ![row.shortCode] = row]
  /\ UNCHANGED originalMap

\* c.Set and the write of r.originalMap.
Set(row) ==
  /\ storage' = [storage EXCEPT ![row.shortCode] = row]
  /\ originalMap' = [originalMap EXCEPT ![row.originalURL] = row.shortCode]

Create(p) ==
  /\ Called(p, "create")
  /\ mu = Nobody
  /\ LET new == call[p].row
         known == originalMap[new.originalURL]
     IN \/ /\ known # NoCode
           /\ UNCHANGED <<storage, originalMap>>
           /\ UnlockAndReturn(p, OriginalURLConflictError(known))
        \/ /\ known = NoCode
           /\ storage[new.shortCode] # NoRow
           /\ UNCHANGED <<storage, originalMap>>
           /\ UnlockAndReturn(p, ErrConflictShortCode)
        \/ /\ known = NoCode
           /\ storage[new.shortCode] = NoRow
           /\ Set(new)
           /\ UnlockAndReturn(p, Nothing)

\* Faulty variants: the table, or its deleted rows, are not looked at.
ConflictsInBatch(batch) ==
  {k \in DOMAIN batch :
     \E j \in 1 .. k - 1 : batch[j].shortCode = batch[k].shortCode}
ConflictsWithLive(batch) ==
  ConflictsInBatch(batch) \cup
    {k \in DOMAIN batch : LET row == storage[batch[k].shortCode]
                          IN row # NoRow /\ ~row.isDeleted}

\* The elements of a batch whose code is stored or came before (seenShort).
Conflicts(batch) ==
  {k \in DOMAIN batch :
     \/ storage[batch[k].shortCode] # NoRow
     \/ \E j \in 1 .. k - 1 : batch[j].shortCode = batch[k].shortCode}

\* The first loop of CreateBatch: under r.mu, and it only reads.
CreateBatchCheck(p) ==
  /\ Called(p, "createBatch")
  /\ mu = Nobody
  /\ LET batch == call[p].rows
     IN \/ /\ UNCHANGED <<storage, originalMap>>
           /\ \E k \in Conflicts(batch) :
                /\ \A j \in Conflicts(batch) : k <= j
                /\ UnlockAndReturn(p, BatchConflictError(k))
        \/ /\ batch = <<>>
           /\ UNCHANGED <<storage, originalMap>>
           /\ UnlockAndReturn(p, Nothing)
        \/ /\ batch # <<>>
           /\ Conflicts(batch) = {}
           /\ EnterLoop(p, "setting")

\* The second loop: one c.Set and one write of originalMap.
CreateBatchSet(p) ==
  /\ pc[p] = "setting"
  /\ Set(call[p].rows[i[p]])
  /\ \/ /\ i[p] < Len(call[p].rows)
        /\ i' = [i EXCEPT ![p] = @ + 1]
        /\ UNCHANGED <<mu, pc, call, reply, committed>>
     \/ /\ i[p] = Len(call[p].rows)
        /\ UnlockAndReturn(p, Nothing)

SoftDeleteLock(p) ==
  /\ Called(p, "softDelete")
  /\ mu = Nobody
  /\ \/ /\ call[p].shortCodes = <<>>
        /\ UNCHANGED <<storage, originalMap>>
        /\ UnlockAndReturn(p, Nothing)
     \/ /\ call[p].shortCodes # <<>>
        /\ EnterLoop(p, "deleting")

\* One turn of the loop.  The uid argument is not looked at, and a code that
\* is not stored ends the call: the codes before it stay marked.
SoftDeleteSet(p) ==
  /\ pc[p] = "deleting"
  /\ LET c == call[p].shortCodes[i[p]]
     IN \/ /\ storage[c] = NoRow
           /\ UNCHANGED storage
           /\ UnlockAndReturn(p, ErrNotExists)
        \/ /\ storage[c] # NoRow
           /\ storage' = [storage EXCEPT ![c] = Deleted(@)]
           /\ \/ /\ i[p] < Len(call[p].shortCodes)
                 /\ i' = [i EXCEPT ![p] = @ + 1]
                 /\ UNCHANGED <<mu, pc, call, reply, committed>>
              \/ /\ i[p] = Len(call[p].shortCodes)
                 /\ UnlockAndReturn(p, Nothing)
  /\ UNCHANGED originalMap

\* Faulty variant: c.Get without r.mu.
GetUnlocked(p) ==
  /\ Called(p, "get")
  /\ Return(p, GetAnswer(storage[call[p].shortCode]))
  /\ UNCHANGED <<storage, originalMap, mu, committed>>

\* r.mu.RLock() ... r.mu.RUnlock() around one c.Get.
Get(p) ==
  /\ Called(p, "get")
  /\ mu = Nobody
  /\ Return(p, GetAnswer(storage[call[p].shortCode]))
  /\ UNCHANGED <<storage, originalMap, mu, committed>>

\* One c.Snapshot, without r.mu, then a walk over the copy.
GetURLs(p) ==
  /\ Called(p, "getURLs")
  /\ Return(p, Listed({c \in ShortCodes : ListedFor(storage[c], call[p].uid)}))
  /\ UNCHANGED <<storage, originalMap, mu, committed>>

-----------------------------------------------------------------------------
\* The steps of a call that has started.
Step(p) ==
  \/ Create(p) \/ CreateBatchCheck(p) \/ CreateBatchSet(p)
  \/ SoftDeleteLock(p) \/ SoftDeleteSet(p) \/ Get(p) \/ GetURLs(p)

Next == \E p \in Clients : Invoke(p) \/ CtxDone(p) \/ Step(p)

Spec == Init /\ [][Next]_vars

-----------------------------------------------------------------------------
TypeOK ==
  /\ storage \in [ShortCodes -> ShortenedURL \cup {NoRow}]
  /\ originalMap \in [OriginalURLs -> ShortCodes \cup {NoCode}]
  /\ mu \in Clients \cup {Nobody}
  /\ pc \in [Clients -> {"idle", "called", "setting", "deleting"}]
  /\ call \in [Clients -> Requests \cup {NoCall}]
  /\ i \in [Clients -> Nat]
  /\ reply \in [Clients -> Answer]
  /\ committed \in [ShortCodes -> ShortenedURL \cup {NoRow}]

(***************************************************************************)
(* The reverse index r.originalMap and the cache agree whenever no writer  *)
(* holds r.mu: the code that a URL is mapped to stores that URL, every     *)
(* stored URL is mapped, and a code stores a row made for it.              *)
(***************************************************************************)
IndexMatchesStorage ==
  mu = Nobody =>
    /\ \A u \in OriginalURLs :
         originalMap[u] # NoCode =>
           /\ storage[originalMap[u]] # NoRow
           /\ storage[originalMap[u]].originalURL = u
    /\ \A c \in ShortCodes :
         storage[c] # NoRow =>
           /\ storage[c].shortCode = c
           /\ originalMap[storage[c].originalURL] # NoCode

(***************************************************************************)
(* A short link never changes its meaning: once a code is stored, its URL  *)
(* and its owner stay as they are, whatever the callers do at once.        *)
(***************************************************************************)
BindingsAreImmutable ==
  [][\A c \in ShortCodes :
       storage[c] # NoRow =>
         /\ storage'[c] # NoRow
         /\ storage'[c].originalURL = storage[c].originalURL
         /\ storage'[c].userID = storage[c].userID]_vars

(***************************************************************************)
(* A deleted link is not revived by a create, a batch or a second delete   *)
(* that runs at the same time.                                             *)
(***************************************************************************)
DeletedStaysDeleted ==
  [][\A c \in ShortCodes :
       storage[c] # NoRow /\ storage[c].isDeleted =>
         storage'[c] # NoRow /\ storage'[c].isDeleted]_vars

(***************************************************************************)
(* The repository behaves as the atomic store: a batch is seen by Get and  *)
(* Create whole or not at all, a refused batch leaves nothing behind, and  *)
(* every answer fits the table at one instant of the call.                 *)
(***************************************************************************)
Store == INSTANCE URLStore WITH rows <- committed
ImplementsURLStore == Store!StoreSpec

(***************************************************************************)
(* A user's delete marks rows of that user only, as                        *)
(* TestSoftDeleteURLs_DoesNotDeleteOtherUsersURLs says of the interface's  *)
(* other implementation.                                                   *)
(***************************************************************************)
DeletesOwnRowsOnly ==
  [][\A c \in ShortCodes :
       storage[c] # NoRow /\ storage'[c] # storage[c] =>
         storage[c].userID = call[mu].uid]_vars
=============================================================================
