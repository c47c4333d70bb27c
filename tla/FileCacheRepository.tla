------------------------ MODULE FileCacheRepository ------------------------
(***************************************************************************)
(* FileCacheRepository (internal/repository/url/file_inmemory.go): the     *)
(* cache of CacheRepository, and after each change of it a change of the   *)
(* file of internal/core/filestorage, from which a new process restores    *)
(* the cache.                                                              *)
(*                                                                         *)
(* A call is in the cache first, with the steps of CacheRepository, and    *)
(* then in the file.  Nothing is held between the two: r.mu is released    *)
(* before fs.mu is taken, so another call can come between them.  The file *)
(* is the sequence of its lines; one Encode is one write(2), which a crash *)
(* of the process does not split.  A line may be too long for the Scanner  *)
(* that a new process reads the file with: that depends on its URL.        *)
(***************************************************************************)
EXTENDS CacheRepository, SequencesExt

CONSTANTS
  LongURLs,    (* the URLs that make a line longer than the 64 KiB that *)
               (* bufio.Scanner takes; the handlers accept up to 1 MiB  *)
  Deleter,     (* the goroutine of the delete worker, the only one that *)
               (* calls SoftDeleteURLs                                  *)
  DiskFaults   (* whether an operation on the file may fail             *)

ASSUME LongURLsAssumption == LongURLs \subseteq OriginalURLs
ASSUME DeleterAssumption == Deleter \in Clients
ASSUME DiskFaultsAssumption == DiskFaults \in BOOLEAN
ASSUME ShortCodesAssumption == IsFiniteSet(ShortCodes)

VARIABLES
  file,      (* the lines of the file                                      *)
  torn,      (* the file holds a line that is not a whole record           *)
  broken,    (* fs.encoder has failed: encoding/json keeps its first error *)
  fsMu,      (* the call that holds fs.mu, or Nobody                       *)
  stage,     (* how far each call is                                       *)
  request,   (* the call each client makes                                 *)
  todo,      (* the rows each call still has to write                      *)
  answer,    (* what each client's last call returned, Nothing before that *)
  up,        (* the process runs                                           *)
  promised,  (* auxiliary: what nil errors have told the callers of a code *)
  diverged,  (* auxiliary: the codes that the file may not have as the     *)
             (* cache has them                                             *)
  lost       (* auxiliary: the codes that the file may not have as they    *)
             (* are promised                                               *)

cacheVars == vars
fileVars == <<file, torn, broken, fsMu>>
callVars == <<stage, request, todo, answer>>
auxVars == <<promised, diverged, lost>>
allVars == <<cacheVars, fileVars, callVars, up, auxVars>>

FileInit ==
  /\ Init
  /\ file = <<>>
  /\ torn = FALSE
  /\ broken = FALSE
  /\ fsMu = Nobody
  /\ stage = [p \in Clients |-> "idle"]
  /\ request = [p \in Clients |-> NoCall]
  /\ todo = [p \in Clients |-> <<>>]
  /\ answer = [p \in Clients |-> Nothing]
  /\ up = TRUE
  /\ promised = [c \in ShortCodes |-> "nothing"]
  /\ diverged = {}
  /\ lost = {}

-----------------------------------------------------------------------------
\* The codes a call is about, when it changes any.
CodesIn(r) ==
  CASE r.op = "create" -> {r.row.shortCode}
    [] r.op = "createBatch" -> CodesOf(r.rows)
    [] r.op = "softDelete" -> Range(r.shortCodes)
    [] OTHER -> {}

DiskError == [err |-> "disk"]

Finish(p, a) ==
  /\ stage' = [stage EXCEPT ![p] = "idle"]
  /\ request' = [request EXCEPT ![p] = NoCall]
  /\ todo' = [todo EXCEPT ![p] = <<>>]
  /\ answer' = [answer EXCEPT ![p] = a]

\* The call returns nil.  A code is used once: what is deleted stays deleted.
Succeed(p) ==
  /\ Finish(p, Nothing)
  /\ promised' =
       [c \in ShortCodes |->
          IF c \notin CodesIn(request[p]) THEN promised[c]
          ELSE IF request[p].op = "softDelete" \/ promised[c] = "deleted"
            THEN "deleted"
          ELSE "stored"]

Enter(p, label, rows) ==
  /\ stage' = [stage EXCEPT ![p] = label]
  /\ todo' = [todo EXCEPT ![p] = rows]
  /\ UNCHANGED <<request, answer>>

-----------------------------------------------------------------------------
\* A method begins with the method of the embedded CacheRepository.
FileInvoke(p) ==
  /\ up
  /\ stage[p] = "idle"
  /\ Invoke(p)
  /\ call'[p].op = "softDelete" => p = Deleter
  /\ stage' = [stage EXCEPT ![p] = "cache"]
  /\ request' = [request EXCEPT ![p] = call'[p]]
  /\ answer' = [answer EXCEPT ![p] = Nothing]
  /\ UNCHANGED <<fileVars, todo, up, auxVars>>

\* Faulty variant: the error of the cache's method is not looked at.
AfterCacheUnchecked(p) ==
  LET op == request[p].op
  IN /\ \/ op \in {"get", "getURLs"} /\ Finish(p, reply'[p])
        \/ op = "create" /\ Enter(p, "write", <<request[p].row>>)
        \/ op = "createBatch" /\ Enter(p, "write", request[p].rows)
        \/ op = "softDelete" /\ Enter(p, "snapshot", <<>>)
     /\ UNCHANGED diverged

\* What follows the return of the cache's method.  A SoftDeleteURLs that the
\* cache ended at an unknown code does not reach the file, although rows may
\* be marked.
AfterCache(p) ==
  LET op == request[p].op
      failed == reply'[p].err # "nil"
  IN \/ /\ failed \/ op \in {"get", "getURLs"}
        /\ Finish(p, reply'[p])
        /\ diverged' =
             IF op = "softDelete" /\ reply'[p] = ErrNotExists
               THEN diverged \cup {c \in CodesIn(request[p]) : storage[c] # NoRow}
               ELSE diverged
     \/ /\ ~failed
        /\ \/ op = "create" /\ Enter(p, "write", <<request[p].row>>)
           \/ op = "createBatch" /\ Enter(p, "write", request[p].rows)
           \/ op = "softDelete" /\ Enter(p, "snapshot", <<>>)
        /\ UNCHANGED diverged

InCache(p) ==
  /\ stage[p] = "cache"
  /\ Step(p) \/ CtxDone(p)
  /\ \/ pc'[p] = "idle" /\ AfterCache(p)
     \/ pc'[p] # "idle" /\ UNCHANGED <<callVars, diverged>>
  /\ UNCHANGED <<fileVars, up, promised, lost>>

-----------------------------------------------------------------------------
(***************************************************************************)
(* fs.WriteURL and fs.WriteURLs: one Encode per row, under fs.mu.          *)
(***************************************************************************)
MayWrite(p) == stage[p] = "write" /\ fsMu \in {Nobody, p}

\* Faulty variant: the error of Encode is not returned.
WriteFailsSilently(p) ==
  /\ MayWrite(p)
  /\ todo[p] # <<>>
  /\ DiskFaults \/ broken
  /\ torn' \in IF broken THEN {torn} ELSE {torn, TRUE}
  /\ broken' = TRUE
  /\ fsMu' = Nobody
  /\ Succeed(p)
  /\ diverged' = diverged \cup CodesOf(todo[p])
  /\ UNCHANGED <<file, up, cacheVars, lost>>

\* A delete that does not know the row is about to truncate the file.
Dropped(row) ==
  \E q \in Clients : stage[q] = "truncate" /\ row.shortCode \notin CodesOf(todo[q])

\* A row that was marked as deleted meanwhile is appended as it was before.
Write(p) ==
  /\ MayWrite(p)
  /\ ~broken \/ todo[p] = <<>>
  /\ IF todo[p] = <<>>
       THEN UNCHANGED <<file, diverged, lost>>
       ELSE LET row == Head(todo[p])
                c == row.shortCode
            IN /\ file' = Append(file, row)
               /\ diverged' =
                    IF storage[c] # row \/ Dropped(row) THEN diverged \cup {c}
                    ELSE diverged
               /\ lost' =
                    IF promised[c] = "deleted" \/ Dropped(row) THEN lost \cup {c}
                    ELSE lost
  /\ \/ /\ Len(todo[p]) <= 1
        /\ fsMu' = Nobody
        /\ Succeed(p)
     \/ /\ Len(todo[p]) > 1
        /\ fsMu' = p
        /\ Enter(p, "write", Tail(todo[p]))
        /\ UNCHANGED promised
  /\ UNCHANGED <<torn, broken, up, cacheVars>>

\* Faulty variant: the error path keeps fs.mu.
WriteFailsLocked(p) ==
  /\ MayWrite(p)
  /\ todo[p] # <<>>
  /\ DiskFaults \/ broken
  /\ torn' \in IF broken THEN {torn} ELSE {torn, TRUE}
  /\ broken' = TRUE
  /\ fsMu' = p
  /\ Finish(p, DiskError)
  /\ diverged' = diverged \cup CodesOf(todo[p])
  /\ UNCHANGED <<file, up, cacheVars, promised, lost>>

\* Encode fails, now or before.  The row stays in the cache.
WriteFails(p) ==
  /\ MayWrite(p)
  /\ todo[p] # <<>>
  /\ DiskFaults \/ broken
  /\ torn' \in IF broken THEN {torn} ELSE {torn, TRUE}
  /\ broken' = TRUE
  /\ fsMu' = Nobody
  /\ Finish(p, DiskError)
  /\ diverged' = diverged \cup CodesOf(todo[p])
  /\ UNCHANGED <<file, up, cacheVars, promised, lost>>

-----------------------------------------------------------------------------
(***************************************************************************)
(* fs.RewriteURLs with the rows of a snapshot that was taken before, under *)
(* neither r.mu nor fs.mu.  The order of the rows is that of a map walk.   *)
(***************************************************************************)
Stored == {storage[c] : c \in ShortCodes} \ {NoRow}

\* Faulty variant: the snapshot without the deleted rows.
SnapshotOfLive(p) ==
  /\ stage[p] = "snapshot"
  /\ \E rows \in SetToSeqs({row \in Stored : ~row.isDeleted}) :
       Enter(p, "truncate", rows)
  /\ UNCHANGED <<fileVars, up, cacheVars, auxVars>>

Snapshot(p) ==
  /\ stage[p] = "snapshot"
  /\ \E rows \in SetToSeqs(Stored) : Enter(p, "truncate", rows)
  /\ UNCHANGED <<fileVars, up, cacheVars, auxVars>>

\* Faulty variant: fs.mu is not taken.
TruncateUnlocked(p) ==
  /\ stage[p] = "truncate"
  /\ fsMu' = p
  /\ file' = <<>>
  /\ torn' = FALSE
  /\ lost' = lost \ CodesOf(todo[p])
  /\ diverged' = diverged \ CodesOf(todo[p])
  /\ Enter(p, "rewrite", todo[p])
  /\ UNCHANGED <<broken, up, cacheVars, promised>>

\* The rows to come repair what was lost of their codes.
Truncate(p) ==
  /\ stage[p] = "truncate"
  /\ fsMu = Nobody
  /\ fsMu' = p
  /\ file' = <<>>
  /\ torn' = FALSE
  /\ lost' = lost \ CodesOf(todo[p])
  /\ diverged' = diverged \ CodesOf(todo[p])
  /\ Enter(p, "rewrite", todo[p])
  /\ UNCHANGED <<broken, up, cacheVars, promised>>

\* Truncate fails, or Seek after it.
TruncateFails(p) ==
  /\ DiskFaults
  /\ stage[p] = "truncate"
  /\ fsMu = Nobody
  /\ \/ /\ UNCHANGED <<file, torn, lost>>
        /\ diverged' = diverged \cup CodesIn(request[p])
     \/ /\ file' = <<>>
        /\ torn' = FALSE
        /\ lost' = lost \cup CodesOf(file)
        /\ diverged' = diverged \cup CodesOf(file) \cup CodesIn(request[p])
  /\ Finish(p, DiskError)
  /\ UNCHANGED <<broken, fsMu, up, cacheVars, promised>>

Rewrite(p) ==
  /\ stage[p] = "rewrite"
  /\ \/ /\ todo[p] = <<>>
        /\ fsMu' = Nobody
        /\ Succeed(p)
        /\ UNCHANGED file
     \/ /\ todo[p] # <<>>
        /\ file' = Append(file, Head(todo[p]))
        /\ Enter(p, "rewrite", Tail(todo[p]))
        /\ UNCHANGED <<fsMu, promised>>
  /\ UNCHANGED <<torn, broken, up, cacheVars, diverged, lost>>

\* An Encode of the rewrite fails.  Its encoder is not fs.encoder.
RewriteFails(p) ==
  /\ DiskFaults
  /\ stage[p] = "rewrite"
  /\ todo[p] # <<>>
  /\ torn' \in {torn, TRUE}
  /\ fsMu' = Nobody
  /\ Finish(p, DiskError)
  /\ diverged' = diverged \cup CodesOf(todo[p])
  /\ lost' = lost \cup CodesOf(todo[p])
  /\ UNCHANGED <<file, broken, up, cacheVars, promised>>

-----------------------------------------------------------------------------
(***************************************************************************)
(* The process dies at any point, and a new one runs New: it reads the     *)
(* lines in order, and sets each row in the cache.  originalMap stays      *)
(* empty.  With a torn line, or one that is too long for the Scanner, New  *)
(* returns an error and nothing starts, now or later.                      *)
(***************************************************************************)
Crash ==
  /\ up
  /\ up' = FALSE
  /\ storage' = [c \in ShortCodes |-> NoRow]
  /\ originalMap' = [u \in OriginalURLs |-> NoCode]
  /\ mu' = Nobody
  /\ pc' = [p \in Clients |-> "idle"]
  /\ call' = [p \in Clients |-> NoCall]
  /\ i' = [p \in Clients |-> 1]
  /\ reply' = [p \in Clients |-> Nothing]
  /\ committed' = storage'
  /\ broken' = FALSE
  /\ fsMu' = Nobody
  /\ stage' = [p \in Clients |-> "idle"]
  /\ request' = [p \in Clients |-> NoCall]
  /\ todo' = [p \in Clients |-> <<>>]
  /\ answer' = [p \in Clients |-> Nothing]
  /\ lost' =
       lost \cup {c \in ShortCodes :
                   \E p \in Clients : stage[p] = "rewrite" /\ c \in CodesOf(todo[p])}
  /\ UNCHANGED <<file, torn, promised, diverged>>

\* The row of a code that the last of its lines gives.
LinesOf(lines, c) == {n \in DOMAIN lines : lines[n].shortCode = c}

Restored(lines) ==
  [c \in ShortCodes |->
     IF LinesOf(lines, c) = {} THEN NoRow ELSE lines[Max(LinesOf(lines, c))]]

Readable ==
  /\ ~torn
  /\ \A n \in DOMAIN file : file[n].originalURL \notin LongURLs

\* From here on the cache is what the file says: what is lost is lost for good.
Restart ==
  /\ ~up
  /\ Readable
  /\ up' = TRUE
  /\ storage' = Restored(file)
  /\ committed' = storage'
  /\ promised' =
       [c \in ShortCodes |-> IF c \in lost THEN "nothing" ELSE promised[c]]
  /\ lost' = {}
  /\ diverged' = {}
  /\ UNCHANGED <<originalMap, mu, pc, call, i, reply, fileVars, callVars>>

-----------------------------------------------------------------------------
FileStep(p) ==
  \/ InCache(p) \/ Write(p) \/ WriteFails(p)
  \/ Snapshot(p) \/ Truncate(p) \/ TruncateFails(p)
  \/ Rewrite(p) \/ RewriteFails(p)

FileNext ==
  \/ \E p \in Clients : FileInvoke(p) \/ FileStep(p)
  \/ Crash \/ Restart

FileSpec == FileInit /\ [][FileNext]_allVars

(***************************************************************************)
(* A goroutine that can run is scheduled, and one that waits for r.mu or   *)
(* fs.mu gets it in the end: the sync package hands a mutex over in queue  *)
(* order once a waiter has starved for a millisecond, and a waiting writer *)
(* keeps later readers out.  A process that died need not start again.     *)
(***************************************************************************)
FileFairSpec == FileSpec /\ \A p \in Clients : SF_allVars(FileStep(p))

-----------------------------------------------------------------------------
\* fs.mu is held from the first to the last line of a batch or a rewrite.
FileTypeOK ==
  /\ file \in Seq(ShortenedURL)
  /\ {torn, broken, up} \subseteq BOOLEAN
  /\ diverged \subseteq ShortCodes /\ lost \subseteq ShortCodes
  /\ fsMu \in Clients \cup {Nobody}
  /\ stage \in [Clients -> {"idle", "cache", "write", "snapshot", "truncate",
                           "rewrite"}]
  /\ request \in [Clients -> Requests \cup {NoCall}]
  /\ todo \in [Clients -> Seq(ShortenedURL)]
  /\ answer \in [Clients -> Answer \cup {DiskError}]
  /\ promised \in [ShortCodes -> {"nothing", "stored", "deleted"}]
  /\ \A p \in Clients :
       /\ stage[p] = "rewrite" => fsMu = p
       /\ stage[p] = "write" /\ request[p].op = "createBatch" =>
            Len(todo[p]) = Len(request[p].rows) \/ fsMu = p

(***************************************************************************)
(* A short link keeps its meaning across restarts: whatever calls, faults  *)
(* and crashes come together, no line of the file, and no line about to be *)
(* written, gives a code a URL or an owner other than the cache, or than   *)
(* another line, gives it.                                                 *)
(***************************************************************************)
SameLink(a, b) == a.originalURL = b.originalURL /\ a.userID = b.userID

LinesNameOneLink ==
  /\ \A m, n \in DOMAIN file :
       file[m].shortCode = file[n].shortCode => SameLink(file[m], file[n])
  /\ up => \A row \in Range(file) \cup UNION {Range(todo[p]) : p \in Clients} :
             /\ storage[row.shortCode] # NoRow
             /\ SameLink(storage[row.shortCode], row)

(***************************************************************************)
(* What a nil error has promised about a code is in the file, or in the    *)
(* rewrite that holds fs.mu: a created code is there, and a deleted one is *)
(* there as deleted.  The file loses a promise only about the codes that   *)
(* lost names: those whose row a create appends after the delete of the    *)
(* code has returned, or between the snapshot and the truncation of a      *)
(* delete that does not know the row, and those that a rewrite cut short   *)
(* by a crash or a failing disk has not come to.  The next rewrite that    *)
(* has their rows repairs them.                                            *)
(* Whether the lines can be read is another matter: see Readable.          *)
(***************************************************************************)
LinesToCome ==
  IF fsMu # Nobody /\ stage[fsMu] = "rewrite" THEN file \o todo[fsMu] ELSE file

PromisesAreDurable ==
  \A c \in ShortCodes \ lost :
    LET row == Restored(LinesToCome)[c]
    IN /\ promised[c] # "nothing" => row # NoRow
       /\ promised[c] = "deleted" => row.isDeleted

(***************************************************************************)
(* When no call runs, the file has each code exactly as the cache has it:  *)
(* what a restart that can read the file would restore.  Except for the    *)
(* codes of calls that failed on the disk or at an unknown code, and of    *)
(* creates and deletes that overtook each other on their way to the file,  *)
(* until a rewrite repairs them.                                           *)
(***************************************************************************)
RestartChangesNothing ==
  up /\ (\A p \in Clients : stage[p] = "idle") =>
    \A c \in ShortCodes \ diverged : Restored(file)[c] = storage[c]

(***************************************************************************)
(* A link that was acknowledged leads to the same URL and owner for good,  *)
(* and an acknowledged deletion is never undone: from the row that Get     *)
(* finds to the row that it finds after the step or, with no process,      *)
(* after a restart.  A running process keeps to this whatever the disk     *)
(* does.  A crash and a restart keep to it if the file can be read at all, *)
(* and for every code that is not lost.                                    *)
(***************************************************************************)
Findable(c) == IF up THEN storage[c] ELSE Restored(file)[c]

AcknowledgedLinksStay ==
  [][\A c \in ShortCodes :
       /\ promised[c] # "nothing"
       /\ (up /\ up') \/ (c \notin lost \cup lost' /\ Readable')
       => /\ Findable(c) # NoRow /\ Findable(c)' # NoRow
          /\ SameLink(Findable(c)', Findable(c))
          /\ promised[c] = "deleted" => Findable(c)'.isDeleted]_allVars

(***************************************************************************)
(* What WriteURL and WriteURLs have written without an error, ReadURLs     *)
(* reads without an error, as TestFileStorage_AppendAfterRead has it.      *)
(***************************************************************************)
WhatIsWrittenCanBeRead == ~torn => Readable

(***************************************************************************)
(* While a process runs its callers see the store that FallibleStore       *)
(* describes: an error of the cache reaches them as it is, nil means that  *)
(* the call has had its effect, and so, although it is an error, does an   *)
(* error of the disk.                                                      *)
(***************************************************************************)
FileStore == INSTANCE FallibleStore WITH rows <- committed, open <- request

CallersSeeTheStore ==
  [][up /\ up' => [FileStore!FallibleNext]_<<committed, call, reply, request, answer>>
    ]_allVars

(***************************************************************************)
(* Every call returns, or the process dies: no path keeps r.mu or fs.mu,   *)
(* and no two calls wait for each other.                                   *)
(***************************************************************************)
EveryFileCallReturns ==
  \A p \in Clients : stage[p] # "idle" ~> stage[p] = "idle"
=============================================================================
