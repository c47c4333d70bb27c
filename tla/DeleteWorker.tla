---------------------------- MODULE DeleteWorker ----------------------------
(***************************************************************************)
(* The deferred deletion of internal/service: DeleteURLs puts a task on    *)
(* the channel deleteQueue, and one goroutine, deleteWorker, collects the  *)
(* tasks in buff and hands them to the repository, one SoftDeleteURLs per  *)
(* user, when buff is full, when its timer fires, or at shutdown.          *)
(*                                                                         *)
(* A task stands for one DELETE request.  Which rows exist is fixed: no    *)
(* row is created while the worker runs.  Time is abstract: a timer that   *)
(* is armed fires, and a deadline passes, at any moment.                   *)
(***************************************************************************)
EXTENDS Naturals, Sequences

CONSTANTS
  Tasks,            (* the delete requests                                 *)
  Users, ShortCodes,
  TaskUID,          (* task -> the user who sent it                        *)
  TaskCodes,        (* task -> the sequence of codes it names              *)
  NoOwner,
  Owner,            (* code -> the user who owns its row, or NoOwner       *)
  Backend,          (* "memory" (CacheRepository), "file", or "postgres"   *)
  StorageFaults,    (* whether a statement or a rewrite of the file fails  *)
  Defaults,         (* the queue and buffer sizes that New sets            *)
  Options           (* the sizes that the caller of New passes as options  *)

ASSUME TasksAssumption ==
  /\ TaskUID \in [Tasks -> Users]
  /\ TaskCodes \in [Tasks -> Seq(ShortCodes)]
  /\ Owner \in [ShortCodes -> Users \cup {NoOwner}]
  /\ NoOwner \notin Users
ASSUME SizesAssumption ==
  /\ Defaults \in [queueSize : Nat \ {0}, maxSize : Nat \ {0}]
  /\ Options \in [queueSize : Nat, maxSize : Nat]
ASSUME BackendAssumption ==
  Backend \in {"memory", "file", "postgres"} /\ StorageFaults \in BOOLEAN

VARIABLES
  sizes,        (* the capacity of deleteQueue, and deleteMaxSize          *)
  ctxDone,      (* the context given to StartDeleteWorker is cancelled     *)
  request,      (* how far each DeleteURLs call is                         *)
  deleteQueue,  (* the channel                                             *)
  buff,         (* the worker's buffer                                     *)
  timer,        (* "nil", "armed" or "fired": timer and timerC             *)
  pc,           (* where the worker is                                     *)
  flushCtx,     (* the context of flush: "run", "shutdown" or "expired"    *)
  group,        (* the users whose group flush has not handed over yet     *)
  deleted,      (* the codes whose row is marked as deleted                *)
  outcome,      (* auxiliary: how the SoftDeleteURLs of each task ended    *)
  accepted,     (* auxiliary: the tasks in the order the channel took them *)
  handed        (* auxiliary: the tasks of the flushes that have ended     *)

workerVars == <<buff, timer, pc, flushCtx, group, deleted, outcome, handed>>
vars == <<sizes, ctxDone, request, deleteQueue, accepted, workerVars>>

-----------------------------------------------------------------------------
\* What the option WithDeleteQueue does to the sizes: a zero leaves one alone.
WithDeleteQueue(s, opts) ==
  [queueSize |-> IF opts.queueSize > 0 THEN opts.queueSize ELSE s.queueSize,
   maxSize |-> IF opts.maxSize > 0 THEN opts.maxSize ELSE s.maxSize]

\* Faulty variant: the options replace the defaults, zeros included.
NewUnchecked(opts) == opts

\* New takes options, and applies none of them.
New(opts) == Defaults

Init ==
  /\ sizes = New(Options)
  /\ ctxDone = FALSE
  /\ request = [t \in Tasks |-> "new"]
  /\ deleteQueue = <<>>
  /\ buff = <<>>
  /\ timer = "nil"
  /\ pc = "select"
  /\ flushCtx = "run"
  /\ group = {}
  /\ deleted = {}
  /\ outcome = [t \in Tasks |-> "none"]
  /\ accepted = <<>>
  /\ handed = <<>>

-----------------------------------------------------------------------------
(***************************************************************************)
(* DeleteURLs: the request goroutines.                                     *)
(***************************************************************************)
Call(t) ==
  /\ request[t] = "new"
  /\ request' = [request EXCEPT ![t] = "called"]
  /\ UNCHANGED <<sizes, ctxDone, deleteQueue, accepted, workerVars>>

\* The channel has room: the send goes through and the answer is 202.
Enqueue(t) ==
  /\ request[t] = "called"
  /\ Len(deleteQueue) < sizes.queueSize
  /\ request' = [request EXCEPT ![t] = "accepted"]
  /\ deleteQueue' = Append(deleteQueue, t)
  /\ accepted' = Append(accepted, t)
  /\ UNCHANGED <<sizes, ctxDone, workerVars>>

\* The request's context is done, at the first check or in the select.
Refuse(t) ==
  /\ request[t] = "called"
  /\ request' = [request EXCEPT ![t] = "refused"]
  /\ UNCHANGED <<sizes, ctxDone, deleteQueue, accepted, workerVars>>

\* SIGTERM or SIGINT.  The requests have contexts of their own.
Cancel ==
  /\ ~ctxDone
  /\ ctxDone' = TRUE
  /\ UNCHANGED <<sizes, request, deleteQueue, accepted, workerVars>>

-----------------------------------------------------------------------------
(***************************************************************************)
(* The worker.  A select with several ready cases takes any of them, so a  *)
(* cancelled context does not keep it from receiving or flushing.          *)
(***************************************************************************)
UsersOf(tasks) == {TaskUID[tasks[j]] : j \in DOMAIN tasks}

StartFlush(tasks, ctx) ==
  /\ pc' = "flush"
  /\ flushCtx' = ctx
  /\ group' = UsersOf(tasks)

\* Faulty variant: a task that finds buff full is dropped.
TakeIfRoom ==
  /\ deleteQueue # <<>>
  /\ deleteQueue' = Tail(deleteQueue)
  /\ buff' = IF Len(buff) < sizes.maxSize
               THEN Append(buff, Head(deleteQueue)) ELSE buff

\* buff = append(buff, task) for the next task of the channel.
Take ==
  /\ deleteQueue # <<>>
  /\ deleteQueue' = Tail(deleteQueue)
  /\ buff' = Append(buff, Head(deleteQueue))

\* Faulty variant: the timer starts one task late.
TimerAfterLate(n) == IF n = 2 THEN "armed" ELSE timer

\* The first task that buff receives starts the timer.
TimerAfter(n) == IF n = 1 THEN "armed" ELSE timer

Receive ==
  /\ pc = "select"
  /\ Take
  /\ \/ /\ Len(buff') < sizes.maxSize
        /\ timer' = TimerAfter(Len(buff'))
        /\ UNCHANGED <<pc, flushCtx, group>>
     \/ /\ Len(buff') >= sizes.maxSize
        /\ timer' = "nil"
        /\ StartFlush(buff', "run")
  /\ UNCHANGED <<sizes, ctxDone, request, accepted, deleted, outcome, handed>>

TimerFires ==
  /\ timer = "armed"
  /\ timer' = "fired"
  /\ UNCHANGED <<sizes, ctxDone, request, deleteQueue, accepted, buff, pc,
                 flushCtx, group, deleted, outcome, handed>>

ReceiveTimer ==
  /\ pc = "select"
  /\ timer = "fired"
  /\ timer' = "nil"
  /\ StartFlush(buff, "run")
  /\ UNCHANGED <<sizes, ctxDone, request, deleteQueue, accepted, buff,
                 deleted, outcome, handed>>

\* case <-ctx.Done(): the timer is stopped, and the loop tail begins.
StartShutdown ==
  /\ pc = "select"
  /\ ctxDone
  /\ timer' = "nil"
  /\ pc' = "tail"
  /\ UNCHANGED <<sizes, ctxDone, request, deleteQueue, accepted, buff,
                 flushCtx, group, deleted, outcome, handed>>

\* Faulty variant: the tail takes one task at most.
DrainOne ==
  /\ pc = "tail"
  /\ Take \/ (deleteQueue = <<>> /\ UNCHANGED <<deleteQueue, buff>>)
  /\ StartFlush(buff', "shutdown")
  /\ UNCHANGED <<sizes, ctxDone, request, accepted, timer, deleted, outcome,
                 handed>>

\* The channel is never closed, so tail ends only when it is empty.
Drain ==
  /\ pc = "tail"
  /\ \/ /\ Take
        /\ UNCHANGED <<pc, flushCtx, group>>
     \/ /\ deleteQueue = <<>>
        /\ StartFlush(buff, "shutdown")
        /\ UNCHANGED <<deleteQueue, buff>>
  /\ UNCHANGED <<sizes, ctxDone, request, accepted, timer, deleted, outcome,
                 handed>>

\* The five seconds of the shutdown context are over.
Expire ==
  /\ pc = "flush"
  /\ flushCtx = "shutdown"
  /\ flushCtx' = "expired"
  /\ UNCHANGED <<sizes, ctxDone, request, deleteQueue, accepted, buff, timer,
                 pc, group, deleted, outcome, handed>>

-----------------------------------------------------------------------------
(***************************************************************************)
(* flush: the codes of a user's tasks, in the order of buff and of each    *)
(* task, go to one SoftDeleteURLs.  A place <<j, k>> is the k-th code of   *)
(* the j-th task of buff.                                                  *)
(***************************************************************************)
\* Faulty variant: the tasks are not grouped by user.
PlacesUngrouped(uid) ==
  UNION {{<<j, k>> : k \in DOMAIN TaskCodes[buff[j]]} : j \in DOMAIN buff}

Places(uid) ==
  UNION {{<<j, k>> : k \in DOMAIN TaskCodes[buff[j]]} :
           j \in {j \in DOMAIN buff : TaskUID[buff[j]] = uid}}

CodeAt(place) == TaskCodes[buff[place[1]]][place[2]]

NotAfter(a, b) == a[1] < b[1] \/ (a[1] = b[1] /\ a[2] <= b[2])

\* CacheRepository marks code after code, whoever owns it, up to the first
\* that has no row.
Reached(uid) ==
  {a \in Places(uid) :
     \A b \in Places(uid) : NotAfter(b, a) => Owner[CodeAt(b)] # NoOwner}

\* Faulty variant: the statement without its condition on user_id.
OwnedByAnyone(uid) == {a \in Places(uid) : Owner[CodeAt(a)] # NoOwner}

\* FileCacheRepository rewrites the file when the cache has marked them all.
CacheResults(uid) ==
  IF Reached(uid) # Places(uid) THEN {"error"}
  ELSE IF Backend = "file" /\ StorageFaults THEN {"ok", "error"} ELSE {"ok"}

\* PostgresRepository marks the user's own rows in one statement.
Owned(uid) == {a \in Places(uid) : Owner[CodeAt(a)] = uid}

CtxErr == IF flushCtx = "run" THEN ctxDone ELSE flushCtx = "expired"

\* Faulty variant: the error is not returned.
SoftDeleteURLsNoError(uid, places, result) ==
  /\ deleted' = deleted \cup {CodeAt(a) : a \in places}
  /\ outcome' =
       [t \in Tasks |->
          IF TaskUID[t] = uid /\ \E j \in DOMAIN buff : buff[j] = t
            THEN "ok" ELSE outcome[t]]

SoftDeleteURLs(uid, places, result) ==
  /\ deleted' = deleted \cup {CodeAt(a) : a \in places}
  /\ outcome' =
       [t \in Tasks |->
          IF TaskUID[t] = uid /\ \E j \in DOMAIN buff : buff[j] = t
            THEN result ELSE outcome[t]]

\* One turn of the loop over the map: any user is next.  An error is logged.
\* A statement that is cut off may have had its effect.
FlushGroup(uid) ==
  /\ pc = "flush"
  /\ uid \in group
  /\ group' = group \ {uid}
  /\ \/ CtxErr /\ SoftDeleteURLs(uid, {}, "error")
     \/ /\ ~CtxErr /\ Backend # "postgres"
        /\ \E result \in CacheResults(uid) :
             SoftDeleteURLs(uid, Reached(uid), result)
     \/ /\ ~CtxErr /\ Backend = "postgres"
        /\ SoftDeleteURLs(uid, Owned(uid), "ok")
     \/ /\ Backend = "postgres" /\ (CtxErr \/ StorageFaults)
        /\ \E places \in {{}, Owned(uid)} :
             SoftDeleteURLs(uid, places, "error")
  /\ UNCHANGED <<sizes, ctxDone, request, deleteQueue, accepted, buff, timer,
                 pc, flushCtx, handed>>

\* Faulty variants: the goroutine returns after any flush, or after none.
AfterFlushDone == "done"
AfterFlushSelect == "select"

\* The flush of the ctx.Done case is followed by a return.
AfterFlush == IF flushCtx = "run" THEN "select" ELSE "done"

FlushEnd ==
  /\ pc = "flush"
  /\ group = {}
  /\ pc' = AfterFlush
  /\ buff' = <<>>
  /\ handed' = handed \o buff
  /\ UNCHANGED <<sizes, ctxDone, request, deleteQueue, accepted, timer,
                 flushCtx, group, deleted, outcome>>

-----------------------------------------------------------------------------
Worker ==
  \/ Receive \/ ReceiveTimer \/ StartShutdown \/ Drain
  \/ \E uid \in Users : FlushGroup(uid)
  \/ FlushEnd

Next ==
  \/ \E t \in Tasks : Call(t) \/ Enqueue(t) \/ Refuse(t)
  \/ Cancel \/ TimerFires \/ Expire
  \/ Worker

Spec == Init /\ [][Next]_vars

(***************************************************************************)
(* The runtime runs a goroutine that can go on, and a timer that is armed  *)
(* fires.  Senders that wait on a full channel are served in the order in  *)
(* which they came, so one of them is not passed over forever.             *)
(***************************************************************************)
Fairness ==
  /\ WF_vars(Worker)
  /\ WF_vars(TimerFires)
  /\ \A t \in Tasks : SF_vars(Enqueue(t))
FairSpec == Spec /\ Fairness

-----------------------------------------------------------------------------
TypeOK ==
  /\ sizes \in [queueSize : Nat \ {0}, maxSize : Nat \ {0}]
  /\ ctxDone \in BOOLEAN
  /\ request \in [Tasks -> {"new", "called", "accepted", "refused"}]
  /\ deleteQueue \in Seq(Tasks) /\ Len(deleteQueue) <= sizes.queueSize
  /\ buff \in Seq(Tasks)
  /\ timer \in {"nil", "armed", "fired"}
  /\ pc \in {"select", "flush", "tail", "done"}
  /\ flushCtx \in {"run", "shutdown", "expired"}
  /\ group \subseteq Users
  /\ deleted \subseteq ShortCodes
  /\ outcome \in [Tasks -> {"none", "ok", "error"}]
  /\ accepted \in Seq(Tasks) /\ handed \in Seq(Tasks)

(***************************************************************************)
(* While the worker waits in its select, a timer runs exactly when tasks   *)
(* are waiting in buff, and buff is not full.  Without the first part a    *)
(* task could wait forever, or timer.Stop() be called on a nil timer;      *)
(* without the second a flush by size was missed.                          *)
(***************************************************************************)
TimerRunsWhileTasksWait ==
  pc = "select" =>
    /\ timer # "nil" <=> buff # <<>>
    /\ Len(buff) < sizes.maxSize

(***************************************************************************)
(* No task is lost, duplicated or reordered between the channel, the       *)
(* buffer and the flushes, through every race of senders, timer, full      *)
(* buffer and shutdown.                                                    *)
(***************************************************************************)
TasksInOrderOnce == handed \o buff \o deleteQueue = accepted

(***************************************************************************)
(* A SoftDeleteURLs that reported success for a task has marked every row  *)
(* of the task that its user owns, whatever other tasks shared the call.   *)
(***************************************************************************)
OkMeansDeleted ==
  \A t \in Tasks : outcome[t] = "ok" =>
    \A k \in DOMAIN TaskCodes[t] :
      Owner[TaskCodes[t][k]] = TaskUID[t] => TaskCodes[t][k] \in deleted

(***************************************************************************)
(* A row is marked only on an accepted request that names it, and with     *)
(* PostgreSQL only on one of its owner.                                    *)
(***************************************************************************)
DeletedOnRequest ==
  \A c \in deleted :
    \E n \in DOMAIN accepted :
      /\ \E k \in DOMAIN TaskCodes[accepted[n]] : TaskCodes[accepted[n]][k] = c
      /\ Backend = "postgres" => TaskUID[accepted[n]] = Owner[c]

(***************************************************************************)
(* A task fails for one of three reasons: the context was cancelled, the   *)
(* database or the disk failed, or, in the cache, an accepted task of the  *)
(* same user names a code without a row.  No user's task fails because of  *)
(* another user's.                                                         *)
(***************************************************************************)
FailuresHaveOwnCause ==
  \A t \in Tasks : outcome[t] = "error" =>
    \/ ctxDone
    \/ Backend # "memory" /\ StorageFaults
    \/ /\ Backend # "postgres"
       /\ \E n \in DOMAIN accepted :
            /\ TaskUID[accepted[n]] = TaskUID[t]
            /\ \E k \in DOMAIN TaskCodes[accepted[n]] :
                 Owner[TaskCodes[accepted[n]][k]] = NoOwner

(***************************************************************************)
(* A task that is in the channel or in buff before the last flush begins   *)
(* is handed to the repository in the end, shutdown or not.                *)
(***************************************************************************)
Waiting(t) ==
  /\ flushCtx = "run"
  /\ \/ \E j \in DOMAIN deleteQueue : deleteQueue[j] = t
     \/ \E j \in DOMAIN buff : buff[j] = t

EveryTaskIsHanded == \A t \in Tasks : Waiting(t) ~> outcome[t] # "none"

(***************************************************************************)
(* The worker ends after its context is cancelled, and until then a        *)
(* DeleteURLs that waits on a full channel is let in.                      *)
(***************************************************************************)
WorkerStops == ctxDone ~> pc = "done"
CallsReturn == \A t \in Tasks : request[t] = "called" ~> request[t] # "called" \/ ctxDone

(***************************************************************************)
(* What TestDeleteWorker_ShutdownFlush expects of a shutdown: the tasks    *)
(* that were accepted are handed over by a SoftDeleteURLs that succeeds,   *)
(* here unless the deadline, the database or a missing row prevents it.    *)
(***************************************************************************)
ShutdownFlushSucceeds ==
  pc = "done" /\ flushCtx # "expired" =>
    \A n \in DOMAIN handed : outcome[handed[n]] = "ok"

(***************************************************************************)
(* What the comment of WithDeleteQueue says: the defaults are for a        *)
(* service that was built without the option.                              *)
(***************************************************************************)
OptionsTakeEffect == sizes = WithDeleteQueue(Defaults, Options)
=============================================================================
