------------------------ MODULE DeleteWorkerProofs ------------------------
(***************************************************************************)
(* Theorems about DeleteWorker for any set of tasks, users and codes and   *)
(* any sizes.                                                              *)
(*                                                                         *)
(* The invariant adds to the properties what holds in each phase of the    *)
(* goroutine.  FailuresHaveOwnCause is kept apart from it, for Lifecycle,  *)
(* where a flush may meet a closed storage, keeps the rest.                *)
(***************************************************************************)
EXTENDS DeleteWorker, SequenceTheorems, TLAPS

\* The timer belongs to the select loop, the shutdown to a cancelled context,
\* and the worker ends after the flush of its shutdown only.
Phases ==
  /\ pc # "select" => timer = "nil"
  /\ pc = "tail" \/ flushCtx # "run" => ctxDone
  /\ pc \in {"select", "tail"} => flushCtx = "run"
  /\ pc = "done" => flushCtx # "run"

IInv ==
  /\ TypeOK
  /\ TimerRunsWhileTasksWait
  /\ Phases
  /\ TasksInOrderOnce
  /\ OkMeansDeleted
  /\ DeletedOnRequest

-----------------------------------------------------------------------------
\* Moving the head of q to the end of s keeps their concatenation.
LEMMA MoveHead ==
  ASSUME NEW S, NEW s \in Seq(S), NEW q \in Seq(S), q # <<>>
  PROVE  Append(s, Head(q)) \o Tail(q) = s \o q
<1>1. /\ Head(q) \in S /\ Tail(q) \in Seq(S)
      /\ q = <<Head(q)>> \o Tail(q)
  OBVIOUS
<1>2. Append(s, Head(q)) = s \o <<Head(q)>>
  OBVIOUS
<1>3. (s \o <<Head(q)>>) \o Tail(q) = s \o (<<Head(q)>> \o Tail(q))
  BY <1>1, ConcatAssociative
<1>. QED
  BY <1>1, <1>2, <1>3

\* Appending to a concatenation is appending to its last part.
LEMMA AppendConcat ==
  ASSUME NEW S, NEW h \in Seq(S), NEW q \in Seq(S), NEW x \in S
  PROVE  h \o Append(q, x) = Append(h \o q, x)
  OBVIOUS

\* The tasks in buff were accepted.
LEMMA BuffAccepted ==
  ASSUME TypeOK, TasksInOrderOnce, NEW j \in DOMAIN buff
  PROVE  \E n \in DOMAIN accepted : accepted[n] = buff[j]
<1>. DEFINE all == handed \o buff \o deleteQueue
<1>1. Len(handed) + j \in DOMAIN all /\ all[Len(handed) + j] = buff[j]
  BY DEF TypeOK
<1>. QED
  BY <1>1 DEF TasksInOrderOnce

-----------------------------------------------------------------------------
\* A new worker has empty queues, no timer and nothing to answer for.
LEMMA InitIInv == Init => IInv
<1>. SUFFICES ASSUME Init PROVE IInv
  OBVIOUS
<1>1. TypeOK
  <2>1. sizes \in [queueSize : Nat \ {0}, maxSize : Nat \ {0}]
    BY SizesAssumption DEF Init, New
  <2>2. <<>> \in Seq(Tasks) /\ Len(<<>>) <= sizes.queueSize
    BY <2>1
  <2>. QED
    BY <2>1, <2>2 DEF Init, TypeOK
<1>2. TimerRunsWhileTasksWait /\ Phases
  BY SizesAssumption DEF Init, New, TimerRunsWhileTasksWait, Phases
<1>3. TasksInOrderOnce
  BY DEF Init, TasksInOrderOnce
<1>4. OkMeansDeleted /\ DeletedOnRequest
  BY DEF Init, OkMeansDeleted, DeletedOnRequest
<1>. QED
  BY <1>1, <1>2, <1>3, <1>4 DEF IInv

\* What was accepted stays where it is in accepted.
LEMMA AcceptedGrows ==
  ASSUME TypeOK,
         \/ accepted' = accepted
         \/ \E t \in Tasks : accepted' = Append(accepted, t)
  PROVE  \A n \in DOMAIN accepted :
           n \in DOMAIN accepted' /\ accepted'[n] = accepted[n]
<1>1. CASE accepted' = accepted
  BY <1>1
<1>2. ASSUME NEW t \in Tasks, accepted' = Append(accepted, t)
      PROVE  \A n \in DOMAIN accepted :
               n \in DOMAIN accepted' /\ accepted'[n] = accepted[n]
  BY <1>2 DEF TypeOK
<1>. QED
  BY <1>1, <1>2

(***************************************************************************)
(* The parts of the invariant that look at accepted survive a step that    *)
(* appends to it and leaves deleted and outcome alone.                     *)
(***************************************************************************)
HistoryParts == OkMeansDeleted /\ DeletedOnRequest

\* What was marked and answered stays right while requests only come in.
LEMMA HistoryStep ==
  ASSUME TypeOK, HistoryParts, UNCHANGED <<deleted, outcome>>,
         \/ accepted' = accepted
         \/ \E t \in Tasks : accepted' = Append(accepted, t)
  PROVE  HistoryParts'
<1>1. OkMeansDeleted'
  BY DEF HistoryParts, OkMeansDeleted
<1>2. DeletedOnRequest'
  BY AcceptedGrows DEF HistoryParts, DeletedOnRequest
<1>. QED
  BY <1>1, <1>2 DEF HistoryParts

\* The signal.
LEMMA CancelIInv ==
  ASSUME IInv, Cancel
  PROVE  IInv'
<1>1. /\ UNCHANGED <<sizes, request, deleteQueue, accepted, buff, timer, pc,
                     flushCtx, group, deleted, outcome, handed>>
      /\ ctxDone'
  BY DEF Cancel, workerVars
<1>2. TypeOK' /\ TimerRunsWhileTasksWait' /\ Phases' /\ TasksInOrderOnce'
  BY <1>1
  DEF IInv, TypeOK, TimerRunsWhileTasksWait, Phases, TasksInOrderOnce
<1>3. HistoryParts'
  BY <1>1, HistoryStep DEF IInv, HistoryParts
<1>. QED
  BY <1>2, <1>3 DEF IInv, HistoryParts

\* The request goroutines.
LEMMA RequestIInv ==
  ASSUME IInv, NEW t \in Tasks, Call(t) \/ Enqueue(t) \/ Refuse(t)
  PROVE  IInv'
<1>. USE DEF workerVars
<1>1. TypeOK'
  <2>1. CASE Call(t) \/ Refuse(t)
    BY <2>1 DEF IInv, TypeOK, Call, Refuse
  <2>2. CASE Enqueue(t)
    <3>1. /\ deleteQueue' \in Seq(Tasks) /\ accepted' \in Seq(Tasks)
          /\ Len(deleteQueue') = Len(deleteQueue) + 1
      BY <2>2 DEF IInv, TypeOK, Enqueue
    <3>2. Len(deleteQueue') <= sizes'.queueSize
      BY <2>2, <3>1 DEF IInv, TypeOK, Enqueue
    <3>. QED
      BY <2>2, <3>1, <3>2 DEF IInv, TypeOK, Enqueue
  <2>. QED
    BY <2>1, <2>2
<1>2. TimerRunsWhileTasksWait' /\ Phases'
  BY DEF IInv, TimerRunsWhileTasksWait, Phases, Call, Enqueue, Refuse
<1>3. TasksInOrderOnce'
  <2>1. CASE UNCHANGED <<handed, buff, deleteQueue, accepted>>
    BY <2>1 DEF IInv, TasksInOrderOnce
  <2>2. CASE Enqueue(t)
    <3>. DEFINE h == handed \o buff
    <3>1. h \in Seq(Tasks) /\ deleteQueue \in Seq(Tasks)
      BY DEF IInv, TypeOK
    <3>2. h \o Append(deleteQueue, t) = Append(h \o deleteQueue, t)
      BY <3>1, AppendConcat
    <3>. QED
      BY <2>2, <3>2 DEF Enqueue, IInv, TasksInOrderOnce
  <2>. QED
    BY <2>1, <2>2 DEF Call, Refuse
<1>4. HistoryParts'
  <2>1. HistoryParts /\ TypeOK
    BY DEF IInv, HistoryParts
  <2>2. /\ UNCHANGED <<deleted, outcome>>
        /\ accepted' = accepted \/ accepted' = Append(accepted, t)
    BY DEF Call, Enqueue, Refuse
  <2>. QED
    BY <2>1, <2>2, HistoryStep
<1>. QED
  BY <1>1, <1>2, <1>3, <1>4 DEF IInv, HistoryParts

\* A task moves from the head of the queue to the end of the buffer.
LEMMA ReceiveIInv ==
  ASSUME IInv, Receive
  PROVE  IInv'
<1>1. /\ buff \in Seq(Tasks) /\ deleteQueue \in Seq(Tasks) /\ handed \in Seq(Tasks)
      /\ deleteQueue # <<>> /\ deleteQueue' = Tail(deleteQueue)
      /\ buff' = Append(buff, Head(deleteQueue))
      /\ UNCHANGED <<sizes, ctxDone, request, accepted, deleted, outcome, handed>>
  BY DEF Take, TimerAfter, IInv, TypeOK, Receive
<1>2. /\ buff' \in Seq(Tasks) /\ Len(buff') = Len(buff) + 1 /\ buff' # <<>>
      /\ deleteQueue' \in Seq(Tasks) /\ Len(deleteQueue') = Len(deleteQueue) - 1
  BY <1>1
<1>3. Len(deleteQueue') <= sizes'.queueSize
  BY <1>1, <1>2 DEF IInv, TypeOK
<1>4. UsersOf(buff') \subseteq Users
  BY <1>2, TasksAssumption DEF UsersOf
<1>5. TypeOK'
  BY <1>1, <1>2, <1>3, <1>4 DEF Take, TimerAfter, IInv, TypeOK, Receive, StartFlush
<1>6. TimerRunsWhileTasksWait' /\ Phases'
  <2>1. CASE /\ Len(buff') < sizes.maxSize
             /\ timer' = IF Len(buff') = 1 THEN "armed" ELSE timer
             /\ UNCHANGED <<pc, flushCtx, group>>
    <3>1. Len(buff') # 1 => buff # <<>>
      BY <1>1, <1>2
    <3>. QED
      BY <1>1, <1>2, <2>1, <3>1
      DEF Take, TimerAfter, IInv, TimerRunsWhileTasksWait, Phases, Receive
  <2>2. CASE timer' = "nil" /\ StartFlush(buff', "run")
    BY <1>1, <2>2
    DEF Take, TimerAfter, IInv, TimerRunsWhileTasksWait, Phases, Receive, StartFlush
  <2>. QED
    BY <2>1, <2>2 DEF Take, TimerAfter, Receive
<1>7. TasksInOrderOnce'
  <2>1. buff' \o deleteQueue' = buff \o deleteQueue
    BY <1>1, MoveHead
  <2>2. /\ handed \in Seq(Tasks) /\ buff \in Seq(Tasks) /\ buff' \in Seq(Tasks)
        /\ deleteQueue \in Seq(Tasks) /\ deleteQueue' \in Seq(Tasks)
    BY <1>1, <1>2
  <2>3. (handed \o buff') \o deleteQueue' = handed \o (buff' \o deleteQueue')
    BY <2>2, ConcatAssociative
  <2>4. (handed \o buff) \o deleteQueue = handed \o (buff \o deleteQueue)
    BY <2>2, ConcatAssociative
  <2>. QED
    BY <1>1, <2>1, <2>3, <2>4 DEF IInv, TasksInOrderOnce
<1>8. HistoryParts'
  BY <1>1, HistoryStep DEF IInv, HistoryParts
<1>. QED
  BY <1>5, <1>6, <1>7, <1>8 DEF IInv, HistoryParts

\* At shutdown the tasks move in the same way, and the timer stays off.
LEMMA DrainIInv ==
  ASSUME IInv, Drain
  PROVE  IInv'
<1>1. /\ buff \in Seq(Tasks) /\ deleteQueue \in Seq(Tasks) /\ handed \in Seq(Tasks)
      /\ UNCHANGED <<sizes, ctxDone, request, accepted, timer, deleted,
                     outcome, handed>>
  BY DEF Take, IInv, TypeOK, Drain
<1>2. HistoryParts'
  BY <1>1, HistoryStep DEF IInv, HistoryParts
<1>3. pc = "tail" /\ ctxDone /\ timer = "nil"
  BY DEF Take, IInv, Drain, Phases
<1>4. CASE /\ deleteQueue # <<>>
           /\ deleteQueue' = Tail(deleteQueue)
           /\ buff' = Append(buff, Head(deleteQueue))
           /\ UNCHANGED <<pc, flushCtx, group>>
  <2>1. /\ buff' \in Seq(Tasks) /\ deleteQueue' \in Seq(Tasks)
        /\ Len(deleteQueue') = Len(deleteQueue) - 1
    BY <1>1, <1>4
  <2>2. Len(deleteQueue') <= sizes'.queueSize
    BY <1>1, <1>4, <2>1 DEF IInv, TypeOK
  <2>3. TypeOK'
    BY <1>1, <1>4, <2>1, <2>2 DEF IInv, TypeOK
  <2>4. TimerRunsWhileTasksWait' /\ Phases'
    BY <1>1, <1>3, <1>4 DEF IInv, TimerRunsWhileTasksWait, Phases
  <2>5. buff' \o deleteQueue' = buff \o deleteQueue
    BY <1>1, <1>4, MoveHead
  <2>6. TasksInOrderOnce'
    <3>1. /\ handed \in Seq(Tasks) /\ buff \in Seq(Tasks)
          /\ buff' \in Seq(Tasks) /\ deleteQueue \in Seq(Tasks)
          /\ deleteQueue' \in Seq(Tasks)
      BY <1>1, <2>1
    <3>2. (handed \o buff') \o deleteQueue' = handed \o (buff' \o deleteQueue')
      BY <3>1, ConcatAssociative
    <3>3. (handed \o buff) \o deleteQueue = handed \o (buff \o deleteQueue)
      BY <3>1, ConcatAssociative
    <3>. QED
      BY <1>1, <2>5, <3>2, <3>3 DEF IInv, TasksInOrderOnce
  <2>. QED
    BY <1>2, <2>3, <2>4, <2>6 DEF IInv, HistoryParts
<1>5. CASE /\ deleteQueue = <<>>
           /\ StartFlush(buff, "shutdown")
           /\ UNCHANGED <<deleteQueue, buff>>
  <2>1. UsersOf(buff) \subseteq Users
    BY <1>1, TasksAssumption DEF UsersOf
  <2>2. TypeOK'
    BY <1>1, <1>5, <2>1 DEF IInv, TypeOK, StartFlush
  <2>3. TimerRunsWhileTasksWait' /\ Phases'
    BY <1>1, <1>3, <1>5 DEF TimerRunsWhileTasksWait, Phases, StartFlush
  <2>4. TasksInOrderOnce'
    BY <1>1, <1>5 DEF IInv, TasksInOrderOnce
  <2>. QED
    BY <1>2, <2>2, <2>3, <2>4 DEF IInv, HistoryParts
<1>. QED
  BY <1>4, <1>5 DEF Take, Drain

\* The timer, the start of the shutdown and its deadline.
LEMMA TimeIInv ==
  ASSUME IInv, TimerFires \/ ReceiveTimer \/ StartShutdown \/ Expire
  PROVE  IInv'
<1>1. UNCHANGED <<sizes, ctxDone, request, deleteQueue, accepted, buff,
                  deleted, outcome, handed>>
  BY DEF TimerFires, ReceiveTimer, StartShutdown, Expire
<1>2. UsersOf(buff) \subseteq Users
  BY TasksAssumption DEF IInv, TypeOK, UsersOf
<1>3. TypeOK'
  BY <1>1, <1>2
  DEF IInv, TypeOK, TimerFires, ReceiveTimer, StartShutdown, Expire, StartFlush
<1>4. TimerRunsWhileTasksWait' /\ Phases'
  BY <1>1
  DEF IInv, TimerRunsWhileTasksWait, Phases, TimerFires, ReceiveTimer,
      StartShutdown, Expire, StartFlush
<1>5. TasksInOrderOnce'
  BY <1>1 DEF IInv, TasksInOrderOnce
<1>6. HistoryParts'
  BY <1>1, HistoryStep DEF IInv, HistoryParts
<1>. QED
  BY <1>3, <1>4, <1>5, <1>6 DEF IInv, HistoryParts

\* The end of a flush empties the buffer into the history.
LEMMA FlushEndIInv ==
  ASSUME IInv, FlushEnd
  PROVE  IInv'
<1>1. /\ buff \in Seq(Tasks) /\ deleteQueue \in Seq(Tasks) /\ handed \in Seq(Tasks)
      /\ buff' = <<>> /\ handed' = handed \o buff /\ pc = "flush"
      /\ UNCHANGED <<sizes, ctxDone, request, deleteQueue, accepted, timer,
                     flushCtx, group, deleted, outcome>>
  BY DEF AfterFlush, IInv, TypeOK, FlushEnd
<1>2. handed' \in Seq(Tasks) /\ buff' \in Seq(Tasks)
  BY <1>1
<1>3. TypeOK'
  BY <1>1, <1>2 DEF AfterFlush, IInv, TypeOK, FlushEnd
<1>4. 0 < sizes.maxSize /\ Len(<<>>) = 0
  BY DEF IInv, TypeOK
<1>5. TimerRunsWhileTasksWait' /\ Phases'
  BY <1>1, <1>4 DEF AfterFlush, IInv, TimerRunsWhileTasksWait, Phases, FlushEnd
<1>6. handed' \o buff' = handed \o buff
  BY <1>1, <1>2, ConcatEmptySeq
<1>7. TasksInOrderOnce'
  BY <1>1, <1>6 DEF IInv, TasksInOrderOnce
<1>8. HistoryParts'
  BY <1>1, HistoryStep DEF IInv, HistoryParts
<1>. QED
  BY <1>3, <1>5, <1>7, <1>8 DEF IInv, HistoryParts

-----------------------------------------------------------------------------
\* A place of a user is a code of a task of that user in buff.
LEMMA PlaceShape ==
  ASSUME TypeOK, NEW uid \in Users, NEW a \in Places(uid)
  PROVE  /\ a[1] \in DOMAIN buff /\ buff[a[1]] \in Tasks
         /\ TaskUID[buff[a[1]]] = uid
         /\ a[2] \in DOMAIN TaskCodes[buff[a[1]]]
         /\ CodeAt(a) \in ShortCodes
<1>1. PICK j \in DOMAIN buff :
        /\ TaskUID[buff[j]] = uid
        /\ \E k \in DOMAIN TaskCodes[buff[j]] : a = <<j, k>>
  BY DEF Places
<1>1a. PICK k \in DOMAIN TaskCodes[buff[j]] : a = <<j, k>>
  BY <1>1
<1>2. buff[j] \in Tasks
  BY DEF TypeOK
<1>3. TaskCodes[buff[j]][k] \in ShortCodes
  BY <1>2, TasksAssumption
<1>. QED
  BY <1>1, <1>1a, <1>2, <1>3 DEF CodeAt

\* The handing over of one user's group, for any set of places that the
\* backend marks and any result that is justified.
LEMMA SoftDeleteIInv ==
  ASSUME IInv, NEW uid \in Users, NEW places \in SUBSET Places(uid),
         NEW result \in {"ok", "error"}, SoftDeleteURLs(uid, places, result),
         pc = "flush", group' = group \ {uid},
         UNCHANGED <<sizes, ctxDone, request, deleteQueue, accepted, buff,
                     timer, pc, flushCtx, handed>>,
         result = "ok" =>
           \A a \in Places(uid) : Owner[CodeAt(a)] = uid => a \in places,
         Backend = "postgres" => \A a \in places : Owner[CodeAt(a)] = uid
  PROVE  IInv'
<1>. DEFINE InBuff(t) == \E j \in DOMAIN buff : buff[j] = t
<1>1. /\ TypeOK /\ TasksInOrderOnce
      /\ \A a \in places : CodeAt(a) \in ShortCodes
  BY PlaceShape DEF IInv
<1>2. /\ deleted' = deleted \cup {CodeAt(a) : a \in places}
      /\ outcome' = [t \in Tasks |->
                       IF TaskUID[t] = uid /\ InBuff(t)
                         THEN result ELSE outcome[t]]
  BY DEF SoftDeleteURLs
<1>3. TypeOK'
  BY <1>1, <1>2 DEF TypeOK
<1>4. TimerRunsWhileTasksWait' /\ Phases' /\ TasksInOrderOnce'
  BY DEF IInv, TimerRunsWhileTasksWait, Phases, TasksInOrderOnce
<1>5. OkMeansDeleted'
  <2>. SUFFICES ASSUME NEW t \in Tasks, outcome'[t] = "ok",
                       NEW k \in DOMAIN TaskCodes[t],
                       Owner[TaskCodes[t][k]] = TaskUID[t]
                PROVE  TaskCodes[t][k] \in deleted'
    BY DEF OkMeansDeleted
  <2>1. CASE TaskUID[t] = uid /\ InBuff(t)
    <3>1. PICK j \in DOMAIN buff : buff[j] = t
      BY <2>1
    <3>2. <<j, k>> \in Places(uid) /\ CodeAt(<<j, k>>) = TaskCodes[t][k]
      BY <2>1, <3>1 DEF Places, CodeAt
    <3>3. result = "ok"
      BY <1>2, <2>1
    <3>. QED
      BY <1>2, <2>1, <3>2, <3>3
  <2>2. CASE ~(TaskUID[t] = uid /\ InBuff(t))
    <3>1. outcome[t] = "ok"
      BY <1>2, <2>2
    <3>. QED
      BY <1>2, <3>1 DEF IInv, OkMeansDeleted
  <2>. QED
    BY <2>1, <2>2
<1>6. DeletedOnRequest'
  <2>. SUFFICES ASSUME NEW c \in deleted'
                PROVE  \E n \in DOMAIN accepted :
                         /\ \E k \in DOMAIN TaskCodes[accepted[n]] :
                              TaskCodes[accepted[n]][k] = c
                         /\ Backend = "postgres" =>
                              TaskUID[accepted[n]] = Owner[c]
    BY DEF DeletedOnRequest
  <2>1. CASE c \in deleted
    BY <2>1 DEF IInv, DeletedOnRequest
  <2>2. CASE c \notin deleted
    <3>1. PICK a \in places : CodeAt(a) = c
      BY <1>2, <2>2
    <3>2. /\ a[1] \in DOMAIN buff /\ TaskUID[buff[a[1]]] = uid
          /\ a[2] \in DOMAIN TaskCodes[buff[a[1]]]
      BY <1>1, PlaceShape
    <3>3. PICK n \in DOMAIN accepted : accepted[n] = buff[a[1]]
      BY <1>1, <3>2, BuffAccepted
    <3>4. TaskCodes[accepted[n]][a[2]] = c
      BY <3>1, <3>3 DEF CodeAt
    <3>. QED
      BY <3>1, <3>2, <3>3, <3>4
  <2>. QED
    BY <2>1, <2>2
<1>. QED
  BY <1>3, <1>4, <1>5, <1>6 DEF IInv

\* The cache has marked every place when it reports success.
LEMMA CacheResultsShape ==
  ASSUME NEW uid \in Users, NEW result \in CacheResults(uid)
  PROVE  /\ result \in {"ok", "error"}
         /\ result = "ok" => Reached(uid) = Places(uid)
         /\ result = "error" =>
              Reached(uid) # Places(uid) \/ (Backend = "file" /\ StorageFaults)
  BY DEF CacheResults

\* A flush hands over the codes of one user.
LEMMA FlushGroupIInv ==
  ASSUME IInv, NEW uid \in Users, FlushGroup(uid)
  PROVE  IInv'
<1>1. /\ pc = "flush" /\ group' = group \ {uid}
      /\ UNCHANGED <<sizes, ctxDone, request, deleteQueue, accepted, buff,
                     timer, pc, flushCtx, handed>>
  BY DEF FlushGroup
<1>2. /\ {} \in SUBSET Places(uid)
      /\ Reached(uid) \in SUBSET Places(uid)
      /\ Owned(uid) \in SUBSET Places(uid)
  BY DEF Reached, Owned
<1>3. \A a \in Places(uid) : Owner[CodeAt(a)] = uid <=> a \in Owned(uid)
  BY DEF Owned
<1>5. CASE CtxErr /\ SoftDeleteURLs(uid, {}, "error")
  BY <1>1, <1>2, <1>5, SoftDeleteIInv
<1>6. CASE /\ Backend # "postgres"
           /\ \E result \in CacheResults(uid) : SoftDeleteURLs(uid, Reached(uid), result)
  <2>1. PICK result \in CacheResults(uid) : SoftDeleteURLs(uid, Reached(uid), result)
    BY <1>6
  <2>2. /\ result \in {"ok", "error"}
        /\ result = "ok" => Reached(uid) = Places(uid)
    BY CacheResultsShape
  <2>. QED
    BY <1>1, <1>2, <1>6, <2>1, <2>2, SoftDeleteIInv
<1>7. CASE Backend = "postgres" /\ SoftDeleteURLs(uid, Owned(uid), "ok")
  BY <1>1, <1>2, <1>3, <1>7, SoftDeleteIInv
<1>8. CASE /\ Backend = "postgres"
           /\ \E places \in {{}, Owned(uid)} :
                SoftDeleteURLs(uid, places, "error")
  BY <1>1, <1>2, <1>3, <1>8, SoftDeleteIInv
<1>. QED
  BY <1>5, <1>6, <1>7, <1>8 DEF FlushGroup

-----------------------------------------------------------------------------
\* Every step keeps the invariant.
LEMMA NextIInv == IInv /\ [Next]_vars => IInv'
<1>. SUFFICES ASSUME IInv, [Next]_vars PROVE IInv'
  OBVIOUS
<1>1. CASE UNCHANGED vars
  <2>1. UNCHANGED <<sizes, ctxDone, request, deleteQueue, accepted, buff, timer,
                    pc, flushCtx, group, deleted, outcome, handed>>
    BY <1>1 DEF vars, workerVars
  <2>2. HistoryParts'
    BY <2>1, HistoryStep DEF IInv, HistoryParts
  <2>3. TypeOK' /\ TimerRunsWhileTasksWait' /\ Phases' /\ TasksInOrderOnce'
    BY <2>1
    DEF IInv, TypeOK, TimerRunsWhileTasksWait, Phases, TasksInOrderOnce
  <2>. QED
    BY <2>2, <2>3 DEF IInv, HistoryParts
<1>2. ASSUME NEW t \in Tasks, Call(t) \/ Enqueue(t) \/ Refuse(t) PROVE IInv'
  BY <1>2, RequestIInv
<1>3. CASE Cancel
  BY <1>3, CancelIInv
<1>4. CASE TimerFires \/ Expire
  BY <1>4, TimeIInv
<1>5. CASE Worker
  BY <1>5, ReceiveIInv, TimeIInv, DrainIInv, FlushGroupIInv, FlushEndIInv
  DEF Worker
<1>. QED
  BY <1>1, <1>2, <1>3, <1>4, <1>5 DEF Next

\* It holds in every state.
LEMMA SpecIInv == Spec => []IInv
  BY InitIInv, NextIInv, PTL DEF Spec

-----------------------------------------------------------------------------
(***************************************************************************)
(* FailuresHaveOwnCause is kept apart from IInv: it needs that nobody      *)
(* closes the storage while the worker runs.                               *)
(***************************************************************************)
LEMMA OtherStepsFailures ==
  ASSUME TypeOK, FailuresHaveOwnCause, UNCHANGED outcome, ctxDone => ctxDone',
         \/ accepted' = accepted
         \/ \E t \in Tasks : accepted' = Append(accepted, t)
  PROVE  FailuresHaveOwnCause'
  BY AcceptedGrows DEF FailuresHaveOwnCause

\* A user's tasks fail by the fault or the codes of that call alone.
LEMMA FlushGroupFailures ==
  ASSUME IInv, FailuresHaveOwnCause, NEW uid \in Users, FlushGroup(uid)
  PROVE  FailuresHaveOwnCause'
<1>. DEFINE InBuff(t) == \E j \in DOMAIN buff : buff[j] = t
<1>1. /\ TypeOK /\ TasksInOrderOnce
      /\ UNCHANGED <<ctxDone, buff, accepted>>
  BY DEF IInv, FlushGroup
<1>2. CtxErr => ctxDone
  BY DEF CtxErr, IInv, Phases, TypeOK
<1>3. PICK places, result :
        /\ SoftDeleteURLs(uid, places, result)
        /\ result = "error" =>
             \/ ctxDone
             \/ Backend # "memory" /\ StorageFaults
             \/ Backend # "postgres" /\ Reached(uid) # Places(uid)
  <2>1. CASE CtxErr
    BY <1>2, <2>1 DEF FlushGroup
  <2>2. CASE /\ Backend # "postgres"
             /\ \E result \in CacheResults(uid) :
                  SoftDeleteURLs(uid, Reached(uid), result)
    <3>1. PICK result \in CacheResults(uid) : SoftDeleteURLs(uid, Reached(uid), result)
      BY <2>2
    <3>2. result = "error" =>
            Reached(uid) # Places(uid) \/ (Backend # "memory" /\ StorageFaults)
      BY CacheResultsShape
    <3>. QED
      BY <2>2, <3>1, <3>2
  <2>3. CASE Backend = "postgres" /\ ~CtxErr
    BY <2>3 DEF FlushGroup
  <2>. QED
    BY <2>1, <2>2, <2>3 DEF FlushGroup
<1>4. outcome' = [t \in Tasks |->
                    IF TaskUID[t] = uid /\ InBuff(t) THEN result ELSE outcome[t]]
  BY <1>3 DEF SoftDeleteURLs
<1>. SUFFICES ASSUME NEW t \in Tasks, outcome'[t] = "error", ~ctxDone,
                     ~(Backend # "memory" /\ StorageFaults)
              PROVE  /\ Backend # "postgres"
                     /\ \E n \in DOMAIN accepted :
                          /\ TaskUID[accepted[n]] = TaskUID[t]
                          /\ \E k \in DOMAIN TaskCodes[accepted[n]] :
                               Owner[TaskCodes[accepted[n]][k]] = NoOwner
  BY <1>1 DEF FailuresHaveOwnCause
<1>5. CASE TaskUID[t] = uid /\ InBuff(t)
  <2>1. Backend # "postgres" /\ Reached(uid) # Places(uid)
    BY <1>3, <1>4, <1>5
  <2>2. PICK a \in Places(uid) : Owner[CodeAt(a)] = NoOwner
    BY <2>1 DEF Reached
  <2>3. /\ a[1] \in DOMAIN buff /\ TaskUID[buff[a[1]]] = uid
        /\ a[2] \in DOMAIN TaskCodes[buff[a[1]]]
    BY <1>1, PlaceShape
  <2>4. PICK n \in DOMAIN accepted : accepted[n] = buff[a[1]]
    BY <1>1, <2>3, BuffAccepted
  <2>5. TaskCodes[accepted[n]][a[2]] = CodeAt(a)
    BY <2>4 DEF CodeAt
  <2>. QED
    BY <1>5, <2>1, <2>2, <2>3, <2>4, <2>5
<1>6. CASE ~(TaskUID[t] = uid /\ InBuff(t))
  <2>1. outcome[t] = "error"
    BY <1>4, <1>6
  <2>. QED
    BY <2>1 DEF FailuresHaveOwnCause
<1>. QED
  BY <1>5, <1>6

\* No other step answers a task.
LEMMA NextFailures ==
  IInv /\ FailuresHaveOwnCause /\ [Next]_vars => FailuresHaveOwnCause'
<1>. SUFFICES ASSUME IInv, FailuresHaveOwnCause, [Next]_vars
              PROVE  FailuresHaveOwnCause'
  OBVIOUS
<1>1. ASSUME NEW uid \in Users, FlushGroup(uid) PROVE FailuresHaveOwnCause'
  BY <1>1, FlushGroupFailures
<1>2. ASSUME NEW t \in Tasks, Call(t) \/ Enqueue(t) \/ Refuse(t)
      PROVE  FailuresHaveOwnCause'
  <2>1. /\ UNCHANGED <<outcome, ctxDone>>
        /\ accepted' = accepted \/ accepted' = Append(accepted, t)
    BY <1>2 DEF Call, Enqueue, Refuse, workerVars
  <2>. QED
    BY <2>1, OtherStepsFailures DEF IInv
<1>3. CASE \/ Cancel \/ TimerFires \/ Expire \/ UNCHANGED vars
           \/ Receive \/ ReceiveTimer \/ StartShutdown \/ Drain \/ FlushEnd
  <2>1. UNCHANGED <<outcome, accepted>> /\ (ctxDone => ctxDone')
    BY <1>3
    DEF Cancel, TimerFires, Expire, vars, workerVars, Receive, ReceiveTimer,
        StartShutdown, Drain, FlushEnd
  <2>. QED
    BY <2>1, OtherStepsFailures DEF IInv
<1>. QED
  BY <1>1, <1>2, <1>3 DEF Next, Worker

-----------------------------------------------------------------------------
(***************************************************************************)
(* The types, and the bound on the channel.                                *)
(***************************************************************************)
THEOREM TypeCorrect == Spec => []TypeOK
  BY SpecIInv, PTL DEF IInv

(***************************************************************************)
(* The timer can neither be forgotten nor be nil when it is stopped.       *)
(***************************************************************************)
THEOREM TimerSafe == Spec => []TimerRunsWhileTasksWait
  BY SpecIInv, PTL DEF IInv

(***************************************************************************)
(* Every accepted task is in exactly one place, in the order of arrival.   *)
(***************************************************************************)
THEOREM NoTaskLost == Spec => []TasksInOrderOnce
  BY SpecIInv, PTL DEF IInv

(***************************************************************************)
(* Success is not reported for a task whose rows are still live.           *)
(***************************************************************************)
THEOREM SuccessIsReal == Spec => []OkMeansDeleted
  BY SpecIInv, PTL DEF IInv

(***************************************************************************)
(* Nothing is deleted that nobody asked for; with PostgreSQL, nothing that *)
(* its owner did not ask for.                                              *)
(***************************************************************************)
THEOREM OnlyRequested == Spec => []DeletedOnRequest
  BY SpecIInv, PTL DEF IInv

(***************************************************************************)
(* Users do not make each other's deletions fail.                          *)
(***************************************************************************)
THEOREM FailuresAreIsolated == Spec => []FailuresHaveOwnCause
<1>1. Init => FailuresHaveOwnCause
  BY DEF Init, FailuresHaveOwnCause
<1>. QED
  BY <1>1, NextFailures, SpecIInv, PTL DEF Spec

-----------------------------------------------------------------------------
(***************************************************************************)
(* Where a task is tells whether it has been handed to the repository: a   *)
(* task of an ended flush has, one that waits in the channel or in buff    *)
(* has not, and during a flush it depends on the user.                     *)
(***************************************************************************)
PlacesTellAnswers ==
  /\ \A n \in DOMAIN handed : outcome[handed[n]] # "none"
  /\ \A j \in DOMAIN buff :
       outcome[buff[j]] # "none" <=> pc = "flush" /\ TaskUID[buff[j]] \notin group
  /\ \A k \in DOMAIN deleteQueue : outcome[deleteQueue[k]] = "none"
  /\ \A t \in Tasks : request[t] # "accepted" => outcome[t] = "none"

\* No task is part of a second SoftDeleteURLs.
OneAnswer(t) == outcome[t] # "none" => outcome'[t] = outcome[t]

\* What keeps a flush from answering a task that still waits in the channel.
Apart ==
  /\ \A j \in DOMAIN buff : request[buff[j]] = "accepted"
  /\ \A k \in DOMAIN deleteQueue : request[deleteQueue[k]] = "accepted"
  /\ \A k, l \in DOMAIN deleteQueue : deleteQueue[k] = deleteQueue[l] => k = l
  /\ \A j \in DOMAIN buff : \A k \in DOMAIN deleteQueue : buff[j] # deleteQueue[k]

AnswerInv == Apart /\ PlacesTellAnswers

\* A task that moves on keeps its distance, and has no answer yet.
LEMMA TakeAnswers ==
  ASSUME TypeOK, AnswerInv, Take, UNCHANGED <<request, outcome, handed>>,
         pc \in {"select", "tail"},
         pc' = "flush" => group' = UsersOf(buff')
  PROVE  AnswerInv'
<1>1. /\ deleteQueue \in Seq(Tasks) /\ buff \in Seq(Tasks) /\ deleteQueue # <<>>
      /\ deleteQueue' = Tail(deleteQueue) /\ buff' = Append(buff, Head(deleteQueue))
  BY DEF TypeOK, Take
<1>2. /\ 1 \in DOMAIN deleteQueue /\ Head(deleteQueue) = deleteQueue[1]
      /\ \A k \in DOMAIN deleteQueue' :
           k + 1 \in DOMAIN deleteQueue /\ k + 1 # 1 /\ deleteQueue'[k] = deleteQueue[k + 1]
  BY <1>1
<1>3. \A j \in DOMAIN buff' :
        \/ j \in DOMAIN buff /\ buff'[j] = buff[j]
        \/ buff'[j] = deleteQueue[1]
  BY <1>1, <1>2
<1>4. Apart'
  BY <1>1, <1>2, <1>3 DEF AnswerInv, Apart
<1>5. \A j \in DOMAIN buff' : outcome[buff'[j]] = "none"
  BY <1>2, <1>3 DEF AnswerInv, PlacesTellAnswers
<1>6. pc' = "flush" => \A j \in DOMAIN buff' : TaskUID[buff'[j]] \in group'
  BY DEF UsersOf
<1>7. PlacesTellAnswers'
  BY <1>2, <1>5, <1>6 DEF AnswerInv, PlacesTellAnswers
<1>. QED
  BY <1>4, <1>7 DEF AnswerInv

\* One user's group is answered, and nobody else.
LEMMA GroupAnswers ==
  ASSUME TypeOK, AnswerInv, NEW uid \in Users, NEW places, NEW result \in {"ok", "error"},
         SoftDeleteURLs(uid, places, result), pc = "flush", uid \in group,
         group' = group \ {uid},
         UNCHANGED <<request, deleteQueue, buff, pc, handed>>
  PROVE  AnswerInv' /\ \A t \in Tasks : OneAnswer(t)
<1>. DEFINE InBuff(t) == \E j \in DOMAIN buff : buff[j] = t
<1>1. outcome' = [t \in Tasks |->
                    IF TaskUID[t] = uid /\ InBuff(t) THEN result ELSE outcome[t]]
  BY DEF SoftDeleteURLs
<1>2. /\ \A j \in DOMAIN buff : buff[j] \in Tasks
      /\ \A k \in DOMAIN deleteQueue : deleteQueue[k] \in Tasks
      /\ \A n \in DOMAIN handed : handed[n] \in Tasks
  BY DEF TypeOK
<1>3. \A t \in Tasks : OneAnswer(t)
  BY <1>1 DEF OneAnswer, AnswerInv, PlacesTellAnswers
<1>4. \A j \in DOMAIN buff :
        outcome'[buff[j]] # "none" <=> TaskUID[buff[j]] \notin group \ {uid}
  BY <1>1, <1>2 DEF AnswerInv, PlacesTellAnswers
<1>5. \A k \in DOMAIN deleteQueue : outcome'[deleteQueue[k]] = "none"
  BY <1>1, <1>2 DEF AnswerInv, Apart, PlacesTellAnswers
<1>6. \A n \in DOMAIN handed : outcome'[handed[n]] # "none"
  BY <1>2, <1>3 DEF OneAnswer, AnswerInv, PlacesTellAnswers
<1>7. \A t \in Tasks : request[t] # "accepted" => outcome'[t] = "none"
  BY <1>1 DEF AnswerInv, Apart, PlacesTellAnswers
<1>8. Apart'
  BY DEF AnswerInv, Apart
<1>. QED
  BY <1>3, <1>4, <1>5, <1>6, <1>7, <1>8 DEF AnswerInv, PlacesTellAnswers

\* The end of a flush: every user has had a turn.
LEMMA FlushEndAnswers ==
  ASSUME TypeOK, AnswerInv, FlushEnd
  PROVE  AnswerInv'
<1>1. /\ buff \in Seq(Tasks) /\ handed \in Seq(Tasks) /\ pc = "flush" /\ group = {}
      /\ buff' = <<>> /\ handed' = handed \o buff
      /\ UNCHANGED <<request, deleteQueue, outcome>>
  BY DEF TypeOK, FlushEnd
<1>2. \A n \in DOMAIN handed' :
        \/ n \in DOMAIN handed /\ handed'[n] = handed[n]
        \/ \E j \in DOMAIN buff : handed'[n] = buff[j]
  <2>. SUFFICES ASSUME NEW n \in DOMAIN handed', ~(n <= Len(handed))
                PROVE  \E j \in DOMAIN buff : handed'[n] = buff[j]
    BY <1>1
  <2>1. n - Len(handed) \in DOMAIN buff /\ handed'[n] = buff[n - Len(handed)]
    BY <1>1
  <2>. QED
    BY <2>1
<1>3. \A n \in DOMAIN handed' : outcome'[handed'[n]] # "none"
  BY <1>1, <1>2 DEF AnswerInv, PlacesTellAnswers
<1>4. DOMAIN buff' = {}
  BY <1>1
<1>. QED
  BY <1>1, <1>3, <1>4 DEF AnswerInv, Apart, PlacesTellAnswers

\* A request that is let in is a new task, and has no answer.
LEMMA RequestAnswers ==
  ASSUME TypeOK, AnswerInv, NEW t \in Tasks, Call(t) \/ Enqueue(t) \/ Refuse(t)
  PROVE  AnswerInv' /\ UNCHANGED outcome
<1>1. UNCHANGED <<buff, pc, group, outcome, handed>>
  BY DEF Call, Enqueue, Refuse, workerVars
<1>2. /\ deleteQueue \in Seq(Tasks) /\ request \in [Tasks -> {"new", "called", "accepted", "refused"}]
      /\ \A j \in DOMAIN buff : buff[j] \in Tasks
      /\ \A k \in DOMAIN deleteQueue : deleteQueue[k] \in Tasks
      /\ request[t] # "accepted"
  BY DEF TypeOK, Call, Enqueue, Refuse
<1>3. outcome[t] = "none"
  BY <1>2 DEF AnswerInv, PlacesTellAnswers
<1>4. \A u \in Tasks : request[u] = "accepted" => request'[u] = "accepted"
  BY <1>2 DEF Call, Enqueue, Refuse
<1>5. CASE Call(t) \/ Refuse(t)
  <2>1. deleteQueue' = deleteQueue
    BY <1>5 DEF Call, Refuse
  <2>2. \A u \in Tasks : request'[u] # "accepted" => request[u] # "accepted"
    BY <1>4
  <2>. QED
    BY <1>1, <1>2, <1>4, <2>1, <2>2 DEF AnswerInv, Apart, PlacesTellAnswers
<1>6. CASE Enqueue(t)
  <2>1. deleteQueue' = Append(deleteQueue, t) /\ request'[t] = "accepted"
    BY <1>2, <1>6 DEF Enqueue
  <2>2. \A k \in DOMAIN deleteQueue' :
          \/ k \in DOMAIN deleteQueue /\ deleteQueue'[k] = deleteQueue[k]
          \/ k = Len(deleteQueue) + 1 /\ deleteQueue'[k] = t
    BY <1>2, <2>1
  <2>3. /\ \A k \in DOMAIN deleteQueue : deleteQueue[k] # t
        /\ \A j \in DOMAIN buff : buff[j] # t
    BY <1>2 DEF AnswerInv, Apart
  <2>4. \A k, l \in DOMAIN deleteQueue' : deleteQueue'[k] = deleteQueue'[l] => k = l
    BY <2>2, <2>3 DEF AnswerInv, Apart
  <2>5. Apart'
    BY <1>1, <1>2, <1>4, <2>1, <2>2, <2>3, <2>4 DEF AnswerInv, Apart
  <2>6. PlacesTellAnswers'
    BY <1>1, <1>3, <1>4, <2>2 DEF AnswerInv, PlacesTellAnswers
  <2>. QED
    BY <1>1, <2>5, <2>6 DEF AnswerInv
<1>. QED
  BY <1>1, <1>5, <1>6

\* The steps of the worker and of time that hand nothing to the repository.
LEMMA QuietAnswers ==
  ASSUME IInv, AnswerInv,
         \/ Receive \/ ReceiveTimer \/ StartShutdown \/ Drain \/ FlushEnd
         \/ TimerFires \/ Expire \/ Cancel \/ UNCHANGED vars
  PROVE  AnswerInv' /\ UNCHANGED outcome
<1>1. TypeOK
  BY DEF IInv
<1>2. CASE Receive \/ (Drain /\ Take)
  <2>1. /\ Take /\ UNCHANGED <<request, outcome, handed>> /\ pc \in {"select", "tail"}
        /\ pc' = "flush" => group' = UsersOf(buff')
    BY <1>2 DEF Receive, Drain, StartFlush
  <2>. QED
    BY <1>1, <2>1, TakeAnswers
<1>3. CASE ReceiveTimer \/ (Drain /\ ~Take)
  <2>1. /\ UNCHANGED <<request, deleteQueue, buff, outcome, handed>> /\ pc # "flush"
        /\ pc' = "flush" /\ group' = UsersOf(buff')
    BY <1>3 DEF ReceiveTimer, Drain, StartFlush
  <2>2. \A j \in DOMAIN buff' : TaskUID[buff'[j]] \in group'
    BY <2>1 DEF UsersOf
  <2>. QED
    BY <2>1, <2>2 DEF AnswerInv, Apart, PlacesTellAnswers
<1>4. CASE StartShutdown
  BY <1>4 DEF StartShutdown, AnswerInv, Apart, PlacesTellAnswers
<1>5. CASE FlushEnd
  BY <1>1, <1>5, FlushEndAnswers DEF FlushEnd
<1>6. CASE TimerFires \/ Expire \/ Cancel \/ UNCHANGED vars
  <2>1. UNCHANGED <<request, deleteQueue, buff, pc, group, outcome, handed>>
    BY <1>6 DEF TimerFires, Expire, Cancel, vars, workerVars
  <2>. QED
    BY <2>1 DEF AnswerInv, Apart, PlacesTellAnswers
<1>. QED
  BY <1>2, <1>3, <1>4, <1>5, <1>6

\* One turn of the loop of flush.
LEMMA FlushGroupAnswers ==
  ASSUME TypeOK, AnswerInv, NEW uid \in Users, FlushGroup(uid)
  PROVE  AnswerInv' /\ \A t \in Tasks : OneAnswer(t)
<1>1. /\ pc = "flush" /\ uid \in group /\ group' = group \ {uid}
      /\ UNCHANGED <<request, deleteQueue, buff, pc, handed>>
  BY DEF FlushGroup
<1>2. PICK places, result :
        result \in {"ok", "error"} /\ SoftDeleteURLs(uid, places, result)
  <2>. DEFINE P == \E places, result :
                    result \in {"ok", "error"} /\ SoftDeleteURLs(uid, places, result)
  <2>1. \A places : SoftDeleteURLs(uid, places, "ok") => P
    OBVIOUS
  <2>2. \A places : SoftDeleteURLs(uid, places, "error") => P
    OBVIOUS
  <2>4. (\E result \in CacheResults(uid) : SoftDeleteURLs(uid, Reached(uid), result)) => P
    BY CacheResultsShape
  <2>. HIDE DEF P
  <2>3. P
    BY <2>1, <2>2, <2>4 DEF FlushGroup
  <2>. QED
    BY <2>3 DEF P
<1>. QED
  BY <1>1, <1>2, GroupAnswers

\* A worker has no task yet.
LEMMA InitAnswers == Init => AnswerInv
  BY DEF Init, AnswerInv, Apart, PlacesTellAnswers

\* Every step of the requests and the worker.
LEMMA NextAnswers ==
  IInv /\ AnswerInv /\ [Next]_vars => AnswerInv' /\ \A t \in Tasks : OneAnswer(t)
<1>. SUFFICES ASSUME IInv, AnswerInv, [Next]_vars
              PROVE  AnswerInv' /\ \A t \in Tasks : OneAnswer(t)
  OBVIOUS
<1>1. TypeOK
  BY DEF IInv
<1>2. UNCHANGED outcome => \A t \in Tasks : OneAnswer(t)
  BY DEF OneAnswer
<1>3. ASSUME NEW t \in Tasks, Call(t) \/ Enqueue(t) \/ Refuse(t)
      PROVE  AnswerInv' /\ UNCHANGED outcome
  BY <1>1, <1>3, RequestAnswers
<1>4. ASSUME NEW uid \in Users, FlushGroup(uid)
      PROVE  AnswerInv' /\ \A t \in Tasks : OneAnswer(t)
  BY <1>1, <1>4, FlushGroupAnswers
<1>. QED
  BY <1>2, <1>3, <1>4, QuietAnswers DEF Next, Worker

(***************************************************************************)
(* Every task of a flush that has ended has been handed to the repository, *)
(* and no task that waits has: none is skipped when the codes are grouped  *)
(* by user, and none is answered for another of its user's that came after *)
(* the flush began.                                                        *)
(***************************************************************************)
THEOREM EndedFlushesAnswer == Spec => []PlacesTellAnswers
<1>1. AnswerInv => PlacesTellAnswers
  BY DEF AnswerInv
<1>. QED
  BY <1>1, InitAnswers, NextAnswers, SpecIInv, PTL DEF Spec

(***************************************************************************)
(* A task is handed over once: no later flush changes how its call ended.  *)
(***************************************************************************)
THEOREM AnsweredOnce == Spec => [][\A t \in Tasks : OneAnswer(t)]_vars
<1>1. IInv /\ AnswerInv /\ [Next]_vars => [\A t \in Tasks : OneAnswer(t)]_vars
  BY NextAnswers
<1>. QED
  BY <1>1, InitAnswers, NextAnswers, SpecIInv, PTL DEF Spec

-----------------------------------------------------------------------------
(***************************************************************************)
(* What URLStore's SoftDelete, or its Refuse, allows of one call with the  *)
(* user's codes, on the rows that Owner names: existing rows are marked; a *)
(* nil error means all of the user's own; an error needs a missing row, or *)
(* changes nothing, or comes after the marking: the answer of a statement  *)
(* is lost, or the rewrite of the file fails.                              *)
(***************************************************************************)
MarkedInError ==
  \/ Backend = "postgres" /\ (CtxErr \/ StorageFaults)
  \/ Backend = "file" /\ StorageFaults

AllowedByStore(uid) ==
  LET codes == {CodeAt(a) : a \in Places(uid)}
  IN \E marked \in SUBSET codes : \E result \in {"ok", "error"} :
       /\ \A c \in marked : Owner[c] # NoOwner
       /\ deleted' = deleted \cup marked
       /\ \A j \in DOMAIN buff : TaskUID[buff[j]] = uid => outcome'[buff[j]] = result
       /\ \/ /\ \A c \in codes \ marked : Owner[c] # uid
             /\ result = "ok" \/ MarkedInError
          \/ /\ result = "error"
             /\ marked = {} \/ \E c \in codes : Owner[c] = NoOwner

\* The worker's SoftDeleteURLs, which writes out what each backend does, is
\* one that the abstract store allows.
THEOREM FlushesAreStoreSteps ==
  Spec => [][\A uid \in Users : FlushGroup(uid) => AllowedByStore(uid)]_vars
<1>1. ASSUME IInv, NEW uid \in Users, FlushGroup(uid)
      PROVE  AllowedByStore(uid)
  <2>. DEFINE codes == {CodeAt(a) : a \in Places(uid)}
              Marks(places) == {CodeAt(a) : a \in places}
  <2>1. \A j \in DOMAIN buff : buff[j] \in Tasks
    BY <1>1 DEF IInv, TypeOK
  <2>2. ASSUME NEW places \in SUBSET Places(uid), NEW result \in {"ok", "error"},
               SoftDeleteURLs(uid, places, result),
               \A a \in places : Owner[CodeAt(a)] # NoOwner,
               \/ /\ \A c \in codes \ Marks(places) : Owner[c] # uid
                  /\ result = "ok" \/ MarkedInError
               \/ /\ result = "error"
                  /\ Marks(places) = {} \/ \E c \in codes : Owner[c] = NoOwner
        PROVE  AllowedByStore(uid)
    <3>1. Marks(places) \in SUBSET codes
      OBVIOUS
    <3>2. /\ deleted' = deleted \cup Marks(places)
          /\ \A j \in DOMAIN buff : TaskUID[buff[j]] = uid => outcome'[buff[j]] = result
      BY <2>1, <2>2 DEF SoftDeleteURLs
    <3>3. \A c \in Marks(places) : Owner[c] # NoOwner
      BY <2>2
    <3>. QED
      BY <2>2, <3>1, <3>2, <3>3 DEF AllowedByStore
  <2>3. /\ Marks({}) = {} /\ {} \in SUBSET Places(uid)
        /\ \A c \in {} : Owner[c] # NoOwner
    OBVIOUS
  <2>4. CASE SoftDeleteURLs(uid, {}, "error")
    BY <2>2, <2>3, <2>4
  <2>5. CASE \E result \in CacheResults(uid) : SoftDeleteURLs(uid, Reached(uid), result)
    <3>0. PICK result \in CacheResults(uid) : SoftDeleteURLs(uid, Reached(uid), result)
      BY <2>5
    <3>4. /\ result \in {"ok", "error"}
          /\ result = "ok" => Reached(uid) = Places(uid)
          /\ result = "error" => Reached(uid) # Places(uid) \/ MarkedInError
      BY CacheResultsShape DEF MarkedInError
    <3>1. /\ Reached(uid) \in SUBSET Places(uid)
          /\ \A a \in Reached(uid) : Owner[CodeAt(a)] # NoOwner
      <4>. SUFFICES ASSUME NEW a \in Reached(uid) PROVE Owner[CodeAt(a)] # NoOwner
        BY DEF Reached
      <4>1. NotAfter(a, a)
        <5>1. PICK j \in DOMAIN buff : \E k \in DOMAIN TaskCodes[buff[j]] : a = <<j, k>>
          BY DEF Reached, Places
        <5>2. PICK k \in DOMAIN TaskCodes[buff[j]] : a = <<j, k>>
          BY <5>1
        <5>3. k \in Nat
          BY <2>1, TasksAssumption
        <5>. QED
          BY <5>2, <5>3 DEF NotAfter
      <4>. QED
        BY <4>1 DEF Reached
    <3>2. CASE Reached(uid) = Places(uid)
      <4>1. codes \ Marks(Reached(uid)) = {}
        BY <3>2
      <4>2. result = "ok" \/ MarkedInError
        BY <3>2, <3>4
      <4>. QED
        BY <2>2, <3>0, <3>1, <3>4, <4>1, <4>2
    <3>3. CASE Reached(uid) # Places(uid)
      <4>1. PICK a \in Places(uid) : Owner[CodeAt(a)] = NoOwner
        BY <3>3 DEF Reached
      <4>2. \E c \in codes : Owner[c] = NoOwner
        BY <4>1
      <4>3. result = "error"
        BY <3>3, <3>4
      <4>. QED
        BY <2>2, <3>0, <3>1, <4>2, <4>3
    <3>. QED
      BY <3>2, <3>3
  <2>6. CASE Backend = "postgres" /\ \E result \in {"ok", "error"} :
               /\ SoftDeleteURLs(uid, Owned(uid), result)
               /\ result = "ok" \/ MarkedInError
    <3>1. PICK result \in {"ok", "error"} :
            SoftDeleteURLs(uid, Owned(uid), result) /\ (result = "ok" \/ MarkedInError)
      BY <2>6
    <3>2. /\ Owned(uid) \in SUBSET Places(uid)
          /\ \A a \in Owned(uid) : Owner[CodeAt(a)] # NoOwner
      BY TasksAssumption DEF Owned
    <3>3. \A c \in codes \ Marks(Owned(uid)) : Owner[c] # uid
      BY DEF Owned
    <3>. QED
      BY <2>2, <2>6, <3>1, <3>2, <3>3
  <2>7. \/ SoftDeleteURLs(uid, {}, "error")
        \/ \E result \in CacheResults(uid) : SoftDeleteURLs(uid, Reached(uid), result)
        \/ Backend = "postgres" /\ SoftDeleteURLs(uid, Owned(uid), "ok")
        \/ /\ Backend = "postgres" /\ MarkedInError
           /\ SoftDeleteURLs(uid, Owned(uid), "error")
    BY <1>1 DEF FlushGroup, MarkedInError
  <2>. QED
    BY <2>4, <2>5, <2>6, <2>7
<1>2. IInv /\ [Next]_vars =>
        [\A uid \in Users : FlushGroup(uid) => AllowedByStore(uid)]_vars
  BY <1>1
<1>. QED
  BY <1>2, SpecIInv, PTL DEF Spec
=============================================================================
