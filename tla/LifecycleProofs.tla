-------------------------- MODULE LifecycleProofs --------------------------
(***************************************************************************)
(* Theorems about Lifecycle, for any tasks, users, codes and sizes and any *)
(* configuration of the storage.                                           *)
(*                                                                         *)
(* The invariant of the worker survives in the process, where the storage  *)
(* may be closed under it; FailuresHaveOwnCause does not, and is not part  *)
(* of it.  The rest says where a handler can still run or a connection be  *)
(* held, and what the last flush has in its hands.                         *)
(***************************************************************************)
EXTENDS Lifecycle, DeleteWorkerProofs

\* Outside the time in which the server serves, no handler runs and none can
\* start, unless Run has an error to report.
Quiet ==
  main \notin {"select", "shutdown"} /\ runErr = "nil" =>
    InFlight = {} /\ ~conns /\ handler = "none"

\* A connection is only held from the time the server listens until the pool
\* has closed.
HeldInTime == main \notin {"select", "shutdown", "returned", "closing"} => ~Held

\* The last flush starts with an empty channel, so it holds whatever was
\* accepted before the signal and not handed over yet.
FlushCoversSignal ==
  /\ pc = "flush" /\ flushCtx # "run" => Len(handed) + Len(buff) >= atSignal
  /\ pc = "done" => Len(handed) >= atSignal

LifeIInv ==
  /\ IInv
  /\ LifecycleTypeOK
  /\ Quiet
  /\ HeldInTime
  /\ FlushCoversSignal

-----------------------------------------------------------------------------
\* A process starts with nothing open and nobody at work.
LEMMA LifeInitIInv == LifeInit => LifeIInv
<1>. SUFFICES ASSUME LifeInit PROVE LifeIInv
  OBVIOUS
<1>1. IInv
  BY InitIInv DEF LifeInit
<1>2. accepted = <<>> /\ pc = "select" /\ InFlight = {}
  BY DEF LifeInit, Init, InFlight
<1>3. LifecycleTypeOK
  <2>1. atSignal \in 0 .. Len(accepted)
    BY <1>2 DEF LifeInit
  <2>. QED
    BY <1>1, <2>1 DEF LifeInit, LifecycleTypeOK, IInv
<1>4. Quiet /\ HeldInTime /\ FlushCoversSignal
  BY <1>2 DEF LifeInit, Quiet, HeldInTime, Held, FlushCoversSignal
<1>. QED
  BY <1>1, <1>3, <1>4 DEF LifeIInv

\* Where the worker's variables stay as they are, so does its invariant.
LEMMA WorkerStands ==
  ASSUME IInv, UNCHANGED vars
  PROVE  IInv' /\ InFlight' = InFlight
  BY NextIInv DEF vars, workerVars, InFlight

(***************************************************************************)
(* The main goroutine and the listener leave the worker alone.             *)
(***************************************************************************)
LEMMA MainIInv ==
  ASSUME LifeIInv, Main \/ Listener
  PROVE  LifeIInv'
<1>1. /\ UNCHANGED vars /\ UNCHANGED <<atSignal, handler, conn>>
      /\ UNCHANGED <<accepted, handed, buff, pc, flushCtx>>
  BY DEF Main, OpenStorage, LoadStorage, Run, TakeErr, TakeDone, ShutdownDone,
         ShutdownTimesOut, Close, Closed, Exit, Listener, Listen, ListenFails,
         ListenerClosed, vars, workerVars
<1>2. IInv' /\ InFlight' = InFlight
  BY <1>1, WorkerStands DEF LifeIInv
<1>3. LifecycleTypeOK'
  BY <1>1, <1>2
  DEF LifeIInv, LifecycleTypeOK, IInv, Main, OpenStorage, LoadStorage, Run,
      TakeErr, TakeDone, ShutdownDone, ShutdownTimesOut, Close, Closed, Exit,
      Listener, Listen, ListenFails, ListenerClosed
<1>4. Quiet'
  <2>1. CASE ShutdownDone
    BY <1>1, <1>2, <2>1 DEF ShutdownDone, Quiet
  <2>2. CASE Main /\ ~ShutdownDone
    BY <1>1, <1>2, <2>2
    DEF LifeIInv, Quiet, Main, OpenStorage, LoadStorage, Run, TakeErr, TakeDone,
        ShutdownTimesOut, Close, Closed, Exit
  <2>3. CASE Listener
    BY <1>1, <1>2, <2>3
    DEF LifeIInv, Quiet, Listener, Listen, ListenFails, ListenerClosed
  <2>. QED
    BY <2>1, <2>2, <2>3
<1>5. HeldInTime'
  <2>1. Held' <=> Held
    BY <1>1 DEF Held
  <2>2. CASE Closed
    BY <2>1, <2>2 DEF Closed, HeldInTime
  <2>. QED
    BY <2>1, <2>2
    DEF LifeIInv, HeldInTime, Main, OpenStorage, LoadStorage, Run, TakeErr, TakeDone,
        ShutdownDone, ShutdownTimesOut, Close, Exit, Listener, Listen, ListenFails,
        ListenerClosed
<1>6. FlushCoversSignal'
  BY <1>1 DEF LifeIInv, FlushCoversSignal
<1>. QED
  BY <1>2, <1>3, <1>4, <1>5, <1>6 DEF LifeIInv

\* The signal comes once; a last flush or an ended worker has seen it before.
LEMMA SignalIInv ==
  ASSUME LifeIInv, Signal
  PROVE  LifeIInv'
<1>1. /\ Cancel /\ ~ctxDone /\ atSignal' = Len(accepted)
      /\ UNCHANGED <<main, open, listener, conns, handler, conn, runErr, request,
                     accepted, handed, buff, pc, flushCtx>>
  BY DEF Signal, Cancel, workerVars
<1>2. IInv'
  BY <1>1, CancelIInv DEF LifeIInv
<1>3. LifecycleTypeOK'
  BY <1>1, <1>2 DEF LifeIInv, LifecycleTypeOK, IInv, TypeOK
<1>4. Quiet' /\ HeldInTime'
  BY <1>1 DEF LifeIInv, Quiet, HeldInTime, Held, InFlight
<1>5. FlushCoversSignal'
  BY <1>1 DEF LifeIInv, IInv, Phases, FlushCoversSignal
<1>. QED
  BY <1>2, <1>3, <1>4, <1>5 DEF LifeIInv

\* A handler starts only over a connection, and only ends otherwise.
LEMMA HandleIInv ==
  ASSUME LifeIInv, NEW t \in Tasks, Handle(t)
  PROVE  LifeIInv'
<1>1. /\ UNCHANGED processVars /\ UNCHANGED <<handed, buff, pc, flushCtx>>
      /\ (conns /\ Call(t)) \/ Enqueue(t) \/ Refuse(t)
  BY DEF Handle, Call, Enqueue, Refuse, workerVars
<1>2. IInv'
  BY <1>1, RequestIInv DEF LifeIInv
<1>3. Len(accepted) <= Len(accepted') /\ Len(accepted) \in Nat /\ Len(accepted') \in Nat
  <2>1. accepted \in Seq(Tasks)
    BY DEF LifeIInv, IInv, TypeOK
  <2>2. accepted' = accepted \/ accepted' = Append(accepted, t)
    BY <1>1 DEF Call, Enqueue, Refuse
  <2>. QED
    BY <2>1, <2>2
<1>4. LifecycleTypeOK'
  BY <1>1, <1>2, <1>3 DEF LifeIInv, LifecycleTypeOK, IInv, processVars
<1>5. Quiet'
  <2>1. CASE conns
    BY <1>1, <2>1 DEF LifeIInv, Quiet, processVars
  <2>2. CASE ~conns
    <3>1. InFlight' \subseteq InFlight
      BY <1>1, <2>2 DEF InFlight, Enqueue, Refuse, LifeIInv, IInv, TypeOK
    <3>. QED
      BY <1>1, <3>1 DEF LifeIInv, Quiet, processVars
  <2>. QED
    BY <2>1, <2>2
<1>6. HeldInTime' /\ FlushCoversSignal'
  BY <1>1 DEF LifeIInv, HeldInTime, Held, FlushCoversSignal, processVars
<1>. QED
  BY <1>2, <1>4, <1>5, <1>6 DEF LifeIInv

-----------------------------------------------------------------------------
\* The other handlers leave the worker alone, and query only an open pool.
LEMMA ServeIInv ==
  ASSUME LifeIInv, Serve
  PROVE  LifeIInv'
<1>1. /\ UNCHANGED vars /\ UNCHANGED <<main, open, listener, conns, conn, runErr, atSignal>>
      /\ UNCHANGED <<accepted, handed, buff, pc, flushCtx>>
      /\ Started /\ (ServeStarts \/ QueryStarts \/ QueryEnds \/ ServeEnds)
  BY DEF Serve, vars, workerVars
<1>2. IInv' /\ InFlight' = InFlight
  BY <1>1, WorkerStands DEF LifeIInv
<1>3. handler' \in {"none", "running", "query"}
  BY <1>1 DEF ServeStarts, QueryStarts, QueryEnds, ServeEnds
<1>4. LifecycleTypeOK'
  BY <1>1, <1>2, <1>3 DEF LifeIInv, LifecycleTypeOK, IInv
<1>5. Quiet'
  BY <1>1, <1>2 DEF LifeIInv, Quiet, ServeStarts, QueryStarts, QueryEnds, ServeEnds
<1>6. HeldInTime'
  BY <1>1
  DEF LifeIInv, HeldInTime, Held, PoolOpen, ServeStarts, QueryStarts, QueryEnds, ServeEnds
<1>7. FlushCoversSignal'
  BY <1>1 DEF LifeIInv, FlushCoversSignal
<1>. QED
  BY <1>2, <1>4, <1>5, <1>6, <1>7 DEF LifeIInv

\* The worker's statement finds the pool open.
LEMMA AcquireIInv ==
  ASSUME LifeIInv, NEW uid \in Users, Acquire(uid)
  PROVE  LifeIInv'
<1>1. /\ UNCHANGED vars
      /\ UNCHANGED <<main, open, listener, conns, handler, runErr, atSignal>>
      /\ UNCHANGED <<accepted, handed, buff, pc, flushCtx>>
      /\ PoolOpen /\ conn' = uid
  BY DEF Acquire, vars, workerVars
<1>2. IInv' /\ InFlight' = InFlight
  BY <1>1, WorkerStands DEF LifeIInv
<1>3. LifecycleTypeOK'
  BY <1>1, <1>2 DEF LifeIInv, LifecycleTypeOK, IInv
<1>4. Quiet' /\ HeldInTime' /\ FlushCoversSignal'
  BY <1>1, <1>2 DEF LifeIInv, Quiet, HeldInTime, PoolOpen, FlushCoversSignal
<1>. QED
  BY <1>2, <1>3, <1>4 DEF LifeIInv

\* It gives its connection back with its answer.
LEMMA StatementEndsIInv ==
  ASSUME LifeIInv, NEW uid \in Users, StatementEnds(uid)
  PROVE  LifeIInv'
<1>1. /\ FlushGroup(uid) /\ conn' = NoOwner
      /\ UNCHANGED <<main, open, listener, conns, handler, runErr, atSignal>>
      /\ UNCHANGED <<request, accepted, handed, buff, pc, flushCtx>>
  BY DEF StatementEnds, FlushGroup
<1>2. IInv'
  BY <1>1, FlushGroupIInv DEF LifeIInv
<1>3. LifecycleTypeOK'
  BY <1>1, <1>2 DEF LifeIInv, LifecycleTypeOK, IInv
<1>4. Quiet' /\ FlushCoversSignal'
  BY <1>1 DEF LifeIInv, Quiet, InFlight, FlushCoversSignal
<1>5. HeldInTime'
  BY <1>1 DEF LifeIInv, HeldInTime, Held
<1>. QED
  BY <1>2, <1>3, <1>4, <1>5 DEF LifeIInv

\* A group that the storage refuses: an error, and with a closed file perhaps
\* marks in a cache that goes with the process.
LEMMA FlushFailsIInv ==
  ASSUME IInv, NEW uid \in Users, FlushFails(uid)
  PROVE  IInv'
<1>. DEFINE places == IF CtxErr \/ Backend = "postgres" THEN {} ELSE Reached(uid)
<1>1. places \in SUBSET Places(uid)
  BY DEF Reached
<1>2. Backend = "postgres" => places = {}
  OBVIOUS
<1>3. /\ pc = "flush" /\ group' = group \ {uid}
      /\ SoftDeleteURLs(uid, places, "error")
      /\ UNCHANGED <<sizes, ctxDone, request, deleteQueue, accepted, buff,
                     timer, pc, flushCtx, handed>>
  BY DEF FlushFails
<1>. HIDE DEF places
<1>. QED
  BY <1>1, <1>2, <1>3, SoftDeleteIInv

\* The worker's step, and with it what becomes of the tasks of its flush.
LEMMA WorkIInv ==
  ASSUME LifeIInv, Work
  PROVE  LifeIInv'
<1>1. IInv /\ UNCHANGED processVars
  BY DEF LifeIInv, Work
<1>2. IInv'
  BY <1>1, ReceiveIInv, TimeIInv, DrainIInv, FlushEndIInv, FlushGroupIInv,
     FlushFailsIInv DEF Work
<1>3. UNCHANGED <<request, accepted>>
  BY DEF Work, Receive, ReceiveTimer, StartShutdown, Drain, FlushEnd, TimerFires,
         Expire, FlushFails, FlushGroup
<1>4. LifecycleTypeOK'
  BY <1>1, <1>2, <1>3 DEF LifeIInv, LifecycleTypeOK, IInv, processVars
<1>5. Quiet' /\ HeldInTime'
  BY <1>1, <1>3 DEF LifeIInv, Quiet, HeldInTime, Held, InFlight, processVars
<1>6. FlushCoversSignal'
  <2>1. /\ handed \in Seq(Tasks) /\ buff \in Seq(Tasks) /\ deleteQueue \in Seq(Tasks)
        /\ handed \o buff \o deleteQueue = accepted
        /\ atSignal \in 0 .. Len(accepted) /\ atSignal' = atSignal
    BY <1>1
    DEF LifeIInv, IInv, TypeOK, TasksInOrderOnce, LifecycleTypeOK, processVars
  <2>2. CASE Receive \/ ReceiveTimer \/ StartShutdown \/ TimerFires
    <3>1. CASE pc = "select"
      BY <2>2, <3>1
      DEF Receive, ReceiveTimer, StartShutdown, TimerFires, StartFlush, LifeIInv,
          IInv, Phases, FlushCoversSignal
    <3>2. CASE TimerFires /\ pc # "select"
      BY <3>2 DEF TimerFires, LifeIInv, IInv, Phases
    <3>. QED
      BY <2>2, <3>1, <3>2 DEF Receive, ReceiveTimer, StartShutdown
  <2>3. CASE Drain
    <3>1. CASE Take /\ UNCHANGED <<pc, flushCtx>>
      BY <2>3, <3>1 DEF Drain, FlushCoversSignal
    <3>2. CASE deleteQueue = <<>> /\ StartFlush(buff, "shutdown") /\ buff' = buff
      <4>1. Len(handed) + Len(buff) = Len(accepted)
        BY <2>1, <3>2
      <4>. QED
        BY <2>1, <2>3, <3>2, <4>1 DEF Drain, StartFlush, FlushCoversSignal
    <3>. QED
      BY <2>3, <3>1, <3>2 DEF Drain
  <2>4. CASE FlushEnd
    <3>1. Len(handed') = Len(handed) + Len(buff) /\ pc = "flush"
      BY <2>1, <2>4 DEF FlushEnd
    <3>2. pc' = "done" => flushCtx # "run"
      BY <2>4 DEF FlushEnd, AfterFlush
    <3>3. pc' # "flush"
      BY <2>4 DEF FlushEnd, AfterFlush
    <3>. QED
      BY <2>1, <3>1, <3>2, <3>3 DEF LifeIInv, FlushCoversSignal
  <2>5. CASE Expire \/ \E uid \in Users : FlushFails(uid) \/ FlushGroup(uid)
    <3>1. /\ UNCHANGED <<handed, buff, pc>> /\ pc = "flush"
          /\ flushCtx' # "run" => flushCtx # "run"
      BY <2>5 DEF Expire, FlushFails, FlushGroup
    <3>. QED
      BY <2>1, <3>1 DEF LifeIInv, FlushCoversSignal
  <2>. QED
    BY <2>2, <2>3, <2>4, <2>5 DEF Work
<1>. QED
  BY <1>2, <1>4, <1>5, <1>6 DEF LifeIInv

\* Every step of the process, its requests and its worker keeps the invariant.
LEMMA LifeNextIInv == LifeIInv /\ [LifeNext]_lifeVars => LifeIInv'
<1>. SUFFICES ASSUME LifeIInv, [LifeNext]_lifeVars PROVE LifeIInv'
  OBVIOUS
<1>1. CASE LifeNext
  BY <1>1, MainIInv, SignalIInv, ServeIInv, HandleIInv, WorkIInv, AcquireIInv,
     StatementEndsIInv DEF LifeNext
<1>2. CASE UNCHANGED lifeVars
  <2>1. IInv' /\ InFlight' = InFlight
    BY <1>2, WorkerStands DEF lifeVars, LifeIInv
  <2>. QED
    BY <1>2, <2>1
    DEF lifeVars, processVars, vars, workerVars, LifeIInv, LifecycleTypeOK, IInv,
        Quiet, HeldInTime, Held, FlushCoversSignal
<1>. QED
  BY <1>1, <1>2

\* It holds in every state.
LEMMA LifeSpecIInv == LifeSpec => []LifeIInv
  BY LifeInitIInv, LifeNextIInv, PTL DEF LifeSpec

-----------------------------------------------------------------------------
\* Types: of the process and of the worker in it.
THEOREM LifeTypeCorrect == LifeSpec => []LifecycleTypeOK
  BY LifeSpecIInv, PTL DEF LifeIInv

(***************************************************************************)
(* Without an error of Run the storage closes after the last handler, and  *)
(* with or without one no statement is left when the pool has closed.      *)
(***************************************************************************)
THEOREM StorageIsClosedLast == LifeSpec => []StorageClosesLast
<1>1. LifeIInv => StorageClosesLast
  BY DEF LifeIInv, Quiet, HeldInTime, StorageClosesLast
<1>. QED
  BY <1>1, LifeSpecIInv, PTL

(***************************************************************************)
(* A worker that has ended has handed over every task that was accepted    *)
(* before the signal.                                                      *)
(***************************************************************************)
THEOREM SignalledAreFlushed == LifeSpec => []SignalledTasksAreFlushed
<1>1. LifeIInv => SignalledTasksAreFlushed
  BY DEF LifeIInv, FlushCoversSignal, SignalledTasksAreFlushed
<1>. QED
  BY <1>1, LifeSpecIInv, PTL

(***************************************************************************)
(* The process does not take from the worker what holds of it alone, even  *)
(* where it closes the storage under a flush: no task is lost or           *)
(* reordered, success is real, and nothing is deleted without a request.   *)
(***************************************************************************)
THEOREM ProcessLosesNoTask == LifeSpec => []TasksInOrderOnce
  BY LifeSpecIInv, PTL DEF LifeIInv, IInv

\* A SoftDeleteURLs on a closed storage never reports success.
THEOREM ProcessSuccessIsReal == LifeSpec => []OkMeansDeleted
  BY LifeSpecIInv, PTL DEF LifeIInv, IInv

\* Nor does it mark a row that nobody asked for.
THEOREM ProcessOnlyRequested == LifeSpec => []DeletedOnRequest
  BY LifeSpecIInv, PTL DEF LifeIInv, IInv

-----------------------------------------------------------------------------
\* A flush that the storage refuses still answers every task of its turn.
LEMMA LifeNextAnswers ==
  LifeIInv /\ AnswerInv /\ [LifeNext]_lifeVars =>
    AnswerInv' /\ \A t \in Tasks : OneAnswer(t)
<1>. SUFFICES ASSUME LifeIInv, AnswerInv, [LifeNext]_lifeVars
              PROVE  AnswerInv' /\ \A t \in Tasks : OneAnswer(t)
  OBVIOUS
<1>1. IInv /\ TypeOK
  BY DEF LifeIInv, IInv
<1>2. CASE \/ Main \/ Listener \/ Serve \/ UNCHANGED lifeVars
           \/ \E uid \in Users : Acquire(uid)
  <2>1. UNCHANGED vars
    BY <1>2
    DEF lifeVars, Main, OpenStorage, LoadStorage, Run, TakeErr, TakeDone,
        ShutdownDone, ShutdownTimesOut, Close, Closed, Exit, Listener, Listen,
        ListenFails, ListenerClosed, Serve, Acquire
  <2>. QED
    BY <1>1, <2>1, NextAnswers
<1>3. ASSUME NEW uid \in Users, FlushFails(uid)
      PROVE  AnswerInv' /\ \A t \in Tasks : OneAnswer(t)
  <2>1. PICK places : SoftDeleteURLs(uid, places, "error")
    BY <1>3 DEF FlushFails
  <2>2. /\ pc = "flush" /\ uid \in group /\ group' = group \ {uid}
        /\ UNCHANGED <<request, deleteQueue, buff, pc, handed>>
    BY <1>3 DEF FlushFails
  <2>. QED
    BY <1>1, <2>1, <2>2, GroupAnswers
<1>4. CASE Next
  BY <1>1, <1>4, NextAnswers
<1>5. CASE \/ Signal \/ \E t \in Tasks : Handle(t)
           \/ \E uid \in Users : StatementEnds(uid)
  <2>1. Next
    BY <1>5 DEF Signal, Handle, StatementEnds, Next, Worker
  <2>. QED
    BY <1>4, <2>1
<1>6. CASE Work
  <2>1. Next \/ \E uid \in Users : FlushFails(uid)
    BY <1>6 DEF Work, Next, Worker
  <2>. QED
    BY <1>3, <1>4, <2>1
<1>. QED
  BY <1>2, <1>5, <1>6 DEF LifeNext

(***************************************************************************)
(* In the process too a task of an ended flush has been handed over, even  *)
(* to a storage that is closed, and one that waits has not.                *)
(***************************************************************************)
THEOREM ProcessFlushesAnswer == LifeSpec => []PlacesTellAnswers
<1>1. LifeInit => AnswerInv
  BY InitAnswers DEF LifeInit
<1>2. AnswerInv => PlacesTellAnswers
  BY DEF AnswerInv
<1>. QED
  BY <1>1, <1>2, LifeNextAnswers, LifeSpecIInv, PTL DEF LifeSpec

\* And no step of the process changes how the call of a task ended.
THEOREM ProcessAnswersOnce == LifeSpec => [][\A t \in Tasks : OneAnswer(t)]_lifeVars
<1>1. LifeInit => AnswerInv
  BY InitAnswers DEF LifeInit
<1>2. LifeIInv /\ AnswerInv /\ [LifeNext]_lifeVars =>
        [\A t \in Tasks : OneAnswer(t)]_lifeVars
  BY LifeNextAnswers
<1>. QED
  BY <1>1, <1>2, LifeNextAnswers, LifeSpecIInv, PTL DEF LifeSpec
=============================================================================
