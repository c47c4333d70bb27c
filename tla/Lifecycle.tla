------------------------------ MODULE Lifecycle ------------------------------
(***************************************************************************)
(* The process around the delete worker: main and app.New open the         *)
(* storage, App.Run starts the worker, HTTPServer.Run listens until a      *)
(* signal or an error, shuts the server down, and the deferred function of *)
(* App.Run closes the storage while the worker may still be running.       *)
(*                                                                         *)
(* The requests are the DELETE requests of DeleteWorker and one handler    *)
(* that stands for all others.  What net/http and pgxpool do is modelled   *)
(* from their use here: after Shutdown or Close ListenAndServe returns,    *)
(* Shutdown waits for the handlers that run, and Close of the pool waits   *)
(* for every connection that the worker or a handler holds.                *)
(***************************************************************************)
EXTENDS DeleteWorker

CONSTANTS
  DBDsn,     (* whether the configuration has a data source name *)
  FilePath   (* whether it has the path of a file                *)

StorageType == IF DBDsn THEN "postgres" ELSE IF FilePath THEN "file" ELSE "memory"

ASSUME ConfigAssumption ==
  DBDsn \in BOOLEAN /\ FilePath \in BOOLEAN /\ Backend = StorageType

VARIABLES
  main,      (* where the main goroutine is                               *)
  open,      (* the storage that is open: the pool, the file, or nothing  *)
  listener,  (* the goroutine of ListenAndServe                           *)
  conns,     (* whether the server has connections that carry requests    *)
  handler,   (* another handler: "none", "running", or in a "query"       *)
  conn,      (* the user whose delete statement holds a connection        *)
  runErr,    (* what HTTPServer.Run returned                              *)
  atSignal   (* auxiliary: how many tasks were accepted before the signal *)

processVars == <<main, open, listener, conns, handler, conn, runErr, atSignal>>
lifeVars == <<vars, processVars>>

Storage ==
  CASE StorageType = "postgres" -> {"pool"}
    [] StorageType = "file" -> {"file"}
    [] StorageType = "memory" -> {}

LifeInit ==
  /\ Init
  /\ main = "new"
  /\ open = {}
  /\ listener = "none"
  /\ conns = FALSE
  /\ handler = "none"
  /\ conn = NoOwner
  /\ runErr = "nil"
  /\ atSignal = 0

-----------------------------------------------------------------------------
(***************************************************************************)
(* app.New.  A pool that is closed again, or a file, when the migrations   *)
(* or the restoring of the cache fail; the process then ends.              *)
(***************************************************************************)
OpenStorage ==
  /\ main = "new"
  /\ \/ main' = "opened" /\ open' = Storage
     \/ Storage # {} /\ main' = "exited" /\ UNCHANGED open
  /\ UNCHANGED <<vars, listener, conns, runErr, atSignal>>

LoadStorage ==
  /\ main = "opened"
  /\ \/ main' = "ready" /\ UNCHANGED open
     \/ Storage # {} /\ main' = "exited" /\ open' = {}
  /\ UNCHANGED <<vars, listener, conns, runErr, atSignal>>

\* StartDeleteWorker, and the goroutine that listens.
Run ==
  /\ main = "ready"
  /\ main' = "select"
  /\ listener' = "starting"
  /\ UNCHANGED <<vars, open, conns, runErr, atSignal>>

-----------------------------------------------------------------------------
(***************************************************************************)
(* ListenAndServe.  It fails on an address it cannot have, or later on a   *)
(* listener that breaks; the error stays in the buffer of chErr.           *)
(***************************************************************************)
Listen ==
  /\ listener = "starting"
  /\ main = "select"
  /\ listener' = "serving"
  /\ conns' = TRUE
  /\ UNCHANGED <<vars, main, open, runErr, atSignal>>

ListenFails ==
  /\ main # "exited"
  /\ listener = "starting" \/ (listener = "serving" /\ main = "select")
  /\ listener' = "failed"
  /\ UNCHANGED <<vars, main, open, conns, runErr, atSignal>>

\* http.ErrServerClosed
ListenerClosed ==
  /\ main \notin {"select", "exited"}
  /\ listener \in {"starting", "serving"}
  /\ listener' = "done"
  /\ UNCHANGED <<vars, main, open, conns, runErr, atSignal>>

-----------------------------------------------------------------------------
(***************************************************************************)
(* The select of HTTPServer.Run: when both cases are ready, either.        *)
(***************************************************************************)
TakeErr ==
  /\ main = "select"
  /\ listener = "failed"
  /\ main' = "returned"
  /\ runErr' = "listen"
  /\ UNCHANGED <<vars, open, listener, conns, atSignal>>

TakeDone ==
  /\ main = "select"
  /\ ctxDone
  /\ main' = "shutdown"
  /\ UNCHANGED <<vars, open, listener, conns, runErr, atSignal>>

\* A handler that has the answer of DeleteURLs only writes it.
InFlight == {t \in Tasks : request[t] = "called"}

ShutdownDone ==
  /\ main = "shutdown"
  /\ InFlight = {} /\ handler = "none"
  /\ listener # "serving"
  /\ main' = "returned"
  /\ conns' = FALSE
  /\ UNCHANGED <<vars, open, listener, runErr, atSignal>>

ShutdownTimesOutSilently ==
  /\ main = "shutdown"
  /\ main' = "returned"
  /\ conns' = FALSE
  /\ UNCHANGED <<vars, open, listener, runErr, atSignal>>

\* Fifteen seconds are over: sv.Close ends the connections, and the handlers
\* go on.
ShutdownTimesOut ==
  /\ main = "shutdown"
  /\ main' = "returned"
  /\ conns' = FALSE
  /\ runErr' = "shutdown"
  /\ UNCHANGED <<vars, open, listener, atSignal>>

\* The deferred function of App.Run.  It waits for no goroutine but those that
\* hold a connection of the pool.
Close ==
  /\ main = "returned"
  /\ main' = "closing"
  /\ UNCHANGED <<vars, open, listener, conns, runErr, atSignal>>

Held == conn # NoOwner \/ handler = "query"

\* Faulty variant: nobody is waited for.
ClosedAtOnce ==
  /\ main = "closing"
  /\ main' = "closed"
  /\ open' = {}
  /\ UNCHANGED <<vars, listener, conns, runErr, atSignal>>

Closed ==
  /\ main = "closing"
  /\ ~Held
  /\ main' = "closed"
  /\ open' = {}
  /\ UNCHANGED <<vars, listener, conns, runErr, atSignal>>

Exit ==
  /\ main = "closed"
  /\ main' = "exited"
  /\ UNCHANGED <<vars, open, listener, conns, runErr, atSignal>>

Main ==
  /\ \/ OpenStorage \/ LoadStorage \/ Run
     \/ TakeErr \/ TakeDone \/ ShutdownDone \/ ShutdownTimesOut
     \/ Close \/ Closed \/ Exit
  /\ UNCHANGED <<handler, conn>>

Listener == (Listen \/ ListenFails \/ ListenerClosed) /\ UNCHANGED <<handler, conn>>

-----------------------------------------------------------------------------
(***************************************************************************)
(* The goroutines of DeleteWorker, as long as the process lives.           *)
(***************************************************************************)
Started == main \in {"select", "shutdown", "returned", "closing", "closed"}

Signal ==
  /\ main # "exited"
  /\ Cancel
  /\ atSignal' = Len(accepted)
  /\ UNCHANGED <<main, open, listener, conns, handler, conn, runErr>>

Handle(t) ==
  /\ Started
  /\ (conns /\ Call(t)) \/ Enqueue(t) \/ Refuse(t)
  /\ UNCHANGED processVars

PoolOpen == Storage = {"pool"} /\ main \in {"select", "shutdown", "returned"}

(***************************************************************************)
(* The handler that stands for all others.  Its context ends with its      *)
(* connection, and no statement begins with a context that has ended.      *)
(***************************************************************************)
ServeStarts == conns /\ handler = "none" /\ handler' = "running"
QueryStarts == conns /\ PoolOpen /\ handler = "running" /\ handler' = "query"
QueryEnds == handler = "query" /\ handler' = "running"
ServeEnds == handler = "running" /\ handler' = "none"

Serve ==
  /\ Started
  /\ ServeStarts \/ QueryStarts \/ QueryEnds \/ ServeEnds
  /\ UNCHANGED <<vars, main, open, listener, conns, conn, runErr, atSignal>>

\* SoftDeleteURLs of PostgreSQL takes a connection for its statement.
Acquire(uid) ==
  /\ PoolOpen
  /\ pc = "flush" /\ uid \in group /\ ~CtxErr
  /\ conn = NoOwner
  /\ conn' = uid
  /\ UNCHANGED <<vars, main, open, listener, conns, handler, runErr, atSignal>>

StatementEnds(uid) ==
  /\ Started
  /\ conn = uid
  /\ conn' = NoOwner
  /\ FlushGroup(uid)
  /\ UNCHANGED <<main, open, listener, conns, handler, runErr, atSignal>>

\* The pool gives no connection, or the cache is changed before the closed
\* file refuses the write.
FlushFails(uid) ==
  /\ pc = "flush" /\ uid \in group
  /\ group' = group \ {uid}
  /\ SoftDeleteURLs(uid, IF CtxErr \/ Backend = "postgres" THEN {} ELSE Reached(uid),
                    "error")
  /\ UNCHANGED <<sizes, ctxDone, request, deleteQueue, accepted, buff, timer,
                 pc, flushCtx, handed>>

StorageClosed == Storage # {} /\ main = "closed"

Work ==
  /\ Started
  /\ \/ Receive \/ ReceiveTimer \/ StartShutdown \/ Drain \/ FlushEnd
     \/ TimerFires \/ Expire
     \/ \E uid \in Users :
          \/ Storage # {"pool"} /\ ~StorageClosed /\ FlushGroup(uid)
          \/ Storage # {"pool"} /\ StorageClosed /\ FlushFails(uid)
          \/ Storage = {"pool"} /\ conn = NoOwner /\ (CtxErr \/ ~PoolOpen) /\ FlushFails(uid)
  /\ UNCHANGED processVars

LifeNext ==
  \/ Main \/ Listener \/ Signal
  \/ Serve \/ \E t \in Tasks : Handle(t)
  \/ Work \/ \E uid \in Users : Acquire(uid) \/ StatementEnds(uid)

LifeSpec == LifeInit /\ [][LifeNext]_lifeVars

(***************************************************************************)
(* The runtime runs the main goroutine whenever it can go on, the timers   *)
(* of the two shutdowns fire, and a statement whose context has ended      *)
(* gives its connection back.  One whose context lives may hang, and no    *)
(* other goroutine need ever run.                                          *)
(***************************************************************************)
LifeFairSpec ==
  /\ LifeSpec
  /\ WF_lifeVars(Main)
  /\ WF_lifeVars(Work /\ Expire)
  /\ WF_lifeVars(CtxErr /\ \E uid \in Users : StatementEnds(uid))
  /\ WF_lifeVars(~conns /\ Serve /\ QueryEnds)

-----------------------------------------------------------------------------
LifecycleTypeOK ==
  /\ TypeOK
  /\ main \in {"new", "opened", "ready", "select", "shutdown", "returned",
               "closing", "closed", "exited"}
  /\ open \in {{}, Storage}
  /\ listener \in {"none", "starting", "serving", "failed", "done"}
  /\ conns \in BOOLEAN
  /\ handler \in {"none", "running", "query"}
  /\ conn \in Users \cup {NoOwner}
  /\ runErr \in {"nil", "listen", "shutdown"}
  /\ atSignal \in 0 .. Len(accepted)

(***************************************************************************)
(* The storage closes after the last handler, unless Run reports an error  *)
(* (a shutdown that ran out of time, or a listener that broke), and even   *)
(* then no statement of a handler or of the worker loses its connection.   *)
(***************************************************************************)
StorageClosesLast ==
  /\ main \in {"closing", "closed", "exited"} /\ runErr = "nil" =>
       InFlight = {} /\ handler = "none"
  /\ main \in {"closed", "exited"} => ~Held

(***************************************************************************)
(* A worker that has ended leaves none of the tasks that were accepted     *)
(* before the signal: only later ones may be answered 202 and lost.        *)
(***************************************************************************)
SignalledTasksAreFlushed == pc = "done" => Len(handed) >= atSignal

(***************************************************************************)
(* The process ends after a signal, and after the listener failed, even    *)
(* when handlers hang on the full channel of a worker that is gone.  Only  *)
(* after the listener failed, when no context ends with the server, can a  *)
(* statement that hangs keep the pool from closing.                        *)
(***************************************************************************)
Hangs == main = "closing" /\ runErr = "listen" /\ Held

=============================================================================
