----------------------------- MODULE MemorySink -----------------------------
(***************************************************************************)
(* The bounded queue that takes memory writes off the response path        *)
(* (BoundedSink, src/internal/gates/memory/writer.go) and the shutdown     *)
(* that closes it: the HTTP server drains for at most five seconds, then   *)
(* the gates close, then the store (src/internal/app/app.go, Run and       *)
(* Close).  Each handler serves one request and, in PostResponse, submits  *)
(* the turn to be remembered.                                              *)
(***************************************************************************)
EXTENDS Integers, Sequences, FiniteSets

CONSTANTS
    Handlers,       \* requests, each with a goroutine of its own
    Capacity,       \* of the channel
    MayAbandon      \* whether Run may return before the handlers have

ASSUME CapacityAssumption == Capacity \in Nat \ {0}
ASSUME AbandonAssumption == MayAbandon \in BOOLEAN

VARIABLES
    app,            \* how far the shutdown has come
    abandoned,      \* how Run left handlers behind, if it did
    at,             \* where each handler is
    turn,           \* what has become of the turn each handler submitted
    closed,         \* BoundedSink.closed
    tasksClosed,    \* whether the channel has been closed
    tasks,          \* the channel's buffer
    worker          \* the goroutine that drains it

sink == <<closed, tasksClosed, tasks, worker>>
vars == <<app, abandoned, at, turn, sink>>

Pending == {"queued", "running"}
Ended   == {"stored", "failed"}

TypeOK ==
    /\ app \in {"serving", "draining", "gates", "closing", "waiting",
                "store", "exited"}
    /\ abandoned \in {"no", "timeout", "listener"}
    /\ at \in [Handlers -> {"idle", "serving", "sending", "done"}]
    /\ turn \in [Handlers ->
                   Pending \cup Ended \cup {"none", "dropped", "refused", "panicked"}]
    /\ closed \in BOOLEAN /\ tasksClosed \in BOOLEAN
    /\ tasks \in Seq(Handlers) /\ Len(tasks) <= Capacity
    /\ worker \in {"ranging", "running", "finished"}

Init ==
    /\ app = "serving" /\ abandoned = "no"
    /\ at = [h \in Handlers |-> "idle"]
    /\ turn = [h \in Handlers |-> "none"]
    /\ closed = FALSE /\ tasksClosed = FALSE
    /\ tasks = <<>> /\ worker = "ranging"

-----------------------------------------------------------------------------
(* The server accepts no request once it shuts down; a server whose        *)
(* listener has failed goes on with the connections it has.                *)
Arrive(h) ==
    /\ at[h] = "idle"
    /\ app = "serving" \/ abandoned = "listener"
    /\ at' = [at EXCEPT ![h] = "serving"]
    /\ UNCHANGED <<app, abandoned, turn, sink>>

(* A request without a client key or without text remembers nothing.       *)
NothingToKeep(h) ==
    /\ at[h] = "serving"
    /\ at' = [at EXCEPT ![h] = "done"]
    /\ UNCHANGED <<app, abandoned, turn, sink>>

(* Submit reads `closed` under the read lock, and lets go of the lock.     *)
CheckClosed(h) ==
    /\ at[h] = "serving"
    /\ \/ /\ closed
          /\ at' = [at EXCEPT ![h] = "done"]
          /\ turn' = [turn EXCEPT ![h] = "refused"]
       \/ /\ ~closed
          /\ at' = [at EXCEPT ![h] = "sending"]
          /\ UNCHANGED turn
    /\ UNCHANGED <<app, abandoned, sink>>

enqueue(h) ==
    /\ tasks' = Append(tasks, h)
    /\ turn' = [turn EXCEPT ![h] = "queued"]

(* Mutant: the send has no default case.                                   *)
Send_Waits(h) ==
    /\ at[h] = "sending"
    /\ \/ tasksClosed /\ turn' = [turn EXCEPT ![h] = "panicked"] /\ UNCHANGED tasks
       \/ ~tasksClosed /\ Len(tasks) < Capacity /\ enqueue(h)
    /\ at' = [at EXCEPT ![h] = "done"]
    /\ UNCHANGED <<app, abandoned, closed, tasksClosed, worker>>

(* The non-blocking send; on a closed channel it panics, and the server's  *)
(* Recoverer ends the request.                                             *)
Send(h) ==
    /\ at[h] = "sending"
    /\ \/ /\ tasksClosed
          /\ turn' = [turn EXCEPT ![h] = "panicked"]
          /\ UNCHANGED tasks
       \/ /\ ~tasksClosed /\ Len(tasks) < Capacity
          /\ enqueue(h)
       \/ /\ ~tasksClosed /\ Len(tasks) >= Capacity
          /\ turn' = [turn EXCEPT ![h] = "dropped"]
          /\ UNCHANGED tasks
    /\ at' = [at EXCEPT ![h] = "done"]
    /\ UNCHANGED <<app, abandoned, closed, tasksClosed, worker>>

-----------------------------------------------------------------------------
running == CHOOSE h \in Handlers : turn[h] = "running"

Receive ==
    /\ worker = "ranging"
    /\ tasks # <<>>
    /\ worker' = "running"
    /\ turn' = [turn EXCEPT ![Head(tasks)] = "running"]
    /\ tasks' = Tail(tasks)
    /\ UNCHANGED <<app, abandoned, at, closed, tasksClosed>>

(* The insert succeeds or not; after the store has closed it cannot.       *)
RunTask ==
    /\ worker = "running"
    /\ worker' = "ranging"
    /\ \E end \in IF app = "exited" THEN {"failed"} ELSE Ended :
         turn' = [turn EXCEPT ![running] = end]
    /\ UNCHANGED <<app, abandoned, at, closed, tasksClosed, tasks>>

(* Mutant: the worker leaves as soon as the channel is closed.             *)
FinishRange_AtOnce ==
    /\ worker = "ranging"
    /\ tasksClosed
    /\ worker' = "finished"
    /\ UNCHANGED <<app, abandoned, at, turn, closed, tasksClosed, tasks>>

(* The range loop ends when the channel is closed and its buffer empty.    *)
FinishRange ==
    /\ worker = "ranging"
    /\ tasksClosed /\ tasks = <<>>
    /\ worker' = "finished"
    /\ UNCHANGED <<app, abandoned, at, turn, closed, tasksClosed, tasks>>

-----------------------------------------------------------------------------
serving(h) == at[h] \in {"serving", "sending"}

(* Mutant: the gates are closed before the server has drained.             *)
Stop_GatesFirst ==
    /\ app = "serving"
    /\ app' = "gates"
    /\ UNCHANGED <<abandoned, at, turn, sink>>

(* The signal: the server stops accepting.                                 *)
Stop ==
    /\ app = "serving"
    /\ app' = "draining"
    /\ UNCHANGED <<abandoned, at, turn, sink>>

Drain ==
    /\ app = "draining"
    /\ \A h \in Handlers : ~serving(h)
    /\ app' = "gates"
    /\ UNCHANGED <<abandoned, at, turn, sink>>

(* Run returns with handlers at work: the five seconds are over, or the    *)
(* listener has failed.                                                    *)
Abandon ==
    /\ MayAbandon
    /\ \/ app = "draining" /\ abandoned' = "timeout"
       \/ app = "serving" /\ abandoned' = "listener"
    /\ app' = "gates"
    /\ UNCHANGED <<at, turn, sink>>

(* BoundedSink.Close, in three steps.                                      *)
SetClosed ==
    /\ app = "gates"
    /\ closed' = TRUE
    /\ app' = "closing"
    /\ UNCHANGED <<abandoned, at, turn, tasksClosed, tasks, worker>>

CloseTasks ==
    /\ app = "closing"
    /\ tasksClosed' = TRUE
    /\ app' = "waiting"
    /\ UNCHANGED <<abandoned, at, turn, closed, tasks, worker>>

(* Mutant: Close does not wait for the worker.                             *)
WaitWorker_Not ==
    /\ app = "waiting"
    /\ app' = "store"
    /\ UNCHANGED <<abandoned, at, turn, sink>>

WaitWorker ==
    /\ app = "waiting"
    /\ worker = "finished"
    /\ app' = "store"
    /\ UNCHANGED <<abandoned, at, turn, sink>>

CloseStore ==
    /\ app = "store"
    /\ app' = "exited"
    /\ UNCHANGED <<abandoned, at, turn, sink>>

-----------------------------------------------------------------------------
Handle(h) == Arrive(h) \/ NothingToKeep(h) \/ CheckClosed(h) \/ Send(h)
Work      == Receive \/ RunTask \/ FinishRange
Shutdown  == \/ Stop \/ Drain \/ Abandon
             \/ SetClosed \/ CloseTasks \/ WaitWorker \/ CloseStore

Next == (\E h \in Handlers : Handle(h)) \/ Work \/ Shutdown

Spec == Init /\ [][Next]_vars

(* A handler that has begun to submit runs on.  The worker is not fair:    *)
(* an insert may take for ever.                                            *)
FairSpec == Spec /\ \A h \in Handlers : WF_vars(Send(h))

-----------------------------------------------------------------------------
(* Close "drains what was already accepted": before the store closes,      *)
(* every accepted turn has been inserted (App.Close, app.go:1649-1664;     *)
(* BoundedSink.Close, writer.go:221-236).                                  *)
Drained ==
    app \in {"store", "exited"} => \A h \in Handlers : turn[h] \notin Pending

(* A Submit can panic: between its check of closed and its send it holds   *)
(* no lock.  It does so only in a request that Run left behind: in an      *)
(* orderly shutdown the sink closes after the last Submit (Run,            *)
(* app.go:1637-1641).                                                      *)
OrderlyShutdown ==
    (\E h \in Handlers : turn[h] = "panicked") => abandoned # "no"

(* An accepted turn is inserted (or the insert fails), whatever the        *)
(* shutdown does meanwhile, if the worker runs.                            *)
AcceptedRuns ==
    WF_vars(Work) =>
        \A h \in Handlers : turn[h] = "queued" ~> turn[h] \in Ended

(* Submit never waits for storage, not even for an insert that hangs       *)
(* (contracts/memory.go:83-86).                                            *)
NeverWaits == \A h \in Handlers : at[h] = "sending" ~> at[h] = "done"

(* Neither side waits in vain for the other.                               *)
Responsive == AcceptedRuns /\ NeverWaits

-----------------------------------------------------------------------------
(* Why Drained and OrderlyShutdown hold.                                   *)
Buffered ==
    /\ \A h \in Handlers :
         turn[h] = "queued" <=> \E i \in DOMAIN tasks : tasks[i] = h
    /\ \A i, j \in DOMAIN tasks : tasks[i] = tasks[j] => i = j

OneRunning ==
    /\ \A g, h \in Handlers : turn[g] = "running" /\ turn[h] = "running" => g = h
    /\ worker = "running" <=> \E h \in Handlers : turn[h] = "running"
    /\ \A h \in Handlers : at[h] # "done" => turn[h] = "none"

ClosedInOrder ==
    /\ closed <=> app \in {"closing", "waiting", "store", "exited"}
    /\ tasksClosed <=> app \in {"waiting", "store", "exited"}
    /\ worker = "finished" => tasksClosed /\ tasks = <<>>
    /\ app \in {"store", "exited"} => worker = "finished"

LeftBehind ==
    (\E h \in Handlers : serving(h)) /\ app \notin {"serving", "draining"}
        => abandoned # "no"

IInv ==
    /\ TypeOK /\ Buffered /\ OneRunning /\ ClosedInOrder
    /\ LeftBehind /\ OrderlyShutdown
=============================================================================
