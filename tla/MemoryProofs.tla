---------------------------- MODULE MemoryProofs ----------------------------
(***************************************************************************)
(* Proofs about MemorySink and about Memory, for any requests and any      *)
(* capacity: what the queue loses and who panics; that this holds under    *)
(* the memory gates too; and that a request is shown what its client has   *)
(* said, and nothing else.                                                 *)
(***************************************************************************)
EXTENDS Memory, TLAPS

-----------------------------------------------------------------------------
(* The queue and its shutdown.                                             *)

(* What a send and a receive do to the buffer (writer.go:171-187, 205).    *)
LEMMA BufferAppend ==
    ASSUME NEW S, NEW s \in Seq(S), NEW x \in S
    PROVE  /\ Append(s, x) \in Seq(S)
           /\ Len(Append(s, x)) = Len(s) + 1
           /\ \A i \in DOMAIN s : i \in DOMAIN Append(s, x) /\ Append(s, x)[i] = s[i]
           /\ Len(s) + 1 \in DOMAIN Append(s, x)
           /\ Append(s, x)[Len(s) + 1] = x
           /\ \A i \in DOMAIN Append(s, x) : i \in DOMAIN s \/ i = Len(s) + 1
           /\ Len(s) + 1 \notin DOMAIN s
  OBVIOUS

LEMMA BufferTail ==
    ASSUME NEW S, NEW s \in Seq(S), s # <<>>
    PROVE  /\ Tail(s) \in Seq(S)
           /\ Len(Tail(s)) = Len(s) - 1
           /\ Head(s) \in S /\ Head(s) = s[1] /\ 1 \in DOMAIN s
           /\ \A i \in DOMAIN Tail(s) :
                i + 1 \in DOMAIN s /\ i + 1 # 1 /\ Tail(s)[i] = s[i + 1]
           /\ \A i \in DOMAIN s : i = 1 \/ (i - 1 \in DOMAIN Tail(s) /\ Tail(s)[i - 1] = s[i])
           /\ DOMAIN Tail(s) \subseteq Nat /\ DOMAIN s \subseteq Nat
  OBVIOUS

(* The initial state: nothing accepted, nothing closed.                    *)
LEMMA Initially == Init => IInv
  <1> SUFFICES ASSUME Init PROVE IInv
    OBVIOUS
  <1>1. TypeOK
    <2>1. tasks \in Seq(Handlers) /\ Len(tasks) <= Capacity
      BY CapacityAssumption DEF Init
    <2>2. at \in [Handlers -> {"idle", "serving", "sending", "done"}]
      BY DEF Init
    <2>3. turn \in [Handlers -> Pending \cup Ended \cup
                                {"none", "dropped", "refused", "panicked"}]
      BY DEF Init
    <2>4. closed \in BOOLEAN /\ tasksClosed \in BOOLEAN
      BY DEF Init
    <2> QED BY <2>1, <2>2, <2>3, <2>4 DEF Init, TypeOK
  <1>2. Buffered
    BY DEF Init, Buffered
  <1>3. OneRunning
    BY DEF Init, OneRunning
  <1>4. ClosedInOrder
    BY DEF Init, ClosedInOrder
  <1>5. LeftBehind /\ OrderlyShutdown
    BY DEF Init, LeftBehind, OrderlyShutdown
  <1> QED BY <1>1, <1>2, <1>3, <1>4, <1>5 DEF IInv

(* Steps of a handler outside the channel (writer.go:193-204).             *)
LEMMA HandlerStep ==
    ASSUME IInv, NEW h \in Handlers, Arrive(h) \/ NothingToKeep(h) \/ CheckClosed(h)
    PROVE  IInv'
  <1> USE DEF IInv, TypeOK, Pending, Ended
  <1>1. TypeOK'
    BY DEF Arrive, NothingToKeep, CheckClosed, sink
  <1>2. at[h] # "done" /\ turn[h] = "none"
    BY DEF Arrive, NothingToKeep, CheckClosed, OneRunning
  <1>3. \A g \in Handlers : turn'[g] = turn[g] \/ (g = h /\ turn'[g] = "refused")
    BY DEF Arrive, NothingToKeep, CheckClosed
  <1>4. \A g \in Handlers : g # h => at'[g] = at[g]
    BY DEF Arrive, NothingToKeep, CheckClosed
  <1>5. UNCHANGED <<app, abandoned, closed, tasksClosed, tasks, worker>>
    BY DEF Arrive, NothingToKeep, CheckClosed, sink
  <1>6. Buffered'
    BY <1>2, <1>3, <1>5 DEF Buffered
  <1>7. OneRunning'
    <2>1. at'[h] # "done" => turn'[h] = "none"
      BY <1>2 DEF Arrive, NothingToKeep, CheckClosed
    <2> QED BY <1>2, <1>3, <1>4, <1>5, <2>1 DEF OneRunning
  <1>8. ClosedInOrder'
    BY <1>5 DEF ClosedInOrder
  <1>9. LeftBehind'
    <2>1. CASE Arrive(h)
      BY <1>4, <1>5, <2>1 DEF LeftBehind, serving, Arrive
    <2>2. CASE NothingToKeep(h) \/ CheckClosed(h)
      BY <1>4, <1>5, <2>2 DEF LeftBehind, serving, NothingToKeep, CheckClosed
    <2> QED BY <2>1, <2>2
  <1>10. OrderlyShutdown'
    BY <1>3, <1>5 DEF OrderlyShutdown
  <1> QED BY <1>1, <1>6, <1>7, <1>8, <1>9, <1>10

(* The non-blocking send (writer.go:205-213).                              *)
LEMMA SendStep ==
    ASSUME IInv, NEW h \in Handlers, Send(h)
    PROVE  IInv'
  <1> USE DEF IInv, TypeOK, Pending, Ended
  <1>1. at[h] = "sending" /\ turn[h] = "none" /\ at' = [at EXCEPT ![h] = "done"]
    BY DEF Send, OneRunning
  <1>2. UNCHANGED <<app, abandoned, closed, tasksClosed, worker>>
    BY DEF Send
  <1>3. \E t \in {"panicked", "queued", "dropped"} : turn' = [turn EXCEPT ![h] = t]
    BY DEF Send, enqueue
  <1>4. \/ UNCHANGED tasks /\ turn'[h] # "queued"
        \/ /\ ~tasksClosed /\ Len(tasks) < Capacity
           /\ tasks' = Append(tasks, h) /\ turn'[h] = "queued"
    BY DEF Send, enqueue
  <1>5. ~ \E i \in DOMAIN tasks : tasks[i] = h
    BY <1>1 DEF Buffered
  <1>6. TypeOK'
    BY <1>1, <1>2, <1>3, <1>4, BufferAppend, CapacityAssumption
  <1>7. Buffered'
    <2>1. CASE UNCHANGED tasks /\ turn'[h] # "queued"
      BY <1>1, <1>3, <1>5, <2>1 DEF Buffered
    <2>2. CASE tasks' = Append(tasks, h) /\ turn'[h] = "queued"
      BY <1>1, <1>3, <1>5, <2>2, BufferAppend DEF Buffered
    <2> QED BY <1>4, <2>1, <2>2
  <1>8. OneRunning'
    BY <1>1, <1>2, <1>3 DEF OneRunning
  <1>9. ClosedInOrder'
    BY <1>2, <1>4 DEF ClosedInOrder
  <1>10. LeftBehind'
    BY <1>1, <1>2 DEF LeftBehind, serving
  <1>11. OrderlyShutdown'
    <2>1. tasksClosed => abandoned # "no"
      BY <1>1 DEF LeftBehind, serving, ClosedInOrder
    <2>2. turn'[h] = "panicked" => tasksClosed
      BY <1>1 DEF Send, enqueue
    <2> QED BY <1>2, <1>3, <2>1, <2>2 DEF OrderlyShutdown
  <1> QED BY <1>6, <1>7, <1>8, <1>9, <1>10, <1>11

(* The worker's steps (writer.go:177-185).                                 *)
LEMMA WorkerStep ==
    ASSUME IInv, Work
    PROVE  IInv'
  <1> USE DEF IInv, TypeOK, Pending, Ended
  <1>1. UNCHANGED <<app, abandoned, at, closed, tasksClosed>>
    BY DEF Work, Receive, RunTask, FinishRange
  <1>2. LeftBehind'
    BY <1>1 DEF LeftBehind, serving
  <1>3. CASE Receive
    <2> DEFINE g == Head(tasks)
    <2>1. g \in Handlers /\ turn[g] = "queued" /\ tasks # <<>>
      BY <1>3, BufferTail DEF Receive, Buffered
    <2>2. turn' = [turn EXCEPT ![g] = "running"] /\ tasks' = Tail(tasks)
            /\ worker = "ranging" /\ worker' = "running"
      BY <1>3 DEF Receive
    <2> HIDE DEF g
    <2>3. TypeOK'
      BY <1>1, <2>1, <2>2, BufferTail, CapacityAssumption
    <2>4. Buffered'
      <3>1. \A i \in DOMAIN tasks : tasks[i] = g <=> i = 1
        BY <2>1, BufferTail DEF Buffered, g
      <3>2. \A x \in Handlers : x # g =>
              ((\E i \in DOMAIN tasks : tasks[i] = x)
                <=> \E i \in DOMAIN Tail(tasks) : Tail(tasks)[i] = x)
        <4> SUFFICES ASSUME NEW x \in Handlers, x # g
                     PROVE  (\E i \in DOMAIN tasks : tasks[i] = x)
                              <=> \E i \in DOMAIN Tail(tasks) : Tail(tasks)[i] = x
          OBVIOUS
        <4>1. ASSUME NEW i \in DOMAIN tasks, tasks[i] = x
              PROVE  \E j \in DOMAIN Tail(tasks) : Tail(tasks)[j] = x
          <5>1. i # 1
            BY <3>1, <4>1
          <5>2. i - 1 \in DOMAIN Tail(tasks) /\ Tail(tasks)[i - 1] = x
            BY <2>1, <4>1, <5>1, BufferTail
          <5> QED BY <5>2
        <4>2. ASSUME NEW i \in DOMAIN Tail(tasks), Tail(tasks)[i] = x
              PROVE  \E j \in DOMAIN tasks : tasks[j] = x
          <5>1. i + 1 \in DOMAIN tasks /\ tasks[i + 1] = x
            BY <2>1, <4>2, BufferTail
          <5> QED BY <5>1
        <4> QED BY <4>1, <4>2
      <3>3. ~ \E i \in DOMAIN Tail(tasks) : Tail(tasks)[i] = g
        BY <2>1, <3>1, BufferTail
      <3>4. \A i, j \in DOMAIN Tail(tasks) : Tail(tasks)[i] = Tail(tasks)[j] => i = j
        BY <2>1, BufferTail DEF Buffered
      <3> QED BY <2>1, <2>2, <3>2, <3>3, <3>4 DEF Buffered
    <2>5. OneRunning'
      BY <1>1, <2>1, <2>2 DEF OneRunning
    <2>6. ClosedInOrder'
      BY <1>1, <2>2 DEF ClosedInOrder
    <2>7. OrderlyShutdown'
      BY <1>1, <2>2 DEF OrderlyShutdown
    <2> QED BY <1>2, <2>3, <2>4, <2>5, <2>6, <2>7
  <1>4. CASE RunTask
    <2>1. running \in Handlers /\ turn[running] = "running"
      BY <1>4 DEF RunTask, running, OneRunning
    <2>2. PICK end \in Ended : turn' = [turn EXCEPT ![running] = end]
      BY <1>4 DEF RunTask
    <2>3. worker' = "ranging" /\ worker = "running" /\ UNCHANGED tasks
      BY <1>4 DEF RunTask
    <2> HIDE DEF running
    <2>4. TypeOK'
      BY <1>1, <2>1, <2>2, <2>3
    <2>5. Buffered'
      BY <2>1, <2>2, <2>3 DEF Buffered
    <2>6. OneRunning'
      <3>1. \A x \in Handlers : turn[x] = "running" => x = running
        BY <2>1 DEF OneRunning
      <3> QED BY <1>1, <2>1, <2>2, <2>3, <3>1 DEF OneRunning
    <2>7. ClosedInOrder'
      BY <1>1, <2>3 DEF ClosedInOrder
    <2>8. OrderlyShutdown'
      BY <1>1, <2>1, <2>2 DEF OrderlyShutdown
    <2> QED BY <1>2, <2>4, <2>5, <2>6, <2>7, <2>8
  <1>5. CASE FinishRange
    BY <1>1, <1>2, <1>5
    DEF FinishRange, Buffered, OneRunning, ClosedInOrder, OrderlyShutdown
  <1> QED BY <1>3, <1>4, <1>5 DEF Work

(* The steps of Run and Close (app.go:1621-1664, writer.go:225-236).       *)
LEMMA ShutdownStep ==
    ASSUME IInv, Shutdown
    PROVE  IInv'
  <1> USE DEF IInv, TypeOK
  <1>1. UNCHANGED <<at, turn, tasks, worker>>
    BY DEF Shutdown, Stop, Drain, Abandon, SetClosed, CloseTasks, WaitWorker,
           CloseStore, sink
  <1>2. abandoned # "no" => abandoned' # "no"
    BY DEF Shutdown, Stop, Drain, Abandon, SetClosed, CloseTasks, WaitWorker,
           CloseStore
  <1>3. TypeOK'
    BY <1>1 DEF Shutdown, Stop, Drain, Abandon, SetClosed, CloseTasks, WaitWorker,
           CloseStore, sink
  <1>4. Buffered'
    BY <1>1 DEF Buffered
  <1>5. OneRunning'
    BY <1>1 DEF OneRunning
  <1>6. ClosedInOrder'
    BY <1>1 DEF ClosedInOrder, Shutdown, Stop, Drain, Abandon, SetClosed,
           CloseTasks, WaitWorker, CloseStore, sink
  <1>7. LeftBehind'
    BY <1>1 DEF LeftBehind, serving, Shutdown, Stop, Drain, Abandon, SetClosed,
           CloseTasks, WaitWorker, CloseStore, sink
  <1>8. OrderlyShutdown'
    BY <1>1, <1>2 DEF OrderlyShutdown
  <1> QED BY <1>3, <1>4, <1>5, <1>6, <1>7, <1>8

(* IInv holds in every state of BoundedSink and its shutdown.              *)
THEOREM Invariance == Spec => []IInv
  <1>1. IInv /\ [Next]_vars => IInv'
    <2> SUFFICES ASSUME IInv, [Next]_vars PROVE IInv'
      OBVIOUS
    <2>1. ASSUME NEW h \in Handlers, Handle(h) PROVE IInv'
      BY <2>1, HandlerStep, SendStep DEF Handle
    <2>2. CASE Work
      BY <2>2, WorkerStep
    <2>3. CASE Shutdown
      BY <2>3, ShutdownStep
    <2>4. CASE UNCHANGED vars
      BY <2>4 DEF vars, sink, IInv, TypeOK, Buffered, OneRunning, ClosedInOrder,
                  LeftBehind, OrderlyShutdown, serving
    <2> QED BY <2>1, <2>2, <2>3, <2>4 DEF Next
  <1> QED BY Initially, <1>1, PTL DEF Spec

(* The sink's fields keep their types and its buffer its bound: a full     *)
(* queue drops (BoundedSink.Submit, writer.go:193-214).                    *)
THEOREM TypeCorrect == Spec => []TypeOK
  <1>1. IInv => TypeOK
    BY DEF IInv
  <1> QED BY Invariance, <1>1, PTL

(* Close drains: no accepted turn is left when the store closes            *)
(* (BoundedSink.Close, writer.go:221-236; App.Close, app.go:1649-1664).    *)
THEOREM CloseDrains == Spec => []Drained
  <1>1. IInv => Drained
    <2> SUFFICES ASSUME IInv, app \in {"store", "exited"}, NEW h \in Handlers
                 PROVE  turn[h] \notin Pending
      BY DEF Drained
    <2>1. worker = "finished" /\ tasks = <<>>
      BY DEF IInv, ClosedInOrder
    <2>2. turn[h] # "queued"
      BY <2>1 DEF IInv, Buffered
    <2>3. turn[h] # "running"
      BY <2>1 DEF IInv, OneRunning
    <2> QED BY <2>2, <2>3 DEF Pending
  <1> QED BY Invariance, <1>1, PTL

(* A Submit can panic only in a handler that Run has left behind           *)
(* (Run, app.go:1637-1641).                                                *)
THEOREM OrderlyNeverPanics == Spec => []OrderlyShutdown
  <1>1. IInv => OrderlyShutdown
    BY DEF IInv
  <1> QED BY Invariance, <1>1, PTL

-----------------------------------------------------------------------------
(* Every step of the gates is one of the sink, or leaves it alone.         *)
LEMMA StepOfSink == [MemoryNext]_allVars => [Next]_vars
  <1> SUFFICES ASSUME [MemoryNext]_allVars PROVE [Next]_vars
    OBVIOUS
  <1>1. ASSUME NEW h \in Handlers,
               PreRequest(h) \/ NotRemembered(h) \/ Remember(h) \/ Submit(h)
        PROVE  Next
    BY <1>1 DEF PreRequest, NotRemembered, Remember, Submit, Next, Handle
  <1>2. CASE RunInsert
    BY <1>2 DEF RunInsert, Next, Work
  <1>3. CASE Elsewhere
    BY <1>3 DEF Elsewhere, Next, Work
  <1>4. CASE Tick \/ UNCHANGED allVars
    BY <1>4 DEF Tick, allVars
  <1> QED BY <1>1, <1>2, <1>3, <1>4 DEF MemoryNext

(* The sink's behaviour is that of MemorySink, whatever is remembered      *)
(* (MemoryWriter.PostResponse, writer.go:83-133).                          *)
THEOREM SinkUnderGates == MemorySpec => Spec
  <1>1. MemoryInit => Init
    BY DEF MemoryInit
  <1> QED BY <1>1, StepOfSink, PTL DEF MemorySpec, Spec

(* So the store closes on no accepted turn, and no Submit panics in an     *)
(* orderly shutdown, with the gates around the sink (App.Close,            *)
(* app.go:1649-1664).                                                      *)
THEOREM ShutdownUnderGates == MemorySpec => [](Drained /\ OrderlyShutdown)
  BY SinkUnderGates, CloseDrains, OrderlyNeverPanics, PTL

LEMMA SinkInvariant == MemorySpec => []IInv
  BY SinkUnderGates, Invariance, PTL

-----------------------------------------------------------------------------
(* A step that stores nothing and records nothing.                         *)
Uneventful ==
    /\ UNCHANGED <<ask, record, memories>> /\ DOMAIN recalled' = DOMAIN recalled
    /\ \A h \in Handlers :
         /\ turn'[h] = "stored" <=> turn[h] = "stored"
         /\ at'[h] = "sending" \/ turn'[h] # "none" => at[h] = "sending" \/ turn[h] # "none"

LEMMA UneventfulStep ==
  ASSUME Remembers, Uneventful
  PROVE  Remembers'
  <1>1. RecordsKept'
    BY DEF Remembers, Uneventful, RecordsKept, Recorded
  <1>2. RowsTold' /\ RowsThere' /\ RowsOnce'
    BY DEF Remembers, Uneventful, RowsTold, RowsThere, RowsOnce, Stored
  <1> QED BY <1>1, <1>2 DEF Remembers

(* A handler at its record has submitted nothing yet.                      *)
LEMMA RememberStep ==
  ASSUME IInv, Remembers, NEW h \in Handlers, Remember(h)
  PROVE  Remembers'
  <1> USE DEF Remember, CheckClosed
  <1>1. /\ turn[h] = "none" /\ turn'[h] \in {"none", "refused"}
        /\ \A g \in Handlers \ {h} : turn'[g] = turn[g] /\ at'[g] = at[g]
    BY DEF IInv, TypeOK, OneRunning
  <1>2. UNCHANGED <<ask, memories>>
    OBVIOUS
  <1>3. \A g \in Handlers \ {h} : record'[g] = record[g]
    BY DEF Remembers, RecordsKept
  <1>4. record'[h] = Recorded(h)'
    <2>1. record'[h] = [namespace |-> ask[h].client, text |-> said(h),
                        content |-> RedactString(said(h)),
                        created |-> now, expires |-> now + TTL]
      BY DEF Remembers, RecordsKept
    <2> QED BY <2>1, <1>2 DEF Recorded, said, RedactString
  <1>5. RecordsKept'
    BY <1>1, <1>2, <1>3, <1>4 DEF Remembers, RecordsKept, Recorded, Answered
  <1>6. \A g \in Handlers : Stored(g)' <=> Stored(g)
    BY <1>1 DEF Stored
  <1>7. RowsTold'
    BY <1>1, <1>2, <1>3, <1>6 DEF Remembers, RowsTold, Stored
  <1>8. RowsOnce' /\ RowsThere'
    BY <1>2, <1>6 DEF Remembers, RowsOnce, RowsThere
  <1> QED BY <1>5, <1>7, <1>8 DEF Remembers

(* The worker's insert makes a row of the record, or finds one that has    *)
(* its hash.                                                               *)
LEMMA InsertStep ==
  ASSUME IInv, Remembers, RunInsert
  PROVE  Remembers'
  <1> DEFINE r == running
  <1>1. r \in Handlers /\ turn[r] = "running"
    BY DEF IInv, OneRunning, RunInsert, RunTask, running
  <1>2. /\ UNCHANGED <<ask, record, recalled, at>>
        /\ \A h \in Handlers \ {r} : turn'[h] = turn[h]
        /\ turn'[r] \in Ended
    BY <1>1 DEF RunInsert, RunTask, IInv, TypeOK, Ended
  <1>3. RecordsKept'
    BY <1>1, <1>2 DEF Remembers, RecordsKept, Recorded
  <1>4. CASE turn'[r] # "stored"
    <2>1. memories' = memories
      BY <1>4 DEF RunInsert
    <2>2. \A h \in Handlers : Stored(h)' <=> Stored(h)
      BY <1>1, <1>2, <1>4 DEF Stored
    <2> QED BY <1>2, <1>3, <2>1, <2>2 DEF Remembers, RowsTold, RowsOnce, RowsThere
  <1>5. CASE turn'[r] = "stored"
    <2>1. memories' = Insert(record[r])
      BY <1>5 DEF RunInsert
    <2>2. record[r].namespace = ask[r].client /\ record[r].text = ask[r].text
      BY <1>1 DEF Remembers, RecordsKept, Recorded
    <2>3. \A h \in Handlers : Stored(h)' <=> (Stored(h) \/ h = r)
      BY <1>2, <1>5 DEF Stored
    <2>4. memories' \subseteq memories \cup {record[r]} /\ memories \subseteq memories'
      BY <2>1 DEF Insert
    <2>5. RowsTold'
      BY <1>1, <1>2, <2>3, <2>4 DEF Remembers, RowsTold
    <2>6. RowsOnce'
      BY <2>1 DEF Remembers, RowsOnce, Insert
    <2>7. RowsThere'
      <3>1. \E m \in memories' : m.namespace = ask[r].client /\ m.text = ask[r].text
        BY <2>1, <2>2 DEF Insert
      <3> QED BY <1>2, <2>3, <2>4, <3>1 DEF Remembers, RowsThere
    <2> QED BY <1>3, <2>5, <2>6, <2>7 DEF Remembers
  <1> QED BY <1>4, <1>5

LEMMA RemembersStep ==
  ASSUME IInv, Remembers, [MemoryNext]_allVars
  PROVE  Remembers'
  <1>1. ASSUME NEW h \in Handlers, PreRequest(h) \/ NotRemembered(h) \/ Submit(h)
        PROVE  Remembers'
    <2>1. CASE PreRequest(h)
      <3>1. Uneventful
        BY <2>1 DEF PreRequest, Arrive, Uneventful, IInv, TypeOK
      <3> QED BY <3>1, UneventfulStep
    <2>2. CASE NotRemembered(h)
      <3>1. Uneventful
        BY <2>2 DEF NotRemembered, NothingToKeep, Answered, Uneventful, IInv, TypeOK
      <3> QED BY <3>1, UneventfulStep
    <2>3. CASE Submit(h)
      <3>1. turn[h] = "none"
        BY <2>3 DEF Submit, Send, IInv, OneRunning
      <3>2. Uneventful
        BY <2>3, <3>1 DEF Submit, Send, enqueue, Uneventful, memoryVars, IInv, TypeOK
      <3> QED BY <3>2, UneventfulStep
    <2> QED BY <1>1, <2>1, <2>2, <2>3
  <1>2. CASE Elsewhere
    <2>1. CASE Receive
      <3>1. Head(tasks) \in Handlers /\ turn[Head(tasks)] = "queued"
        <4>1. tasks \in Seq(Handlers) /\ tasks # <<>>
          BY <2>1 DEF IInv, TypeOK, Receive
        <4>2. 1 \in DOMAIN tasks /\ Head(tasks) = tasks[1] /\ tasks[1] \in Handlers
          BY <4>1
        <4> QED BY <4>2 DEF IInv, Buffered
      <3>2. Uneventful
        BY <1>2, <2>1, <3>1 DEF Elsewhere, Receive, Uneventful, memoryVars, IInv, TypeOK
      <3> QED BY <3>2, UneventfulStep
    <2>2. CASE FinishRange \/ Shutdown
      <3>1. Uneventful
        BY <1>2, <2>2 DEF Elsewhere, FinishRange, Shutdown, Stop, Drain, Abandon, SetClosed,
             CloseTasks, WaitWorker, CloseStore, Uneventful, memoryVars
      <3> QED BY <3>1, UneventfulStep
    <2> QED BY <1>2, <2>1, <2>2 DEF Elsewhere
  <1>3. CASE Tick \/ UNCHANGED allVars
    <2>1. Uneventful
      BY <1>3 DEF Tick, allVars, vars, memoryVars, Uneventful
    <2> QED BY <2>1, UneventfulStep
  <1> QED BY <1>1, <1>2, <1>3, RememberStep, InsertStep DEF MemoryNext

(* The records, the rows and the turns agree (Insert, memory_store.go).    *)
THEOREM RowsAndTurns == MemorySpec => []Remembers
  <1>1. MemoryInit => Remembers
    BY DEF MemoryInit, Init, Remembers, RecordsKept, RowsTold, RowsOnce, RowsThere, Stored
  <1> QED BY <1>1, SinkInvariant, RemembersStep, PTL DEF MemorySpec

-----------------------------------------------------------------------------
(* A row that matches is what a stored turn of this client said, less than *)
(* the retention ago.                                                      *)
LEMMA MatchingIsOwn ==
  ASSUME Remembers, NEW a, NEW hits \in SUBSET Matching(a)
  PROVE  OwnWords(a.client, hits)
  <1>1. ASSUME NEW m \in hits
        PROVE  \E h \in Handlers : Held(h) /\ Says(h, a.client)
                                   /\ m.content = ask[h].text \ Secrets
    <2>1. m \in memories /\ m.namespace = a.client /\ m.expires > now
      BY DEF Matching
    <2>2. PICK h \in Handlers : Stored(h) /\ m = record[h]
      BY <2>1 DEF Remembers, RowsTold
    <2>3. record[h] = Recorded(h)
      BY <2>2 DEF Remembers, RecordsKept, Stored
    <2>4. /\ m.namespace = ask[h].client /\ m.content = ask[h].text \ Secrets
          /\ m.expires = record[h].created + TTL
      BY <2>2, <2>3 DEF Recorded, RedactString
    <2> QED BY <2>1, <2>2, <2>4 DEF Held, Says
  <1>2. \A m, n \in hits : m.text = n.text => m = n
    BY DEF Matching, Remembers, RowsOnce
  <1> QED BY <1>1, <1>2 DEF OwnWords

(* Of what is still held for this client all that matches is there.        *)
LEMMA MatchingIsAll ==
  ASSUME Remembers, NEW a
  PROVE  Everything(a, Matching(a))
  <1> SUFFICES ASSUME NEW h \in Handlers, Says(h, a.client),
                      a.text \subseteq RedactString(ask[h].text), Stored(h),
                      \A g \in Handlers : Stored(g) /\ SameTurn(g, h) => Held(g)
               PROVE  \E m \in Matching(a) : m.content = RedactString(ask[h].text)
    BY DEF Everything
  <1>1. PICK m \in memories : m.namespace = ask[h].client /\ m.text = ask[h].text
    BY DEF Remembers, RowsThere
  <1>2. PICK g \in Handlers : Stored(g) /\ m = record[g]
    BY <1>1 DEF Remembers, RowsTold
  <1>3. record[g] = Recorded(g)
    BY <1>2 DEF Remembers, RecordsKept, Stored
  <1>4. /\ m.namespace = ask[g].client /\ m.text = ask[g].text
        /\ m.content = RedactString(ask[g].text) /\ m.expires = record[g].created + TTL
    BY <1>2, <1>3 DEF Recorded
  <1>5. Held(g)
    BY <1>1, <1>2, <1>4 DEF SameTurn
  <1>6. m.expires > now /\ m.content = RedactString(ask[h].text)
    BY <1>1, <1>4, <1>5 DEF Held
  <1> QED BY <1>1, <1>6 DEF Matching, Says

LEMMA ShownStep ==
  ASSUME IInv, Remembers, MemoryAssumption, [MemoryNext]_allVars, NEW h \in Handlers, Shown(h)
  PROVE  /\ OwnWords(ask[h].client, recalled'[h])
         /\ Cardinality(recalled'[h]) < RetrievalLimit => Everything(ask[h], recalled'[h])
  <1>1. PreRequest(h)
    <2> USE DEF Shown, IInv, TypeOK
    <2>1. ASSUME NEW g \in Handlers,
                 (PreRequest(g) /\ g # h) \/ NotRemembered(g) \/ Remember(g) \/ Submit(g)
          PROVE  FALSE
      BY <2>1 DEF PreRequest, Arrive, NotRemembered, NothingToKeep, Remember, CheckClosed,
           Submit, Send
    <2>2. CASE RunInsert \/ Elsewhere
      BY <2>2 DEF RunInsert, RunTask, Elsewhere, Receive, FinishRange, Shutdown, Stop, Drain,
           Abandon, SetClosed, CloseTasks, WaitWorker, CloseStore
    <2>3. CASE Tick \/ UNCHANGED allVars
      BY <2>3 DEF Tick, allVars, vars
    <2> QED BY <2>1, <2>2, <2>3 DEF MemoryNext
  <1>2. recalled'[h] \in Search(ask[h])
    BY <1>1 DEF PreRequest, Shown, Remembers, RecordsKept
  <1>3. recalled'[h] \in SUBSET Matching(ask[h])
    BY <1>2 DEF Search
  <1>4. Cardinality(recalled'[h]) < RetrievalLimit => recalled'[h] = Matching(ask[h])
    BY <1>2 DEF Search, MemoryAssumption
  <1> QED BY <1>3, <1>4, MatchingIsOwn, MatchingIsAll

(* A request is shown what its own client has said within the retention,   *)
(* once, without secrets, and all of it unless the limit cuts it short or  *)
(* the same words were said before and have expired (Retriever.PreRequest, *)
(* MemoryStore.Search).                                                    *)
THEOREM RecallIsTrue == MemorySpec => RecallsTruly
  <1>1. IInv /\ Remembers /\ [MemoryNext]_allVars
        => [\A h \in Handlers : Shown(h) =>
              /\ OwnWords(ask[h].client, recalled'[h])
              /\ Cardinality(recalled'[h]) < RetrievalLimit
                 => Everything(ask[h], recalled'[h])]_allVars
    BY ShownStep, MemoryAssumption
  <1> QED BY <1>1, SinkInvariant, RowsAndTurns, PTL DEF MemorySpec, RecallsTruly
=============================================================================
