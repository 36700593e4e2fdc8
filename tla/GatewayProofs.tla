--------------------------- MODULE GatewayProofs ---------------------------
(***************************************************************************)
(* Proofs about what the gateway drives: of an exchange (Exchange), for    *)
(* every number of gates and events, every executor family and both        *)
(* settings of the idle timeout; and of Routing, for any table of combos,  *)
(* editors, requests and depth of references. The two share nothing.       *)
(***************************************************************************)
EXTENDS Exchange, Routing, SequenceTheorems, FunctionTheorems, FiniteSetTheorems,
        WellFoundedInduction, TLAPS

Before == {"idle", "gates", "serve", "resolve", "call"}
Inside == {"top", "scan", "classify", "stop", "join"}

(* The handler is in Recv exactly while it relays; before the Dispatcher   *)
(* returns a stream nothing of the stream has happened.                    *)
Phases ==
    /\ at = "got" <=> recv # "out"
    /\ at \in {"recv", "got", "close"} => opened
    /\ at \in Before => ~opened
    /\ ~opened => /\ watch = "off" /\ terminal = None
                  /\ ~closed /\ ~idleFired /\ ~released

(* The watcher lives within one read, and only it, or the deferred Close,  *)
(* closes the body.                                                        *)
Watching ==
    /\ watch # "off" => recv \in {"scan", "classify", "stop", "join"}
    /\ watch \in {"fired", "closing"} => idleFired
    /\ watch = "closing" => closed
    /\ released => closed
    /\ closed /\ ~Over => idleFired
    /\ Over /\ opened => released

(* What Recv has in hand at each of its steps.                             *)
InHand ==
    /\ recv \in Inside => terminal = None
    /\ recv \in {"top", "scan"} => got \in {None, "comment"}
    /\ recv = "classify" =>
         got \in {"cancelled", "aborted", "unavailable", "timeout"}
    /\ recv \in {"stop", "join"} => got \in Kinds \cup Ends
    /\ recv = "ret" => got \in IF terminal = None THEN Kinds ELSE {terminal}

(* An outcome has its cause before it is recorded.                         *)
Causes ==
    \A e \in {got, terminal} :
        /\ e = "timeout"     => idleFired \/ upstream = "lost"
        /\ e = "cancelled"   => gone
        /\ e = "unavailable" => upstream = "died" \/ Overlong
        /\ e = "badFrame"    => dialect = "cloudcode"
        /\ e = "aborted"     => closed

(* The usage that was read is the usage that is counted, but for a chunk   *)
(* that Recv has in hand; a record is written when the outcome is known.   *)
Counted ==
    /\ Len(wire) <= sent
    /\ spent = IF recv \in {"stop", "join", "ret"} /\ got = "usage"
               THEN sent - Len(wire) ELSE tokens

Recorded ==
    /\ ~Over => ledger = IF at = "close" /\ terminal # None
                         THEN <<[aborted |-> terminal # "EOF", tokens |-> spent]>>
                         ELSE <<>>
    /\ AccountedOnce

(* The runs of the chain, at each step of the handler.                     *)
ChainRuns ==
    /\ at = "idle" => runs.pre = 0
    /\ at \in {"gates", "resolve", "call", "recv", "got", "close"} =>
         runs.pre = 1 /\ route # "manage"
    /\ at = "serve" => runs.pre = IF route = "manage" THEN 0 ELSE 1
    /\ at = "serve" => route \in {"manage", "models"}
    /\ at = "gates" => route \in {"chat", "models"}
    /\ ~Over => runs.post = 0
    /\ at \in Before => frames = <<>>

(* The body the chain works on is the last one that a gate published.      *)
Edits ==
    /\ at \in {"idle", "gates"} =>
         /\ body = 0
         /\ edited = IF modified /\ working # None THEN working ELSE 0
         /\ ~modified => working \in {None, 0}
    /\ at = "idle" => ~modified
    /\ at = "got" => body = edited

IInv ==
    /\ TypeOK /\ Phases /\ Watching /\ InHand /\ Causes /\ Counted /\ Recorded
    /\ ChainRuns /\ ChainOnce /\ Edits /\ EditsReachUpstream

-----------------------------------------------------------------------------
(* What the writers leave in frames and in the ledger is of its type.      *)
LEMMA WriteType ==
    ASSUME TypeOK, NEW fs \in Seq(Frames), Write(fs)
    PROVE  frames' \in Seq(Frames)
  BY ConcatProperties DEF TypeOK, Write

LEMMA AnswerType ==
    ASSUME TypeOK, NEW f \in Frames, Answer(f)
    PROVE  frames' \in Seq(Frames) /\ at' = "over"
  BY AppendProperties DEF TypeOK, Answer

LEMMA RunsType ==
    ASSUME TypeOK, ranPre \/ ranPost
    PROVE  runs' \in [pre : Nat, post : Nat]
<1>1. runs \in [pre : Nat, post : Nat]
  BY DEF TypeOK
<1>2. CASE ranPre  BY ONLY <1>1, <1>2 DEF ranPre
<1>3. CASE ranPost BY ONLY <1>1, <1>3 DEF ranPost
<1> QED BY <1>2, <1>3

LEMMA LedgerType ==
    ASSUME TypeOK, NEW clean \in BOOLEAN, finalise(clean)
    PROVE  ledger' \in Seq([aborted : BOOLEAN, tokens : Nat])
<1>1. usage(clean) \in [aborted : BOOLEAN, tokens : Nat]
  BY DEF usage, TypeOK
<1>2. <<usage(clean)>> \in Seq([aborted : BOOLEAN, tokens : Nat])
  BY <1>1
<1> QED BY <1>2 DEF finalise, TypeOK

(* The decoder's variables keep their types whatever the consumer does.    *)
LEMMA StreamTypeStep == IInv /\ [Next]_vars => StreamTypeOK'
<1> SUFFICES ASSUME IInv, [Next]_vars PROVE StreamTypeOK'
  OBVIOUS
<1> USE GatesAssumption, KindsAssumption, NoneAssumption DEF IInv, TypeOK,
  vars, request, accounting, peer, decoder, stream,
  StreamTypeOK, InHand, Inside, Phases, Ends, Errors
<1>1. CASE Arrive
  BY <1>1 DEF Arrive, Malformed, Answer, Chat, ranPre, Observed,
    PassedThrough
<1>2. CASE GateContinues \/ GateModifies \/ ChainPassed \/ Resolve
  BY <1>2 DEF GateContinues, AtGate, GateModifies, ChainPassed, Resolve
<1>3. CASE GateAnswers \/ GateRefuses \/ Serve \/ Unresolved \/ CallFails \/ Do
  <2>1. UNCHANGED stream
    BY <1>3 DEF GateAnswers, GateRefuses, Serve, Unresolved, CallFails, Do
  <2> QED BY <2>1
<1>4. CASE DoStream
  BY <1>4 DEF DoStream, Write
<1>5. CASE CallRecv
  BY <1>5 DEF CallRecv, EnterRecv
<1>6. CASE Decode /\ BeginRead
  BY <1>6 DEF Decode, BeginRead, recorded
<1>7. CASE Decode /\ TakeEvent
  BY <1>7 DEF Decode, TakeEvent
<1>8. CASE Decode /\ ReachEnd
  BY <1>8 DEF Decode, ReachEnd
<1>9. CASE Decode /\ (GiveUpScan \/ ScanFails)
  BY <1>9 DEF Decode, GiveUpScan, ScanFails
<1>10. CASE Decode /\ Classify
  BY <1>10 DEF Decode, Classify, classified
<1>11. CASE Decode /\ StopWatch
  BY <1>11 DEF Decode, StopWatch
<1>12. CASE Decode /\ Joined
  BY <1>12 DEF Decode, Joined, Return, ending, recorded
<1>13. CASE StreamEnds
  BY <1>13 DEF StreamEnds, finalise, usage, Write
<1>14. CASE ChunkArrives
  BY <1>14 DEF ChunkArrives, Relayed, seenEnd, Write
<1>15. CASE Finish
  BY <1>15 DEF Finish, Close, finalise, usage, ranPost
<1>16. CASE IdleWatch
  <2>1. CASE Fire       BY <2>1 DEF Fire
  <2>2. CASE MarkClosed BY <2>2 DEF MarkClosed
  <2>3. CASE CloseBody  BY <2>3 DEF CloseBody
  <2>4. CASE Dismissed  BY <2>4 DEF Dismissed
  <2> QED BY <1>16, <2>1, <2>2, <2>3, <2>4 DEF IdleWatch, Watcher
<1>17. CASE Upstream
  <2>1. CASE \E k \in Kinds : SendEvent(k)
    BY <2>1, AppendProperties, BoundAssumption DEF SendEvent
  <2>2. CASE \E e \in {"eof", "died", "lost"} : EndAnswer(e)
    BY <2>2 DEF EndAnswer
  <2> QED BY <1>17, <2>1, <2>2 DEF Upstream
<1>18. CASE Leave
  BY <1>18 DEF Leave
<1>19. CASE UNCHANGED vars
  BY <1>19
<1> QED BY <1>1, <1>2, <1>3, <1>4, <1>5, <1>6, <1>7, <1>8, <1>9, <1>10,
  <1>11, <1>12, <1>13, <1>14, <1>15, <1>16, <1>17, <1>18, <1>19 DEF Next,
  Handle, Decode, Recv

(* What was read and what was counted.                                     *)
LEMMA CountedStep == IInv /\ [Next]_vars => Counted'
<1> SUFFICES ASSUME IInv, [Next]_vars PROVE Counted'
  OBVIOUS
<1> USE GatesAssumption, KindsAssumption, NoneAssumption DEF IInv, TypeOK,
  StreamTypeOK, vars, request, accounting, peer, decoder, stream, Counted,
  InHand, Inside, Phases, Ends, Errors
<1>1. CASE Arrive
  BY <1>1 DEF Arrive, Malformed, Answer, Chat, ranPre, Observed,
    PassedThrough
<1>2. CASE GateContinues \/ GateModifies \/ ChainPassed \/ Resolve
  BY <1>2 DEF GateContinues, AtGate, GateModifies, ChainPassed, Resolve
<1>3. CASE GateAnswers \/ GateRefuses \/ Serve \/ Unresolved \/ CallFails \/ Do
  BY <1>3 DEF GateAnswers, Answer, AtGate, GateRefuses, Serve, ranPost,
    Unresolved, CallFails, Do
<1>4. CASE DoStream
  BY <1>4 DEF DoStream, Write
<1>5. CASE CallRecv
  BY <1>5 DEF CallRecv, EnterRecv
<1>6. CASE Decode
  BY <1>6 DEF Decode, Recv, BeginRead, recorded, TakeEvent, ReachEnd,
    GiveUpScan, ScanFails, Classify, classified, StopWatch, Joined, Return, ending
<1>7. CASE StreamEnds
  BY <1>7 DEF StreamEnds, finalise, usage, Write
<1>8. CASE ChunkArrives
  BY <1>8 DEF ChunkArrives, Relayed, seenEnd, Write
<1>9. CASE Finish
  BY <1>9 DEF Finish, Close, finalise, usage, ranPost
<1>10. CASE IdleWatch
  BY <1>10 DEF IdleWatch, Watcher, Fire, MarkClosed, CloseBody, Dismissed
<1>11. CASE Upstream
  <2>1. CASE \E k \in Kinds : SendEvent(k)
    <3>1. PICK k \in Kinds : SendEvent(k)
      BY <2>1
    <3>2. sent' = sent + 1 /\ Len(wire') = Len(wire) + 1
      BY <3>1, AppendProperties DEF SendEvent
    <3>3. UNCHANGED <<recv, got, tokens, spent>>
      BY <1>11, <3>1 DEF Upstream, SendEvent
    <3> QED BY <3>2, <3>3, LenProperties
  <2>2. CASE \E e \in {"eof", "died", "lost"} : EndAnswer(e)
    BY <1>11, <2>2 DEF Upstream, EndAnswer
  <2> QED BY <1>11, <2>1, <2>2 DEF Upstream
<1>12. CASE Leave
  BY <1>12 DEF Leave
<1>13. CASE UNCHANGED vars
  BY <1>13
<1> QED BY <1>1, <1>2, <1>3, <1>4, <1>5, <1>6, <1>7, <1>8, <1>9, <1>10,
  <1>11, <1>12, <1>13 DEF Next, Handle

(* The conjuncts of TypeOK, in the groups that a step disturbs together.   *)
Positioned ==
    /\ at \in {"idle", "gates", "serve", "resolve", "call", "recv", "got",
               "close", "over"}
    /\ route \in {None, "chat", "models", "manage"}
    /\ gate \in 1 .. PreGates + 1
    /\ working \in Bodies \cup {None}
    /\ {body, edited} \subseteq Bodies
    /\ {modified, opened, relayedEnd} \subseteq BOOLEAN

Written == frames \in Seq(Frames)

Booked ==
    /\ runs \in [pre : Nat, post : Nat]
    /\ {tokens, spent} \subseteq Nat
    /\ ledger \in Seq([aborted : BOOLEAN, tokens : Nat])

LEMMA PositionedStep == IInv /\ [Next]_vars => Positioned'
<1> SUFFICES ASSUME IInv, [Next]_vars PROVE Positioned'
  OBVIOUS
<1> USE GatesAssumption, KindsAssumption, NoneAssumption DEF IInv, TypeOK,
  StreamTypeOK, vars, request, accounting, peer, decoder, stream, Positioned,
  Frames, Bodies
<1>1. CASE Arrive
  <2>1. CASE Malformed     BY <2>1 DEF Malformed, Answer
  <2>2. CASE Chat          BY <2>2 DEF Chat
  <2>3. CASE Observed      BY <2>3 DEF Observed
  <2>4. CASE PassedThrough BY <2>4 DEF PassedThrough
  <2> QED BY <1>1, <2>1, <2>2, <2>3, <2>4 DEF Arrive
<1>2. CASE GateContinues
  BY <1>2 DEF GateContinues, AtGate
<1>3. CASE GateModifies
  <2>1. gate' \in 1 .. PreGates + 1
    BY <1>3 DEF GateModifies, AtGate
  <2>2. gate \in Bodies
    BY <1>3 DEF GateModifies, AtGate
  <2>3. working' \in Bodies \cup {None} /\ edited' \in Bodies
    BY <1>3, <2>2 DEF GateModifies
  <2> HIDE DEF Bodies
  <2> QED BY <1>3, <2>1, <2>3 DEF GateModifies
<1>4. CASE ChainPassed
  BY <1>4 DEF ChainPassed
<1>5. CASE Resolve
  BY <1>5 DEF Resolve
<1>6. CASE GateAnswers \/ GateRefuses \/ Serve \/ Unresolved \/ CallFails \/ Do
  BY <1>6 DEF GateAnswers, Answer, AtGate, GateRefuses, Serve, ranPost,
    Unresolved, CallFails, Do
<1>7. CASE DoStream
  BY <1>7 DEF DoStream, Write
<1>8. CASE CallRecv
  BY <1>8 DEF CallRecv, EnterRecv
<1>9. CASE Decode
  BY <1>9 DEF Decode, Recv, BeginRead, recorded, TakeEvent, ReachEnd,
    GiveUpScan, ScanFails, Classify, classified, StopWatch, Joined, Return, ending
<1>10. CASE StreamEnds
  BY <1>10 DEF StreamEnds, finalise, usage, Write
<1>11. CASE ChunkArrives
  BY <1>11 DEF ChunkArrives, Relayed, seenEnd, Write
<1>12. CASE Finish
  BY <1>12 DEF Finish, Close, finalise, usage, ranPost
<1>13. CASE IdleWatch
  BY <1>13 DEF IdleWatch, Watcher, Fire, MarkClosed, CloseBody, Dismissed
<1>14. CASE Upstream
  BY <1>14 DEF Upstream, SendEvent, EndAnswer
<1>15. CASE Leave
  BY <1>15 DEF Leave
<1>16. CASE UNCHANGED vars
  BY <1>16
<1> QED BY <1>1, <1>2, <1>3, <1>4, <1>5, <1>6, <1>7, <1>8, <1>9, <1>10,
  <1>11, <1>12, <1>13, <1>14, <1>15, <1>16 DEF Next, Handle

LEMMA WrittenStep == IInv /\ [Next]_vars => Written'
<1> SUFFICES ASSUME IInv, [Next]_vars PROVE Written'
  OBVIOUS
<1>0. TypeOK
  BY DEF IInv
<1>1. (\E f \in {"refusal", "failure", "synthetic", "plain"} : Answer(f)) => Written'
  BY <1>0, AnswerType DEF Written, Frames
<1>2. (\E fs \in {<<>>, <<"status">>, <<"error">>, <<"done">>, <<"chunk">>,
                  <<"sentinel">>} : Write(fs)) => Written'
  <2> SUFFICES ASSUME NEW fs \in {<<>>, <<"status">>, <<"error">>, <<"done">>,
                                  <<"chunk">>, <<"sentinel">>}, Write(fs)
               PROVE  Written'
    OBVIOUS
  <2>1. <<>> \in Seq(Frames) /\ \A f \in Frames : <<f>> \in Seq(Frames)
    OBVIOUS
  <2>2. fs = <<>> \/ \E f \in Frames : fs = <<f>>
    BY DEF Frames
  <2>3. fs \in Seq(Frames)
    BY <2>1, <2>2
  <2> QED BY <1>0, <2>3, WriteType DEF Written
<1>3. UNCHANGED frames => Written'
  BY <1>0 DEF TypeOK, Written
<1>4. CASE Arrive
  BY <1>4, <1>1, <1>3 DEF Arrive, Malformed, Chat, Observed, PassedThrough
<1>5. CASE GateContinues \/ GateModifies \/ ChainPassed \/ Resolve
  BY <1>5, <1>3 DEF GateContinues, GateModifies, ChainPassed, Resolve
<1>6. CASE GateAnswers \/ GateRefuses \/ Serve \/ Unresolved \/ CallFails \/ Do
  BY <1>6, <1>1 DEF GateAnswers, GateRefuses, Serve, Unresolved, CallFails, Do
<1>7. CASE DoStream \/ StreamEnds
  BY <1>7, <1>2 DEF DoStream, StreamEnds
<1>8. CASE ChunkArrives
  BY <1>8, <1>2, <1>3 DEF ChunkArrives, Relayed
<1>9. CASE Finish
  BY <1>9, <1>3 DEF Finish
<1>10. CASE CallRecv \/ Decode \/ IdleWatch \/ Upstream \/ Leave \/ UNCHANGED vars
  BY <1>10, <1>3 DEF CallRecv, Decode, IdleWatch, Upstream, Leave, vars
<1> QED BY <1>4, <1>5, <1>6, <1>7, <1>8, <1>9, <1>10 DEF Next, Handle

LEMMA BookedStep == IInv /\ [Next]_vars => Booked'
<1> SUFFICES ASSUME IInv, [Next]_vars PROVE Booked'
  OBVIOUS
<1> DEFINE Record == [aborted : BOOLEAN, tokens : Nat]
<1>0. TypeOK /\ Booked
  BY DEF IInv, TypeOK, Booked
<1>1. ranPre \/ ranPost => runs' \in [pre : Nat, post : Nat]
  BY <1>0, RunsType
<1>2. (\E clean \in BOOLEAN : finalise(clean)) => ledger' \in Seq(Record)
  BY <1>0, LedgerType
<1>3. sent - Len(wire) \in Nat
  BY LenProperties DEF IInv, TypeOK, StreamTypeOK, Counted
<1>4. CASE Arrive
  BY <1>4, <1>0, <1>1 DEF Arrive, Malformed, Chat, Observed, PassedThrough,
    accounting, Booked
<1>5. CASE GateContinues \/ GateModifies \/ ChainPassed \/ Resolve
  BY <1>5, <1>0 DEF GateContinues, GateModifies, ChainPassed, Resolve,
    accounting, Booked
<1>6. CASE GateAnswers \/ GateRefuses \/ Serve \/ Unresolved \/ CallFails
  BY <1>6, <1>0, <1>1 DEF GateAnswers, GateRefuses, Serve, Unresolved,
    CallFails, accounting, Booked
<1>7. CASE Do
  <2>1. PICK n \in 0 .. 1 : ledger' = <<[aborted |-> FALSE, tokens |-> n]>>
    BY <1>7 DEF Do
  <2>2. ledger' \in Seq(Record)
    BY <2>1
  <2> QED BY <1>7, <1>0, <1>1, <2>2 DEF Do, Booked
<1>8. CASE DoStream \/ CallRecv
  BY <1>8, <1>0 DEF DoStream, CallRecv, Booked
<1>9. CASE Decode
  <2>1. sent' - Len(wire') \in Nat
    BY <1>9, LenProperties, StreamTypeStep, CountedStep
      DEF Counted, StreamTypeOK
  <2>2. sent' = sent
    BY <1>9 DEF Decode, Recv, BeginRead, TakeEvent, ReachEnd,
      GiveUpScan, ScanFails, Classify, StopWatch, Joined, peer
  <2> QED BY <1>9, <1>0, <2>1, <2>2 DEF Decode, Booked
<1>10. CASE StreamEnds
  BY <1>10, <1>0, <1>2 DEF StreamEnds, Booked
<1>11. CASE ChunkArrives
  BY <1>11, <1>0, <1>3 DEF ChunkArrives, Booked
<1>12. CASE Finish
  BY <1>12, <1>0, <1>1, <1>2 DEF Finish, Booked
<1>13. CASE IdleWatch \/ Upstream \/ Leave \/ UNCHANGED vars
  BY <1>13, <1>0 DEF IdleWatch, Upstream, Leave, vars, accounting, Booked
<1> QED BY <1>4, <1>5, <1>6, <1>7, <1>8, <1>9, <1>10, <1>11, <1>12, <1>13
  DEF Next, Handle

-----------------------------------------------------------------------------
(* One lemma per part of the invariant, one step per group of actions.     *)
LEMMA PhasesStep == IInv /\ [Next]_vars => Phases'
<1> SUFFICES ASSUME IInv, [Next]_vars PROVE Phases'
  OBVIOUS
<1> USE GatesAssumption, KindsAssumption, NoneAssumption DEF IInv, TypeOK,
  StreamTypeOK, vars, request, accounting, peer, decoder, stream, Phases,
  Before
<1>1. CASE Arrive
  BY <1>1 DEF Arrive, Malformed, Answer, Chat, ranPre, Observed,
    PassedThrough
<1>2. CASE GateContinues \/ GateModifies \/ ChainPassed \/ Resolve
  BY <1>2 DEF GateContinues, AtGate, GateModifies, ChainPassed, Resolve
<1>3. CASE GateAnswers \/ GateRefuses \/ Serve \/ Unresolved \/ CallFails \/ Do
  BY <1>3 DEF GateAnswers, Answer, AtGate, GateRefuses, Serve, ranPost,
    Unresolved, CallFails, Do
<1>4. CASE DoStream
  BY <1>4 DEF DoStream, Write
<1>5. CASE CallRecv
  BY <1>5 DEF CallRecv, EnterRecv
<1>6. CASE Decode
  BY <1>6 DEF Decode, Recv, BeginRead, recorded, TakeEvent, ReachEnd,
    GiveUpScan, ScanFails, Classify, classified, StopWatch, Joined, Return, ending
<1>7. CASE StreamEnds
  BY <1>7 DEF StreamEnds, finalise, usage, Write
<1>8. CASE ChunkArrives
  BY <1>8 DEF ChunkArrives, Relayed, seenEnd, Write
<1>9. CASE Finish
  BY <1>9 DEF Finish, Close, finalise, usage, ranPost
<1>10. CASE IdleWatch
  BY <1>10 DEF IdleWatch, Watcher, Fire, MarkClosed, CloseBody, Dismissed
<1>11. CASE Upstream
  BY <1>11 DEF Upstream, SendEvent, EndAnswer
<1>12. CASE Leave
  BY <1>12 DEF Leave
<1>13. CASE UNCHANGED vars
  BY <1>13
<1> QED BY <1>1, <1>2, <1>3, <1>4, <1>5, <1>6, <1>7, <1>8, <1>9, <1>10,
  <1>11, <1>12, <1>13 DEF Next, Handle

LEMMA WatchingStep == IInv /\ [Next]_vars => Watching'
<1> SUFFICES ASSUME IInv, [Next]_vars PROVE Watching'
  OBVIOUS
<1> USE GatesAssumption, KindsAssumption, NoneAssumption DEF IInv, TypeOK,
  StreamTypeOK, vars, request, accounting, peer, decoder, stream, Watching,
  Phases, Before, Over
<1>1. CASE Arrive
  BY <1>1 DEF Arrive, Malformed, Answer, Chat, ranPre, Observed,
    PassedThrough
<1>2. CASE GateContinues \/ GateModifies \/ ChainPassed \/ Resolve
  BY <1>2 DEF GateContinues, AtGate, GateModifies, ChainPassed, Resolve
<1>3. CASE GateAnswers \/ GateRefuses \/ Serve \/ Unresolved \/ CallFails \/ Do
  BY <1>3 DEF GateAnswers, Answer, AtGate, GateRefuses, Serve, ranPost,
    Unresolved, CallFails, Do
<1>4. CASE DoStream
  BY <1>4 DEF DoStream, Write
<1>5. CASE CallRecv
  BY <1>5 DEF CallRecv, EnterRecv
<1>6. CASE Decode
  BY <1>6 DEF Decode, Recv, BeginRead, recorded, TakeEvent, ReachEnd,
    GiveUpScan, ScanFails, Classify, classified, StopWatch, Joined, Return, ending
<1>7. CASE StreamEnds
  BY <1>7 DEF StreamEnds, finalise, usage, Write
<1>8. CASE ChunkArrives
  BY <1>8 DEF ChunkArrives, Relayed, seenEnd, Write
<1>9. CASE Finish
  BY <1>9 DEF Finish, Close, finalise, usage, ranPost
<1>10. CASE IdleWatch
  BY <1>10 DEF IdleWatch, Watcher, Fire, MarkClosed, CloseBody, Dismissed
<1>11. CASE Upstream
  BY <1>11 DEF Upstream, SendEvent, EndAnswer
<1>12. CASE Leave
  BY <1>12 DEF Leave
<1>13. CASE UNCHANGED vars
  BY <1>13
<1> QED BY <1>1, <1>2, <1>3, <1>4, <1>5, <1>6, <1>7, <1>8, <1>9, <1>10,
  <1>11, <1>12, <1>13 DEF Next, Handle

LEMMA InHandStep == IInv /\ [Next]_vars => InHand'
<1> SUFFICES ASSUME IInv, [Next]_vars PROVE InHand'
  OBVIOUS
<1> USE GatesAssumption, KindsAssumption, NoneAssumption DEF IInv, TypeOK,
  StreamTypeOK, vars, request, accounting, peer, decoder, stream, InHand,
  Inside, Watching, Causes, Phases, Over, Ends, Errors
<1>1. CASE Arrive
  BY <1>1 DEF Arrive, Malformed, Answer, Chat, ranPre, Observed,
    PassedThrough
<1>2. CASE GateContinues \/ GateModifies \/ ChainPassed \/ Resolve
  BY <1>2 DEF GateContinues, AtGate, GateModifies, ChainPassed, Resolve
<1>3. CASE GateAnswers \/ GateRefuses \/ Serve \/ Unresolved \/ CallFails \/ Do
  BY <1>3 DEF GateAnswers, Answer, AtGate, GateRefuses, Serve, ranPost,
    Unresolved, CallFails, Do
<1>4. CASE DoStream
  BY <1>4 DEF DoStream, Write
<1>5. CASE CallRecv
  BY <1>5 DEF CallRecv, EnterRecv
<1>6. CASE Decode
  BY <1>6 DEF Decode, Recv, BeginRead, recorded, TakeEvent, ReachEnd,
    GiveUpScan, ScanFails, Classify, classified, StopWatch, Joined, Return, ending
<1>7. CASE StreamEnds
  BY <1>7 DEF StreamEnds, finalise, usage, Write
<1>8. CASE ChunkArrives
  BY <1>8 DEF ChunkArrives, Relayed, seenEnd, Write
<1>9. CASE Finish
  BY <1>9 DEF Finish, Close, finalise, usage, ranPost
<1>10. CASE IdleWatch
  BY <1>10 DEF IdleWatch, Watcher, Fire, MarkClosed, CloseBody, Dismissed
<1>11. CASE Upstream
  BY <1>11 DEF Upstream, SendEvent, EndAnswer
<1>12. CASE Leave
  BY <1>12 DEF Leave
<1>13. CASE UNCHANGED vars
  BY <1>13
<1> QED BY <1>1, <1>2, <1>3, <1>4, <1>5, <1>6, <1>7, <1>8, <1>9, <1>10,
  <1>11, <1>12, <1>13 DEF Next, Handle

LEMMA CausesStep == IInv /\ [Next]_vars => Causes'
<1> SUFFICES ASSUME IInv, [Next]_vars PROVE Causes'
  OBVIOUS
<1>0. Overlong /\ wire' = wire => Overlong'
  BY DEF Overlong
<1> USE GatesAssumption, KindsAssumption, NoneAssumption DEF IInv, TypeOK,
  StreamTypeOK, vars, request, accounting, peer, decoder, stream, Causes,
  InHand, Inside, Watching, Phases, Over, Ends, Errors
<1>1. CASE Arrive
  BY <1>0, <1>1 DEF Arrive, Malformed, Answer, Chat, ranPre, Observed,
    PassedThrough
<1>2. CASE GateContinues \/ GateModifies \/ ChainPassed \/ Resolve
  BY <1>0, <1>2 DEF GateContinues, AtGate, GateModifies, ChainPassed, Resolve
<1>3. CASE GateAnswers \/ GateRefuses \/ Serve \/ Unresolved \/ CallFails \/ Do
  BY <1>0, <1>3 DEF GateAnswers, Answer, AtGate, GateRefuses, Serve, ranPost,
    Unresolved, CallFails, Do
<1>4. CASE DoStream
  BY <1>0, <1>4 DEF DoStream, Write
<1>5. CASE CallRecv
  BY <1>0, <1>5 DEF CallRecv, EnterRecv
<1>6. CASE Decode /\ BeginRead
  BY <1>0, <1>6 DEF Decode, BeginRead, recorded
<1>7. CASE Decode /\ TakeEvent
  <2>0. terminal = None
    BY <1>7 DEF TakeEvent
  <2>1. got' \in Kinds /\ UNCHANGED <<terminal, idleFired, gone, closed, dialect,
                                     upstream>>
    BY <1>7, HeadTailProperties DEF TakeEvent
  <2> QED BY <2>0, <2>1
<1>8. CASE Decode /\ ReachEnd
  BY <1>0, <1>8 DEF Decode, ReachEnd
<1>9. CASE Decode /\ (GiveUpScan \/ ScanFails)
  BY <1>0, <1>9 DEF Decode, GiveUpScan, ScanFails
<1>10. CASE Decode /\ Classify
  BY <1>0, <1>10 DEF Decode, Classify, classified
<1>11. CASE Decode /\ StopWatch
  BY <1>0, <1>11 DEF Decode, StopWatch
<1>12. CASE Decode /\ Joined
  BY <1>0, <1>12 DEF Decode, Joined, Return, ending, recorded
<1>13. CASE StreamEnds
  BY <1>0, <1>13 DEF StreamEnds, finalise, usage, Write
<1>14. CASE ChunkArrives
  BY <1>0, <1>14 DEF ChunkArrives, Relayed, seenEnd, Write
<1>15. CASE Finish
  BY <1>0, <1>15 DEF Finish, Close, finalise, usage, ranPost
<1>16. CASE IdleWatch
  BY <1>0, <1>16 DEF IdleWatch, Watcher, Fire, MarkClosed, CloseBody, Dismissed
<1>17. CASE Upstream
  <2>1. CASE \E k \in Kinds : SendEvent(k)
    <3>1. Overlong => Overlong'
      BY <2>1, AppendProperties DEF SendEvent, Overlong
    <3> QED BY <1>17, <2>1, <3>1 DEF Upstream, SendEvent
  <2>2. CASE \E e \in {"eof", "died", "lost"} : EndAnswer(e)
    BY <1>0, <1>17, <2>2 DEF Upstream, EndAnswer
  <2> QED BY <1>17, <2>1, <2>2 DEF Upstream
<1>18. CASE Leave
  BY <1>0, <1>18 DEF Leave
<1>19. CASE UNCHANGED vars
  BY <1>0, <1>19
<1> QED BY <1>1, <1>2, <1>3, <1>4, <1>5, <1>6, <1>7, <1>8, <1>9, <1>10,
  <1>11, <1>12, <1>13, <1>14, <1>15, <1>16, <1>17, <1>18, <1>19 DEF Next,
  Handle, Decode, Recv

LEMMA RecordedStep == IInv /\ [Next]_vars => Recorded'
<1> SUFFICES ASSUME IInv, [Next]_vars PROVE Recorded'
  OBVIOUS
<1> USE GatesAssumption, KindsAssumption, NoneAssumption DEF IInv, TypeOK,
  StreamTypeOK, vars, request, accounting, peer, decoder, stream, Recorded,
  AccountedOnce, Counted, InHand, Phases, Inside, Before, Over, Ends, Errors
<1>1. CASE Arrive
  BY <1>1 DEF Arrive, Malformed, Answer, Chat, ranPre, Observed,
    PassedThrough
<1>2. CASE GateContinues \/ GateModifies \/ ChainPassed \/ Resolve
  BY <1>2 DEF GateContinues, AtGate, GateModifies, ChainPassed, Resolve
<1>3. CASE GateAnswers \/ GateRefuses \/ Serve \/ Unresolved \/ CallFails \/ Do
  BY <1>3 DEF GateAnswers, Answer, AtGate, GateRefuses, Serve, ranPost,
    Unresolved, CallFails, Do
<1>4. CASE DoStream
  BY <1>4 DEF DoStream, Write
<1>5. CASE CallRecv
  BY <1>5 DEF CallRecv, EnterRecv
<1>6. CASE Decode
  BY <1>6 DEF Decode, Recv, BeginRead, recorded, TakeEvent, ReachEnd,
    GiveUpScan, ScanFails, Classify, classified, StopWatch, Joined, Return, ending
<1>7. CASE StreamEnds
  BY <1>7 DEF StreamEnds, finalise, usage, Write
<1>8. CASE ChunkArrives
  BY <1>8 DEF ChunkArrives, Relayed, seenEnd, Write
<1>9. CASE Finish
  BY <1>9 DEF Finish, Close, finalise, usage, ranPost
<1>10. CASE IdleWatch
  BY <1>10 DEF IdleWatch, Watcher, Fire, MarkClosed, CloseBody, Dismissed
<1>11. CASE Upstream
  BY <1>11 DEF Upstream, SendEvent, EndAnswer
<1>12. CASE Leave
  BY <1>12 DEF Leave
<1>13. CASE UNCHANGED vars
  BY <1>13
<1> QED BY <1>1, <1>2, <1>3, <1>4, <1>5, <1>6, <1>7, <1>8, <1>9, <1>10,
  <1>11, <1>12, <1>13 DEF Next, Handle

LEMMA ChainRunsStep == IInv /\ [Next]_vars => ChainRuns'
<1> SUFFICES ASSUME IInv, [Next]_vars PROVE ChainRuns'
  OBVIOUS
<1> USE GatesAssumption, KindsAssumption, NoneAssumption DEF IInv, TypeOK,
  StreamTypeOK, vars, request, accounting, peer, decoder, stream, ChainRuns,
  Phases, Before, Over
<1>1. CASE Arrive
  BY <1>1 DEF Arrive, Malformed, Answer, Chat, ranPre, Observed,
    PassedThrough
<1>2. CASE GateContinues \/ GateModifies \/ ChainPassed \/ Resolve
  BY <1>2 DEF GateContinues, AtGate, GateModifies, ChainPassed, Resolve
<1>3. CASE GateAnswers \/ GateRefuses \/ Serve \/ Unresolved \/ CallFails \/ Do
  BY <1>3 DEF GateAnswers, Answer, AtGate, GateRefuses, Serve, ranPost,
    Unresolved, CallFails, Do
<1>4. CASE DoStream
  BY <1>4 DEF DoStream, Write
<1>5. CASE CallRecv
  BY <1>5 DEF CallRecv, EnterRecv
<1>6. CASE Decode
  BY <1>6 DEF Decode, Recv, BeginRead, recorded, TakeEvent, ReachEnd,
    GiveUpScan, ScanFails, Classify, classified, StopWatch, Joined, Return, ending
<1>7. CASE StreamEnds
  BY <1>7 DEF StreamEnds, finalise, usage, Write
<1>8. CASE ChunkArrives
  BY <1>8 DEF ChunkArrives, Relayed, seenEnd, Write
<1>9. CASE Finish
  BY <1>9 DEF Finish, Close, finalise, usage, ranPost
<1>10. CASE IdleWatch
  BY <1>10 DEF IdleWatch, Watcher, Fire, MarkClosed, CloseBody, Dismissed
<1>11. CASE Upstream
  BY <1>11 DEF Upstream, SendEvent, EndAnswer
<1>12. CASE Leave
  BY <1>12 DEF Leave
<1>13. CASE UNCHANGED vars
  BY <1>13
<1> QED BY <1>1, <1>2, <1>3, <1>4, <1>5, <1>6, <1>7, <1>8, <1>9, <1>10,
  <1>11, <1>12, <1>13 DEF Next, Handle

(* A response that is written at once is the only frame.                   *)
LEMMA OnlyFrame ==
    ASSUME frames = <<>>, NEW f, Answer(f), NEW g
    PROVE  (Told(g)' # {}) <=> g = f
<1>1. frames' = <<f>>
  BY DEF Answer
<1>2. DOMAIN frames' = {1} /\ frames'[1] = f
  BY <1>1
<1> QED BY <1>2 DEF Told

(* While the exchange goes on, the counts are those of its place; when it  *)
(* ends, how it ends decides whether PostResponse has run.                 *)
LEMMA ChainOnceStep == IInv /\ [Next]_vars => ChainOnce'
<1> SUFFICES ASSUME IInv, [Next]_vars PROVE ChainOnce'
  OBVIOUS
<1>0. /\ ChainOnce /\ ChainRuns /\ runs \in [pre : Nat, post : Nat]
      /\ ~Over => runs.post = 0
      /\ ~opened /\ ~Over => ledger = <<>>
      /\ at \in Before => ~opened /\ frames = <<>>
      /\ at \in {"recv", "got", "close"} => opened
  BY DEF IInv, TypeOK, ChainRuns, Recorded, Phases, Before, Over
<1>1. CASE ~Over'
  <2>1. ChainRuns' /\ Positioned'
    BY ChainRunsStep, PositionedStep
  <2> QED BY <1>1, <2>1 DEF ChainRuns, Positioned, ChainOnce, Over
<1>2. CASE UNCHANGED <<at, route, runs, opened, ledger, frames>>
  BY <1>0, <1>2 DEF ChainOnce, Dispatched, Observes, Told, Over
<1>3. CASE Malformed \/ GateAnswers \/ GateRefuses \/ Unresolved
  <2>1. /\ at \in Before /\ ~Over /\ at \notin {"serve"}
        /\ UNCHANGED <<runs, opened, ledger>>
    BY <1>3 DEF Malformed, GateAnswers, GateRefuses, AtGate, Unresolved, accounting,
      Before, Over
  <2>2. PICK f \in {"refusal", "synthetic"} : Answer(f)
    BY <1>3 DEF Malformed, GateAnswers, GateRefuses, Unresolved
  <2>3. Told("failure")' = {} /\ Told("plain")' = {}
    BY <1>0, <2>1, <2>2, OnlyFrame
  <2>4. ~(Dispatched \/ Observes)' /\ runs'.post = 0
    BY <1>0, <2>1, <2>3 DEF Dispatched, Observes
  <2>5. runs.pre <= 1 /\ (route' = "manage" => runs'.pre = 0)
    BY <1>0, <1>3, <2>1 DEF Malformed, GateAnswers, GateRefuses, AtGate, Unresolved,
      request, ChainRuns, ChainOnce
  <2> QED BY <2>1, <2>4, <2>5 DEF ChainOnce
<1>4. CASE Serve
  <2>1. /\ at = "serve" /\ Answer("plain") /\ UNCHANGED <<route, opened, ledger>>
        /\ IF route = "models" THEN ranPost ELSE runs' = runs
    BY <1>4 DEF Serve, request, accounting
  <2>2. at \in Before /\ ~Over
    BY <2>1 DEF Before, Over
  <2>3. Told("plain")' # {} /\ Told("failure")' = {}
    BY <1>0, <2>1, <2>2, OnlyFrame
  <2>4. (Dispatched \/ Observes)' <=> route = "models"
    BY <1>0, <2>1, <2>2, <2>3 DEF Dispatched, Observes
  <2>5. runs'.pre = runs.pre /\ runs'.post = IF route = "models" THEN 1 ELSE 0
    BY <1>0, <2>1, <2>2 DEF ranPost
  <2> QED BY <1>0, <2>1, <2>4, <2>5 DEF ChainOnce
<1>5. CASE CallFails \/ Do
  <2>1. at = "call" /\ ranPost /\ UNCHANGED <<route, opened>>
    BY <1>5 DEF CallFails, Do, request, accounting
  <2>2. at \in Before /\ ~Over /\ runs'.pre = runs.pre /\ runs'.post = 1
    BY <1>0, <2>1 DEF Before, Over, ranPost
  <2>3. Dispatched'
    <3>1. CASE CallFails
      <4>1. Told("failure")' # {}
        BY <1>0, <2>2, <3>1, OnlyFrame DEF CallFails
      <4> QED BY <4>1 DEF Dispatched
    <3>2. CASE Do
      BY <3>2 DEF Do, Dispatched
    <3> QED BY <1>5, <3>1, <3>2
  <2> QED BY <1>0, <2>1, <2>2, <2>3 DEF ChainOnce
<1>6. CASE Finish
  <2>1. opened /\ opened' /\ ranPost /\ route' = route /\ ~Over
    BY <1>0, <1>6 DEF Finish, request, Over
  <2>2. runs'.pre = runs.pre /\ runs'.post = 1
    BY <1>0, <2>1 DEF ranPost
  <2> QED BY <1>0, <2>1, <2>2 DEF ChainOnce, Dispatched
<1>7. CASE ~Over' \/ UNCHANGED <<at, route, runs, opened, ledger, frames>>
  BY <1>1, <1>2, <1>7
<1>8. Chat \/ Observed \/ PassedThrough \/ GateContinues \/ GateModifies
        \/ ChainPassed \/ Resolve \/ DoStream \/ CallRecv \/ StreamEnds
        \/ ChunkArrives => ~Over'
  BY DEF Over, Chat, Observed, PassedThrough, GateContinues, AtGate, GateModifies,
    ChainPassed, Resolve, DoStream, CallRecv, StreamEnds, ChunkArrives
<1>9. Decode \/ IdleWatch \/ Upstream \/ Leave \/ UNCHANGED vars =>
        ~Over' \/ UNCHANGED <<at, route, runs, opened, ledger, frames>>
  BY DEF Over, Decode, IdleWatch, Upstream, Leave, vars, request, accounting
<1> QED BY <1>3, <1>4, <1>5, <1>6, <1>7, <1>8, <1>9 DEF Next, Arrive, Handle

LEMMA EditsStep == IInv /\ [Next]_vars => Edits'
<1> SUFFICES ASSUME IInv, [Next]_vars PROVE Edits'
  OBVIOUS
<1> USE GatesAssumption, KindsAssumption, NoneAssumption DEF IInv, TypeOK,
  StreamTypeOK, vars, request, accounting, peer, decoder, stream, Edits,
  EditsReachUpstream, Phases
<1>1. CASE Arrive
  BY <1>1 DEF Arrive, Malformed, Answer, Chat, ranPre, Observed,
    PassedThrough
<1>2. CASE GateContinues \/ GateModifies \/ ChainPassed \/ Resolve
  BY <1>2 DEF GateContinues, AtGate, GateModifies, ChainPassed, Resolve
<1>3. CASE GateAnswers \/ GateRefuses \/ Serve \/ Unresolved \/ CallFails \/ Do
  BY <1>3 DEF GateAnswers, Answer, AtGate, GateRefuses, Serve, ranPost,
    Unresolved, CallFails, Do
<1>4. CASE DoStream
  BY <1>4 DEF DoStream, Write
<1>5. CASE CallRecv
  BY <1>5 DEF CallRecv, EnterRecv
<1>6. CASE Decode
  BY <1>6 DEF Decode, Recv, BeginRead, recorded, TakeEvent, ReachEnd,
    GiveUpScan, ScanFails, Classify, classified, StopWatch, Joined, Return, ending
<1>7. CASE StreamEnds
  BY <1>7 DEF StreamEnds, finalise, usage, Write
<1>8. CASE ChunkArrives
  BY <1>8 DEF ChunkArrives, Relayed, seenEnd, Write
<1>9. CASE Finish
  BY <1>9 DEF Finish, Close, finalise, usage, ranPost
<1>10. CASE IdleWatch
  BY <1>10 DEF IdleWatch, Watcher, Fire, MarkClosed, CloseBody, Dismissed
<1>11. CASE Upstream
  BY <1>11 DEF Upstream, SendEvent, EndAnswer
<1>12. CASE Leave
  BY <1>12 DEF Leave
<1>13. CASE UNCHANGED vars
  BY <1>13
<1> QED BY <1>1, <1>2, <1>3, <1>4, <1>5, <1>6, <1>7, <1>8, <1>9, <1>10,
  <1>11, <1>12, <1>13 DEF Next, Handle

LEMMA EditsReachUpstreamStep == IInv /\ [Next]_vars => EditsReachUpstream'
<1> SUFFICES ASSUME IInv, [Next]_vars PROVE EditsReachUpstream'
  OBVIOUS
<1> USE GatesAssumption, KindsAssumption, NoneAssumption DEF IInv, TypeOK,
  StreamTypeOK, vars, request, accounting, peer, decoder, stream,
  EditsReachUpstream, Edits, Phases
<1>1. CASE Arrive
  BY <1>1 DEF Arrive, Malformed, Answer, Chat, ranPre, Observed,
    PassedThrough
<1>2. CASE GateContinues \/ GateModifies \/ ChainPassed \/ Resolve
  BY <1>2 DEF GateContinues, AtGate, GateModifies, ChainPassed, Resolve
<1>3. CASE GateAnswers \/ GateRefuses \/ Serve \/ Unresolved \/ CallFails \/ Do
  BY <1>3 DEF GateAnswers, Answer, AtGate, GateRefuses, Serve, ranPost,
    Unresolved, CallFails, Do
<1>4. CASE DoStream
  BY <1>4 DEF DoStream, Write
<1>5. CASE CallRecv
  BY <1>5 DEF CallRecv, EnterRecv
<1>6. CASE Decode
  BY <1>6 DEF Decode, Recv, BeginRead, recorded, TakeEvent, ReachEnd,
    GiveUpScan, ScanFails, Classify, classified, StopWatch, Joined, Return, ending
<1>7. CASE StreamEnds
  BY <1>7 DEF StreamEnds, finalise, usage, Write
<1>8. CASE ChunkArrives
  BY <1>8 DEF ChunkArrives, Relayed, seenEnd, Write
<1>9. CASE Finish
  BY <1>9 DEF Finish, Close, finalise, usage, ranPost
<1>10. CASE IdleWatch
  BY <1>10 DEF IdleWatch, Watcher, Fire, MarkClosed, CloseBody, Dismissed
<1>11. CASE Upstream
  BY <1>11 DEF Upstream, SendEvent, EndAnswer
<1>12. CASE Leave
  BY <1>12 DEF Leave
<1>13. CASE UNCHANGED vars
  BY <1>13
<1> QED BY <1>1, <1>2, <1>3, <1>4, <1>5, <1>6, <1>7, <1>8, <1>9, <1>10,
  <1>11, <1>12, <1>13 DEF Next, Handle

(* The invariant holds at the start, and every step keeps it.              *)
LEMMA Initially == Init => IInv
<1> SUFFICES ASSUME Init PROVE IInv
  OBVIOUS
<1> USE DEF Init, StreamInit
<1>1. StreamTypeOK
  <2>1. /\ wire \in Seq(Kinds) /\ sent \in 0 .. MaxEvents
        /\ guarded \in BOOLEAN /\ dialect \in {"openai", "cloudcode"}
    BY BoundAssumption, SettingsAssumption
  <2>2. gone \in BOOLEAN /\ {closed, idleFired, released} \subseteq BOOLEAN
    OBVIOUS
  <2> QED BY <2>1, <2>2 DEF StreamTypeOK
<1>2. TypeOK
  <2>1. Positioned
    <3>1. /\ gate \in 1 .. PreGates + 1 /\ working \in Bodies \cup {None}
          /\ {body, edited} \subseteq Bodies
      BY GatesAssumption DEF Bodies
    <3>2. {modified, opened, relayedEnd} \subseteq BOOLEAN
      OBVIOUS
    <3> QED BY <3>1, <3>2 DEF Positioned
  <2>2. Written
    BY DEF Written
  <2>3. Booked
    BY DEF Booked
  <2> QED BY <1>1, <2>1, <2>2, <2>3 DEF TypeOK, Positioned, Written, Booked
<1>3. Phases /\ Watching /\ ChainRuns /\ ChainOnce /\ Edits /\ EditsReachUpstream
  BY DEF Phases, Before, Watching, Over, ChainRuns, ChainOnce, Edits,
    EditsReachUpstream
<1>4. InHand /\ Causes
  BY NoneAssumption DEF InHand, Inside, Causes, Ends, Errors
<1>5. Counted /\ Recorded
  BY DEF Counted, Recorded, AccountedOnce, Over
<1> QED BY <1>2, <1>3, <1>4, <1>5 DEF IInv

(* Every reachable state satisfies the invariant.                          *)
THEOREM Invariant == Spec => []IInv
<1>1. IInv /\ [Next]_vars => TypeOK'
  BY StreamTypeStep, PositionedStep, WrittenStep, BookedStep
    DEF TypeOK, Positioned, Written, Booked
<1>2. IInv /\ [Next]_vars => IInv'
  BY <1>1, PhasesStep, WatchingStep, InHandStep, CausesStep, CountedStep,
    RecordedStep, ChainRunsStep, ChainOnceStep, EditsStep,
    EditsReachUpstreamStep DEF IInv
<1> QED BY <1>2, Initially, PTL DEF Spec

(* Every variable keeps to its type.                                       *)
THEOREM TypeCorrect == Spec => []TypeOK
BY Invariant, PTL DEF IInv

(* However a stream ends (the upstream's end, an error of any kind, the    *)
(* watcher, a client that leaves, a failing gate), the wrapping stream has *)
(* recorded its usage once, as aborted unless the end was reached, with    *)
(* the last usage read.                                                    *)
THEOREM UsageIsAccountedOnce == Spec => []AccountedOnce
<1>1. IInv => AccountedOnce
  BY DEF IInv, Recorded
<1> QED BY <1>1, Invariant, PTL

(* The terminal outcome that Recv records names the cause, whichever of    *)
(* the reader, the watcher and the client came first; a peer that is alive *)
(* is called unavailable for an overlong line only.                        *)
THEOREM OutcomesBlameTheCause == Spec => []BlamesTheCause
<1>1. IInv => BlamesTheCause
  BY DEF IInv, Causes, BlamesTheCause
<1> QED BY <1>1, Invariant, PTL

(* No watcher outlives its read, and every stream's body is released.      *)
THEOREM StreamsLeakNothing == Spec => []NothingLeaks
<1>1. IInv => NothingLeaks
  BY DEF IInv, Watching, NothingLeaks
<1> QED BY <1>1, Invariant, PTL

(* The chain runs at most once per exchange and never for the management   *)
(* routes; PostResponse runs once if the exchange reached the Dispatcher   *)
(* (a dispatch that failed included) or the observed handler, else never.  *)
THEOREM ChainRunsOnce == Spec => []ChainOnce
<1>1. IInv => ChainOnce
  BY DEF IInv
<1> QED BY <1>1, Invariant, PTL

(* With any number of gates, what goes upstream is what the last modifying *)
(* gate published.                                                         *)
THEOREM EditsAreApplied == Spec => []EditsReachUpstream
<1>1. IInv => EditsReachUpstream
  BY DEF IInv
<1> QED BY <1>1, Invariant, PTL
-----------------------------------------------------------------------------
(* What the client has been told by now.  Until the handler returns a      *)
(* stream nothing ends the answer; while it relays one only the upstream's *)
(* sentinel may have got through; then the last frame says what the        *)
(* recorded outcome says, unless it is the end and a sentinel has said it. *)
Terminals == {"done", "error"}

Telling ==
    /\ ~opened => \A i \in DOMAIN frames : frames[i] \notin Terminals \cup {"sentinel"}
    /\ relayedEnd <=> \E i \in DOMAIN frames : frames[i] = "sentinel"
    /\ at \in {"recv", "got"} => \A i \in DOMAIN frames : frames[i] \notin Terminals
    /\ at \in {"close", "over"} /\ opened =>
         /\ \A i \in DOMAIN frames : frames[i] \in Terminals => i = Len(frames)
         /\ relayedEnd /\ terminal = "EOF" =>
              \A i \in DOMAIN frames : frames[i] \notin Terminals
         /\ ~(relayedEnd /\ terminal = "EOF") =>
              /\ Len(frames) \in DOMAIN frames
              /\ frames[Len(frames)] = IF terminal = "EOF" THEN "done" ELSE "error"

(* One more frame comes last and leaves the others where they are.         *)
LEMMA OneMoreFrame ==
    ASSUME TypeOK, NEW f \in Frames, frames' = frames \o <<f>> \/ frames' = Append(frames, f)
    PROVE  /\ Len(frames') \in DOMAIN frames' /\ frames'[Len(frames')] = f
           /\ \A i \in DOMAIN frames : /\ i \in DOMAIN frames' /\ i # Len(frames')
                                       /\ frames'[i] = frames[i]
           /\ \A i \in DOMAIN frames' : \/ i = Len(frames')
                                        \/ i \in DOMAIN frames /\ frames'[i] = frames[i]
<1>1. frames \in Seq(Frames)
  BY DEF TypeOK
<1>2. frames' = Append(frames, f)
  <2>1. frames \o <<f>> = Append(frames, f)
    BY <1>1
  <2> QED BY <2>1
<1>3. /\ frames' \in Seq(Frames) /\ Len(frames') = Len(frames) + 1
      /\ \A i \in 1..Len(frames) : frames'[i] = frames[i]
      /\ frames'[Len(frames) + 1] = f
  BY <1>1, <1>2, AppendProperties
<1>4. DOMAIN frames = 1..Len(frames) /\ DOMAIN frames' = 1..Len(frames') /\ Len(frames) \in Nat
  BY <1>1, <1>3, LenProperties
<1> QED BY <1>3, <1>4

(* A step that writes nothing, unless it is the end of the relay.          *)
Silent ==
    /\ UNCHANGED <<frames, opened, relayedEnd>>
    /\ at' \in {"recv", "got"} => at \in {"recv", "got"}
    /\ at' \in {"close", "over"} /\ opened =>
         at \in {"close", "over"} /\ terminal' = terminal

LEMMA SilentStep == ASSUME Telling, Silent PROVE Telling'
  BY DEF Telling, Silent

(* A response written at once, before there is a stream.                   *)
LEMMA AnswerStep ==
    ASSUME TypeOK, Telling, ~opened, NEW f \in {"plain", "synthetic", "refusal", "failure"}, Answer(f),
           UNCHANGED <<opened, relayedEnd>>
    PROVE  Telling'
<1>1. f \in Frames /\ f \notin Terminals \cup {"sentinel"}
  BY DEF Frames, Terminals
<1>2. frames' = Append(frames, f) /\ at' = "over"
  BY DEF Answer
<1> QED BY <1>1, <1>2, OneMoreFrame DEF Telling

(* The last frame of a relay in which no sentinel got through, or of any   *)
(* other if it is an error.                                                *)
LEMMA LastFrameStep ==
    ASSUME TypeOK, Telling, at = "got", opened, at' = "close",
           NEW f \in Terminals, frames' = frames \o <<f>>,
           UNCHANGED <<opened, relayedEnd, terminal>>,
           f = IF terminal = "EOF" THEN "done" ELSE "error",
           relayedEnd => f = "error"
    PROVE  Telling'
<1>1. f \in Frames /\ f # "sentinel"
  BY DEF Frames, Terminals
<1> QED BY <1>1, OneMoreFrame DEF Telling, Terminals

LEMMA TellingStep == IInv /\ Telling /\ [Next]_vars => Telling'
<1> SUFFICES ASSUME IInv, Telling, [Next]_vars PROVE Telling'
  OBVIOUS
<1>0. TypeOK /\ Phases /\ InHand
  BY DEF IInv
<1>1. CASE Chat \/ Observed \/ PassedThrough
  <2>1. Silent
    BY <1>1 DEF Silent, Chat, Observed, PassedThrough, accounting
  <2> QED BY <2>1, SilentStep
<1>2. CASE GateContinues \/ GateModifies \/ ChainPassed \/ Resolve
  <2>1. Silent
    BY <1>2 DEF Silent, GateContinues, AtGate, GateModifies, ChainPassed, Resolve,
      accounting
  <2> QED BY <2>1, SilentStep
<1>3. CASE Malformed \/ GateAnswers \/ GateRefuses \/ Serve \/ Unresolved \/ CallFails \/ Do
  <2>1. ~opened
    BY <1>0, <1>3 DEF Phases, Before, Malformed, GateAnswers, GateRefuses, AtGate, Serve,
      Unresolved, CallFails, Do
  <2>2. UNCHANGED <<opened, relayedEnd>>
    BY <1>3 DEF accounting, Malformed, GateAnswers, GateRefuses, Serve, Unresolved,
      CallFails, Do
  <2>3. \E f \in {"plain", "synthetic", "refusal", "failure"} : Answer(f)
    BY <1>3 DEF Malformed, GateAnswers, GateRefuses, Serve, Unresolved, CallFails, Do
  <2> QED BY <1>0, <2>1, <2>2, <2>3, AnswerStep
<1>4. CASE DoStream
  <2>1. ~opened /\ "status" \in Frames /\ "status" \notin Terminals \cup {"sentinel"}
    BY <1>0, <1>4 DEF Phases, Before, DoStream, Frames, Terminals
  <2>2. frames' = frames \o <<"status">> /\ at' = "recv" /\ relayedEnd' = relayedEnd
        /\ opened'
    BY <1>4 DEF DoStream, Write
  <2> QED BY <1>0, <2>1, <2>2, OneMoreFrame DEF Telling
<1>5. CASE CallRecv \/ Decode
  <2>1. Silent
    BY <1>5 DEF Silent, CallRecv, Decode
  <2> QED BY <2>1, SilentStep
<1>6. CASE StreamEnds
  <2>1. /\ at = "got" /\ recv = "ret" /\ opened /\ got = terminal /\ at' = "close"
        /\ UNCHANGED <<opened, relayedEnd, terminal>>
    BY <1>0, <1>6 DEF StreamEnds, Phases, InHand
  <2>2. CASE got # "EOF"
    BY <1>0, <1>6, <2>1, <2>2, LastFrameStep DEF StreamEnds, Write, Terminals
  <2>3. CASE got = "EOF" /\ ~relayedEnd
    BY <1>0, <1>6, <2>1, <2>3, LastFrameStep DEF StreamEnds, Write, Terminals
  <2>4. CASE got = "EOF" /\ relayedEnd
    <3>1. frames' = frames
      BY <1>0, <1>6, <2>4 DEF StreamEnds, Write, TypeOK
    <3> QED BY <2>1, <2>4, <3>1 DEF Telling, Terminals
  <2> QED BY <2>2, <2>3, <2>4
<1>7. CASE ChunkArrives
  <2>1. /\ at = "got" /\ opened /\ terminal = None /\ terminal # "EOF"
        /\ UNCHANGED <<opened, terminal>>
    BY <1>0, <1>7, NoneAssumption DEF ChunkArrives, Phases, Ends
  <2>2. PICK d \in ChunkDecisions, frame \in {"sentinel", "chunk"} :
          \/ frames' = frames \o <<"error">> /\ at' = "close" /\ relayedEnd' = relayedEnd
          \/ at' = "recv" /\ UNCHANGED <<frames, relayedEnd>>
          \/ /\ frames' = frames \o <<frame>> /\ at' = "recv"
             /\ relayedEnd' = (relayedEnd \/ frame = "sentinel")
    BY <1>7 DEF ChunkArrives, Relayed, Write, seenEnd
  <2>3. CASE frames' = frames \o <<"error">> /\ at' = "close" /\ relayedEnd' = relayedEnd
    BY <1>0, <2>1, <2>3, LastFrameStep DEF Terminals
  <2>4. CASE at' = "recv" /\ UNCHANGED <<frames, relayedEnd>>
    BY <2>1, <2>4 DEF Telling
  <2>5. CASE /\ frames' = frames \o <<frame>> /\ at' = "recv"
             /\ relayedEnd' = (relayedEnd \/ frame = "sentinel")
    <3>1. frame \in Frames /\ frame \notin Terminals
      BY DEF Frames, Terminals
    <3> QED BY <1>0, <2>1, <2>5, <3>1, OneMoreFrame DEF Telling
  <2> QED BY <2>2, <2>3, <2>4, <2>5
<1>8. CASE Finish
  <2>1. Silent
    BY <1>8 DEF Silent, Finish, Close
  <2> QED BY <2>1, SilentStep
<1>9. CASE IdleWatch \/ Upstream \/ Leave
  <2>1. Silent
    BY <1>9 DEF Silent, IdleWatch, Watcher, Fire, MarkClosed, CloseBody, Dismissed,
      Upstream, SendEvent, EndAnswer, Leave, accounting, decoder
  <2> QED BY <2>1, SilentStep
<1>10. CASE UNCHANGED vars
  <2>1. Silent
    BY <1>10 DEF Silent, vars, stream, decoder
  <2> QED BY <2>1, SilentStep
<1> QED BY <1>1, <1>2, <1>3, <1>4, <1>5, <1>6, <1>7, <1>8, <1>9, <1>10
    DEF Next, Arrive, Handle

(* However the stream ends and whatever the chunk gates do, the gateway    *)
(* ends its answer with one frame of its own, an error if the ledger has   *)
(* the usage as aborted and else the sentinel, which it leaves out only if *)
(* one was relayed before; an error does follow a relayed sentinel         *)
(* (gateway.go:270-315).                                                   *)
THEOREM ClientToldTheEnd == Spec => []EndToldTruly
<1>1. Init => Telling
  BY NoneAssumption DEF Init, StreamInit, Telling, Terminals
<1>2. ASSUME IInv, Telling PROVE EndToldTruly
  <2>1. at \in Before \cup {"recv", "got", "close", "over"}
    BY <1>2 DEF IInv, TypeOK, Before
  <2>2. Told("done") \cup Told("error") = {i \in DOMAIN frames : frames[i] \in Terminals}
    BY DEF Told, Terminals
  <2>3. Told("sentinel") # {} <=> relayedEnd
    BY <1>2 DEF Telling, Told
  <2>4. CASE at \in {"close", "over"} /\ opened
    <3>1. Told("done") \cup Told("error") \subseteq {Len(frames)}
      BY <1>2, <2>2, <2>4 DEF Telling
    <3>2. ASSUME relayedEnd, terminal = "EOF" PROVE OneTerminal
      <4>1. \A i \in DOMAIN frames : frames[i] \notin Terminals
        BY <1>2, <2>4, <3>2 DEF Telling
      <4>2. Told("done") = {} /\ Told("error") = {}
        BY <4>1 DEF Told, Terminals
      <4> QED BY <2>3, <3>2, <4>2 DEF OneTerminal
    <3>3. ASSUME ~(relayedEnd /\ terminal = "EOF") PROVE OneTerminal
      <4>1. /\ Len(frames) \in DOMAIN frames
            /\ frames[Len(frames)] = IF terminal = "EOF" THEN "done" ELSE "error"
        BY <1>2, <2>4, <3>3 DEF Telling
      <4>2. Told("done") # {} => frames[Len(frames)] = "done"
        BY <3>1 DEF Told
      <4>3. Told("done") \cup Told("error") # {}
        BY <4>1 DEF Told
      <4> QED BY <2>3, <3>1, <3>3, <4>1, <4>2, <4>3 DEF OneTerminal
    <3>4. OneTerminal
      BY <3>2, <3>3
    <3>5. (Told("error") # {}) <=> terminal # "EOF"
      BY <1>2, <2>4 DEF Telling, Terminals, Told
    <3>6. Over => ledger[1].aborted = (terminal # "EOF")
      BY <1>2, <2>4 DEF IInv, Recorded, AccountedOnce
    <3> QED BY <3>4, <3>5, <3>6 DEF EndToldTruly, ToldAlike
  <2>5. CASE ~(at \in {"close", "over"} /\ opened)
    <3>1. ~(Over /\ opened)
      BY <2>5 DEF Over
    <3>2. Told("done") = {} /\ Told("error") = {}
      <4>1. ~opened \/ at \in {"recv", "got"}
        BY <1>2, <2>1, <2>5 DEF IInv, Phases
      <4> QED BY <1>2, <4>1 DEF Telling, Terminals, Told
    <3> QED BY <3>1, <3>2 DEF EndToldTruly, OneTerminal, ToldAlike
  <2> QED BY <2>4, <2>5
<1>3. Spec => [](IInv /\ Telling)
  <2>1. IInv /\ Telling /\ [Next]_vars /\ IInv' => Telling'
    BY TellingStep
  <2> QED BY <1>1, <2>1, Invariant, PTL DEF Spec
<1> QED BY <1>2, <1>3, PTL

-----------------------------------------------------------------------------
(* Routing. A set of numbers has a least one, which is what an induction   *)
(* over numbers rests on here.                                             *)
LEMMA Least == ASSUME NEW T \in SUBSET Nat, T # {} PROVE \E n \in T : \A m \in T : n <= m
<1> DEFINE Under(n) == {m \in Nat : m < n}
           unders == {Under(n) : n \in T}
<1>1. \A n \in T : Under(n) \in SUBSET Nat /\ IsFiniteSet(Under(n))
  <2> SUFFICES ASSUME NEW n \in T PROVE IsFiniteSet(Under(n))
    OBVIOUS
  <2>1. n \in Nat /\ \A m \in Under(n) : m <= n
    OBVIOUS
  <2>2. Under(n) \in SUBSET Nat
    OBVIOUS
  <2> HIDE DEF Under
  <2> QED BY <2>1, <2>2, FS_BoundedSetOfNaturals
<1>2. unders \subseteq FiniteSubsetsOf(Nat) /\ unders # {}
  BY <1>1 DEF FiniteSubsetsOf
<1>3. IsWellFoundedOn(StrictSubsetOrdering(Nat), FiniteSubsetsOf(Nat))
  BY FS_StrictSubsetOrderingWellFounded
<1> HIDE DEF unders
<1>4. \E A \in unders : \A B \in unders : ~(<<B, A>> \in StrictSubsetOrdering(Nat))
  BY <1>2, <1>3, WFMin
<1>5. PICK n \in T : \A m \in T : ~(<<Under(m), Under(n)>> \in StrictSubsetOrdering(Nat))
  BY <1>4 DEF unders
<1>6. ASSUME NEW m \in T, m < n PROVE FALSE
  <2>1. Under(m) \subseteq Under(n) /\ m \in Under(n) /\ m \notin Under(m)
    BY <1>6
  <2>2. <<Under(m), Under(n)>> \in (SUBSET Nat) \X (SUBSET Nat)
    BY <1>1
  <2> HIDE DEF Under
  <2> QED BY <1>5, <2>1, <2>2 DEF StrictSubsetOrdering
<1>7. \A m \in T : n <= m
  BY <1>6
<1> QED BY <1>7

(* A first part of the function by which FlattenSeq concatenates.          *)
Flattens(f, ss, n) ==
    f = [i \in 1..n |-> IF i = 1 THEN ss[i] ELSE f[i - 1] \o ss[i]]

LEMMA FlattenIs ==
    ASSUME NEW ss
    PROVE  FlattenSeq(ss) =
             IF Len(ss) = 0 THEN ss ELSE (CHOOSE f : Flattens(f, ss, Len(ss)))[Len(ss)]
  BY DEF FlattenSeq, Flattens

LEMMA FlattensMore ==
    ASSUME NEW ss, NEW n \in Nat, NEW f, Flattens(f, ss, n)
    PROVE  \E g : Flattens(g, ss, n + 1)
<1> DEFINE g == [i \in 1 .. n + 1 |-> IF i = n + 1
                                      THEN IF i = 1 THEN ss[i] ELSE f[n] \o ss[i]
                                      ELSE f[i]]
           h == [i \in 1 .. n + 1 |-> IF i = 1 THEN ss[i] ELSE g[i - 1] \o ss[i]]
<1>1. ASSUME NEW i \in 1 .. n + 1 PROVE g[i] = h[i]
  <2>1. CASE i = n + 1 /\ i = 1
    BY <2>1
  <2>2. CASE i = n + 1 /\ i # 1
    <3>1. n \in 1 .. n + 1 /\ n # n + 1 /\ i - 1 = n
      BY <2>2
    <3> QED BY <2>2, <3>1
  <2>3. CASE i # n + 1
    <3>1. i \in 1..n
      BY <2>3
    <3>2. f[i] = IF i = 1 THEN ss[i] ELSE f[i - 1] \o ss[i]
      BY <3>1 DEF Flattens
    <3>3. i # 1 => i - 1 \in 1 .. n + 1 /\ i - 1 # n + 1
      BY <3>1
    <3> QED BY <2>3, <3>2, <3>3
  <2> QED BY <2>1, <2>2, <2>3
<1>2. g = h
  BY <1>1
<1>3. Flattens(g, ss, n + 1)
  BY <1>2 DEF Flattens
<1> QED BY <1>3

LEMMA FlattensExists == ASSUME NEW ss, NEW n \in Nat PROVE \E f : Flattens(f, ss, n)
<1> DEFINE Missing == {m \in Nat : ~\E f : Flattens(f, ss, m)}
<1>1. CASE Missing = {}
  BY <1>1
<1>2. CASE Missing # {}
  <2>1. PICK m \in Missing : \A l \in Missing : m <= l
    BY <1>2, Least
  <2>2. m # 0
    <3> DEFINE f == [i \in 1..0 |-> IF i = 1 THEN ss[i] ELSE ss[i]]
    <3>1. f = [i \in 1..0 |-> IF i = 1 THEN ss[i] ELSE f[i - 1] \o ss[i]]
      OBVIOUS
    <3>2. Flattens(f, ss, 0)
      BY <3>1 DEF Flattens
    <3> QED BY <3>2
  <2>3. m - 1 \in Nat /\ m - 1 < m /\ m - 1 + 1 = m
    BY <2>2
  <2>4. PICK f : Flattens(f, ss, m - 1)
    BY <2>1, <2>3
  <2>5. \E g : Flattens(g, ss, m)
    BY <2>3, <2>4, FlattensMore
  <2> QED BY <2>5
<1> QED BY <1>1, <1>2

-----------------------------------------------------------------------------
(* Orderings. In a strict order of a finite set each element has a place   *)
(* of its own, the number of those that come no later; so to list whoever  *)
(* has the first place, the second and so on lists each once, in order.    *)
StrictOrder(D, R) ==
    /\ \A x \in D : <<x, x>> \notin R
    /\ \A x, y, z \in D : <<x, y>> \in R /\ <<y, z>> \in R => <<x, z>> \in R
    /\ \A x, y \in D : x = y \/ <<x, y>> \in R \/ <<y, x>> \in R

NoLater(D, R, x) == {y \in D : y = x \/ <<y, x>> \in R}

(* Who comes later has a higher place.                                     *)
LEMMA PlaceRises ==
    ASSUME NEW D, IsFiniteSet(D), NEW R, StrictOrder(D, R)
    PROVE  LET n        == Cardinality(D)
               place(x) == Cardinality(NoLater(D, R, x))
           IN  /\ n \in Nat /\ \A x \in D : place(x) \in 1..n
               /\ \A x, y \in D : <<x, y>> \in R => place(x) < place(y)
               /\ \A x, y \in D : place(x) = place(y) => x = y
<1> DEFINE n == Cardinality(D)
           place(x) == Cardinality(NoLater(D, R, x))
<1>1. n \in Nat
  BY FS_CardinalityType
<1>2. ASSUME NEW x \in D PROVE IsFiniteSet(NoLater(D, R, x)) /\ place(x) \in 1..n
  <2>1. NoLater(D, R, x) \in SUBSET D /\ x \in NoLater(D, R, x)
    BY DEF NoLater
  <2>2. IsFiniteSet(NoLater(D, R, x)) /\ place(x) <= n
    BY <2>1, FS_Subset
  <2>3. place(x) \in Nat /\ place(x) # 0
    BY <2>1, <2>2, FS_CardinalityType, FS_EmptySet
  <2> QED BY <1>1, <2>2, <2>3
<1>3. ASSUME NEW x \in D, NEW y \in D, <<x, y>> \in R PROVE place(x) < place(y)
  <2>1. /\ NoLater(D, R, x) \in SUBSET NoLater(D, R, y)
        /\ y \in NoLater(D, R, y) /\ y \notin NoLater(D, R, x)
    BY <1>3 DEF NoLater, StrictOrder
  <2>2. place(x) <= place(y) /\ place(x) # place(y)
    BY <1>2, <2>1, FS_Subset
  <2> QED BY <1>1, <1>2, <2>2
<1>4. ASSUME NEW x \in D, NEW y \in D, place(x) = place(y) PROVE x = y
  <2>1. <<x, y>> \notin R /\ <<y, x>> \notin R
    BY <1>1, <1>2, <1>3, <1>4
  <2> QED BY <2>1 DEF StrictOrder
<1> QED BY <1>1, <1>2, <1>3, <1>4

LEMMA EachPlaceTaken ==
    ASSUME NEW D, IsFiniteSet(D), NEW R, StrictOrder(D, R), NEW k \in 1..Cardinality(D)
    PROVE  \E x \in D : Cardinality(NoLater(D, R, x)) = k
<1> DEFINE n == Cardinality(D)
           place == [x \in D |-> Cardinality(NoLater(D, R, x))]
<1>1. /\ n \in Nat /\ place \in [D -> 1..n]
      /\ \A x, y \in D : place[x] = place[y] => x = y
  BY PlaceRises
<1>2. IsFiniteSet(1..n) /\ Cardinality(1..n) = n
  BY <1>1, FS_Interval
<1> HIDE DEF place
<1>3. place \in Injection(D, 1..n)
  BY <1>1, Fun_IsInj
<1>4. place \in Surjection(D, 1..n)
  BY <1>2, <1>3, FS_Injection
<1>5. \E x \in D : place[x] = k
  BY <1>4 DEF Surjection
<1> QED BY <1>5 DEF place

(* A list by places is in order and has each element once.                 *)
LEMMA InPlace ==
    ASSUME NEW D, IsFiniteSet(D), NEW R, StrictOrder(D, R),
           NEW f \in [1..Cardinality(D) -> D],
           \A k \in 1..Cardinality(D) : Cardinality(NoLater(D, R, f[k])) = k
    PROVE  /\ f \in Bijection(1..Cardinality(D), D)
           /\ \A k, l \in 1..Cardinality(D) : k < l => <<f[k], f[l]>> \in R
<1> DEFINE n == Cardinality(D)
           place(x) == Cardinality(NoLater(D, R, x))
<1>1. /\ n \in Nat /\ \A x \in D : place(x) \in 1..n
      /\ \A x, y \in D : <<x, y>> \in R => place(x) < place(y)
      /\ \A x, y \in D : place(x) = place(y) => x = y
  BY PlaceRises
<1>2. \A k \in 1..n : f[k] \in D /\ place(f[k]) = k
  OBVIOUS
<1> HIDE DEF n, place
<1>3. f \in Bijection(1..n, D)
  <2>1. f \in [1..n -> D]
    BY DEF n
  <2>2. \A k, l \in 1..n : f[k] = f[l] => k = l
    BY <1>2
  <2>3. \A x \in D : \E k \in 1..n : f[k] = x
    BY <1>1, <1>2
  <2> QED BY <2>1, <2>2, <2>3, Fun_IsBij
<1>4. ASSUME NEW k \in 1..n, NEW l \in 1..n, k < l PROVE <<f[k], f[l]>> \in R
  <2>1. <<f[l], f[k]>> \notin R
    <3>1. ~(l < k)
      BY <1>1, <1>4
    <3> QED BY <1>1, <1>2, <3>1
  <2>2. f[k] # f[l]
    BY <1>1, <1>2, <1>4
  <2> QED BY <1>2, <2>1, <2>2 DEF StrictOrder
<1> QED BY <1>3, <1>4 DEF n

LEMMA BijectionIs ==
    ASSUME NEW S, NEW T, NEW f \in Bijection(S, T)
    PROVE  /\ f \in [S -> T] /\ \A x \in S : f[x] \in T
           /\ \A x, y \in S : f[x] = f[y] => x = y
           /\ \A z \in T : \E x \in S : f[x] = z
  BY DEF Bijection, Injection, IsInjective, Surjection

(* Numbers in ascending order.                                             *)
LEMMA OrderedLists ==
    ASSUME NEW S \in SUBSET Int, IsFiniteSet(S), NEW n, n = Cardinality(S)
    PROVE  /\ n \in Nat /\ DOMAIN Ordered(S) = 1..n
           /\ Ordered(S) \in Bijection(1..n, S)
           /\ \A k, l \in 1..n : k < l => Ordered(S)[k] < Ordered(S)[l]
<1> DEFINE R == {p \in S \X S : p[1] < p[2]}
           f == Ordered(S)
<1>1. StrictOrder(S, R)
  BY DEF StrictOrder
<1>2. \A x \in S : NoLater(S, R, x) = {y \in S : y <= x}
  <2> SUFFICES ASSUME NEW x \in S PROVE NoLater(S, R, x) = {y \in S : y <= x}
    OBVIOUS
  <2>1. ASSUME NEW y \in S PROVE (y = x \/ <<y, x>> \in R) <=> y <= x
    OBVIOUS
  <2> HIDE DEF R
  <2> QED BY <2>1 DEF NoLater
<1>3. f = [k \in 1..n |-> CHOOSE x \in S : Cardinality({y \in S : y <= x}) = k]
  BY DEF Ordered
<1>4. n \in Nat
  BY FS_CardinalityType
<1>5. ASSUME NEW k \in 1..n PROVE f[k] \in S /\ Cardinality(NoLater(S, R, f[k])) = k
  <2>1. f[k] = CHOOSE z \in S : Cardinality({y \in S : y <= z}) = k
    BY <1>3
  <2> HIDE DEF f, R
  <2>2. PICK x \in S : Cardinality(NoLater(S, R, x)) = k
    BY <1>1, EachPlaceTaken
  <2>3. Cardinality({y \in S : y <= x}) = k
    BY <1>2, <2>2
  <2>4. f[k] \in S /\ Cardinality({y \in S : y <= f[k]}) = k
    BY <2>1, <2>3
  <2> QED BY <1>2, <2>4
<1>6. f \in [1..n -> S] /\ DOMAIN f = 1..n
  BY <1>3, <1>5
<1> HIDE DEF f, R
<1>7. /\ f \in Bijection(1..n, S)
      /\ \A k, l \in 1..n : k < l => <<f[k], f[l]>> \in R
  BY <1>1, <1>5, <1>6, InPlace
<1> QED BY <1>4, <1>6, <1>7 DEF f, R

(* The first n numbers are n.                                              *)
LEMMA FirstNumbers == ASSUME NEW n \in Nat PROVE IsFiniteSet(1..n) /\ Cardinality(1..n) = n
<1>1. 1 \in Int /\ n \in Int /\ (IF 1 > n THEN 0 ELSE n - 1 + 1) = n
  OBVIOUS
<1> QED BY ONLY <1>1, FS_Interval

(* Selected lists what is at the positions in ascending order, once each.  *)
LEMMA SelectedIs ==
    ASSUME NEW s, NEW K \in SUBSET Int, IsFiniteSet(K)
    PROVE  LET n == Cardinality(K)
               f == Ordered(K)
           IN  /\ n \in Nat /\ f \in Bijection(1..n, K)
               /\ Selected(s, K) = [k \in 1..n |-> s[f[k]]]
               /\ \A k, l \in 1..n : k < l => f[k] < f[l]
<1>1. /\ Cardinality(K) \in Nat /\ DOMAIN Ordered(K) = 1..Cardinality(K)
      /\ Ordered(K) \in Bijection(1..Cardinality(K), K)
      /\ \A k, l \in 1..Cardinality(K) : k < l => Ordered(K)[k] < Ordered(K)[l]
  BY OrderedLists
<1> QED BY <1>1 DEF Selected

(* The entries of a plan, and the strategies' comparisons of them.         *)
Entries == [provider : Nat, model : Nat, step : Nat, weight : Nat, allowed : Seq(Nat)]

Comparisons == {"name", "step", "weight"}

(* Each comparison is a strict weak order.                                 *)
LEMMA LessIsWeakOrder ==
    ASSUME NEW by \in Comparisons, NEW a \in Entries, NEW b \in Entries, NEW c \in Entries
    PROVE  /\ ~(less(by, a, b) /\ less(by, b, a))
           /\ less(by, a, b) /\ less(by, b, c) => less(by, a, c)
           /\ ~less(by, a, b) /\ ~less(by, b, c) => ~less(by, a, c)
<1>1. /\ a.provider \in Nat /\ a.model \in Nat /\ a.step \in Nat /\ a.weight \in Nat
      /\ b.provider \in Nat /\ b.model \in Nat /\ b.step \in Nat /\ b.weight \in Nat
      /\ c.provider \in Nat /\ c.model \in Nat /\ c.step \in Nat /\ c.weight \in Nat
  BY DEF Entries
<1>2. CASE by = "name"
  BY <1>1, <1>2 DEF less, lessStable
<1>3. CASE by = "step"
  BY <1>1, <1>3 DEF less, byStep, lessStable
<1>4. CASE by = "weight"
  BY <1>1, <1>4 DEF less, byWeight, lessStable
<1> QED BY <1>2, <1>3, <1>4 DEF Comparisons

(* So Sorted is a permutation that puts nothing before what is less.       *)
LEMMA SortedIs ==
    ASSUME NEW s \in Seq(Entries), NEW by \in Comparisons
    PROVE  \E f \in Bijection(1..Len(s), 1..Len(s)) :
             /\ Sorted(s, by) = [k \in 1..Len(s) |-> s[f[k]]]
             /\ \A k, l \in 1..Len(s) : k < l => ~less(by, s[f[l]], s[f[k]])
<1> DEFINE D == 1..Len(s)
           R == {p \in D \X D : earlier(s, by, p[1], p[2])}
           f == [k \in D |-> CHOOSE i \in D : Cardinality(NoLater(D, R, i)) = k]
<1>1. Len(s) \in Nat /\ DOMAIN s = D /\ \A i \in D : s[i] \in Entries
  OBVIOUS
<1>2. IsFiniteSet(D) /\ Cardinality(D) = Len(s)
  BY <1>1, FirstNumbers
<1>3. \A i, j \in D : <<i, j>> \in R <=> earlier(s, by, i, j)
  OBVIOUS
<1> HIDE DEF R
<1>4. StrictOrder(D, R)
  <2>1. ASSUME NEW x \in D PROVE <<x, x>> \notin R
    BY <1>1, <1>3, LessIsWeakOrder DEF earlier
  <2>2. ASSUME NEW x \in D, NEW y \in D, NEW z \in D, <<x, y>> \in R, <<y, z>> \in R
        PROVE  <<x, z>> \in R
    <3>1. earlier(s, by, x, y) /\ earlier(s, by, y, z)
      BY <1>3, <2>2
    <3>2. ~less(by, s[y], s[x]) /\ ~less(by, s[z], s[y])
      BY <1>1, <3>1, LessIsWeakOrder DEF earlier
    <3>3. ~less(by, s[z], s[x])
      BY <1>1, <3>2, LessIsWeakOrder
    <3>4. CASE less(by, s[x], s[z])
      BY <1>3, <3>4 DEF earlier
    <3>5. CASE ~less(by, s[x], s[z])
      <4>1. ~less(by, s[x], s[y]) /\ ~less(by, s[y], s[z])
        BY <1>1, <3>2, <3>5, LessIsWeakOrder
      <4>2. x < y /\ y < z
        BY <3>1, <4>1 DEF earlier
      <4>3. x < z
        BY <1>1, <4>2
      <4> QED BY <1>3, <3>3, <4>3 DEF earlier
    <3> QED BY <3>4, <3>5
  <2>3. ASSUME NEW x \in D, NEW y \in D PROVE x = y \/ <<x, y>> \in R \/ <<y, x>> \in R
    <3>1. x < y \/ x = y \/ y < x
      BY <1>1
    <3> QED BY <1>3, <3>1 DEF earlier
  <2> HIDE DEF D
  <2> QED BY <2>1, <2>2, <2>3 DEF StrictOrder
<1>5. Sorted(s, by) = [k \in D |-> s[f[k]]]
  <2>1. \A i \in D : NoLater(D, R, i) = {j \in D : j = i \/ earlier(s, by, j, i)}
    BY <1>3 DEF NoLater
  <2> DEFINE place  == [i \in D |-> Cardinality({j \in D : j = i \/ earlier(s, by, j, i)})]
             place2 == [i \in D |-> Cardinality(NoLater(D, R, i))]
  <2>2. place = place2
    BY <2>1
  <2>3. Sorted(s, by) = [k \in D |-> s[CHOOSE i \in D : place[i] = k]]
    BY <1>1 DEF Sorted
  <2>4. ASSUME NEW k \in D PROVE f[k] = CHOOSE i \in D : place2[i] = k
    OBVIOUS
  <2> HIDE DEF place, place2, f, D
  <2>5. Sorted(s, by) = [k \in D |-> s[CHOOSE i \in D : place2[i] = k]]
    BY <2>2, <2>3
  <2>6. \A k \in D : s[f[k]] = s[CHOOSE i \in D : place2[i] = k]
    BY <2>4
  <2> QED BY <2>5, <2>6
<1>6. ASSUME NEW k \in D PROVE f[k] \in D /\ Cardinality(NoLater(D, R, f[k])) = k
  <2>1. f[k] = CHOOSE i \in D : Cardinality(NoLater(D, R, i)) = k
    OBVIOUS
  <2>2. \E i \in D : Cardinality(NoLater(D, R, i)) = k
    BY <1>2, <1>4, EachPlaceTaken
  <2> QED BY <2>1, <2>2
<1>7. f \in [D -> D]
  BY <1>6
<1> HIDE DEF f
<1>8. /\ f \in Bijection(D, D)
      /\ \A k, l \in D : k < l => <<f[k], f[l]>> \in R
  BY <1>2, <1>4, <1>6, <1>7, InPlace
<1>9. ASSUME NEW k \in D, NEW l \in D, k < l PROVE ~less(by, s[f[l]], s[f[k]])
  <2>1. earlier(s, by, f[k], f[l])
    BY <1>3, <1>6, <1>8, <1>9
  <2> QED BY <1>1, <1>6, <2>1, LessIsWeakOrder DEF earlier
<1> QED BY <1>5, <1>8, <1>9

-----------------------------------------------------------------------------
(* Where what FlattenSeq concatenates comes from: each element of each     *)
(* sequence has a place in the whole, in their order.                      *)
Spots(ss, n) == {p \in (1..n) \X Nat : p[2] \in 1..Len(ss[p[1]])}

Ahead(p, q) == p[1] < q[1] \/ (p[1] = q[1] /\ p[2] < q[2])

Spread(u, ss, n) ==
    \E h \in Bijection(1..Len(u), Spots(ss, n)) :
       /\ \A m \in 1..Len(u) : u[m] = ss[h[m][1]][h[m][2]]
       /\ \A m, l \in 1..Len(u) : m < l => Ahead(h[m], h[l])

(* One more sequence concatenated spreads one more.                        *)
LEMMA SpreadFurther ==
    ASSUME NEW S, NEW n \in Nat, NEW ss, \A i \in 1 .. n + 1 : ss[i] \in Seq(S),
           NEW u \in Seq(S), Spread(u, ss, n)
    PROVE  Spread(u \o ss[n + 1], ss, n + 1)
<1> DEFINE v == ss[n + 1]
           w == u \o v
<1>1. v \in Seq(S)
  BY n + 1 \in 1 .. n + 1
<1>0. PICK a \in Nat, b \in Nat : a = Len(u) /\ b = Len(v)
  BY <1>1
<1>2. /\ w \in Seq(S) /\ Len(w) = a + b
      /\ \A m \in 1 .. a + b : w[m] = IF m <= a THEN u[m] ELSE v[m - a]
  BY <1>0, <1>1, ConcatProperties
<1>3. PICK h \in Bijection(1..a, Spots(ss, n)) :
        /\ \A m \in 1..a : u[m] = ss[h[m][1]][h[m][2]]
        /\ \A m, l \in 1..a : m < l => Ahead(h[m], h[l])
  BY <1>0 DEF Spread
<1> DEFINE g == [m \in 1 .. a + b |-> IF m <= a THEN h[m] ELSE <<n + 1, m - a>>]
           P == Spots(ss, n + 1)
<1> HIDE DEF v, w
<1>4. /\ \A m \in 1..a : h[m] \in Spots(ss, n)
      /\ \A m, l \in 1..a : h[m] = h[l] => m = l
      /\ \A p \in Spots(ss, n) : \E m \in 1..a : h[m] = p
  BY <1>3, BijectionIs
<1>5. /\ \A p \in Spots(ss, n) : p \in P /\ p = <<p[1], p[2]>> /\ p[1] \in 1..n /\ p[1] # n + 1
      /\ \A k \in 1..b : <<n + 1, k>> \in P
      /\ \A p \in P : p \in Spots(ss, n) \/ (p[2] \in 1..b /\ p = <<n + 1, p[2]>>)
  <2>1. ASSUME NEW p \in Spots(ss, n)
        PROVE  p \in P /\ p = <<p[1], p[2]>> /\ p[1] \in 1..n /\ p[1] # n + 1
    BY DEF Spots
  <2>2. ASSUME NEW k \in 1..b PROVE <<n + 1, k>> \in P
    <3>1. n + 1 \in 1 .. n + 1 /\ k \in Nat
      BY <1>0
    <3> QED BY <1>0, <3>1 DEF Spots, v
  <2>3. ASSUME NEW p \in P PROVE p \in Spots(ss, n) \/ (p[2] \in 1..b /\ p = <<n + 1, p[2]>>)
    <3>1. /\ p[1] \in 1 .. n + 1 /\ p[2] \in Nat /\ p = <<p[1], p[2]>>
          /\ p \in (1 .. n + 1) \X Nat /\ p[2] \in 1..Len(ss[p[1]])
      BY DEF Spots
    <3>2. CASE p[1] = n + 1
      BY <1>0, <3>1, <3>2 DEF v
    <3>3. CASE p[1] # n + 1
      <4>1. p[1] \in 1..n /\ p \in (1..n) \X Nat
        BY <3>1, <3>3
      <4> QED BY <3>1, <4>1 DEF Spots
    <3> QED BY <3>2, <3>3
  <2> QED BY <2>1, <2>2, <2>3
<1> HIDE DEF P
<1>6. ASSUME NEW m \in 1 .. a + b
      PROVE  \/ m \in 1..a /\ g[m] = h[m]
             \/ m \notin 1..a /\ a < m /\ m - a \in 1..b /\ g[m] = <<n + 1, m - a>>
  BY <1>0
<1>7. g \in [1 .. a + b -> P]
  <2>1. ASSUME NEW m \in 1 .. a + b PROVE g[m] \in P
    <3> HIDE DEF g
    <3>1. CASE m \in 1..a /\ g[m] = h[m]
      BY <1>4, <1>5, <3>1
    <3>2. CASE m - a \in 1..b /\ g[m] = <<n + 1, m - a>>
      BY <1>5, <3>2
    <3> QED BY <1>6, <3>1, <3>2
  <2> QED BY <2>1
<1>8. ASSUME NEW m \in 1 .. a + b, NEW l \in 1 .. a + b, g[m] = g[l] PROVE m = l
  <2> HIDE DEF g
  <2>1. CASE m \in 1..a /\ l \in 1..a
    BY <1>4, <1>6, <1>8, <2>1
  <2>2. CASE m \in 1..a /\ l \notin 1..a
    BY <1>4, <1>5, <1>6, <1>8, <2>2
  <2>3. CASE m \notin 1..a /\ l \in 1..a
    BY <1>4, <1>5, <1>6, <1>8, <2>3
  <2>4. CASE m \notin 1..a /\ l \notin 1..a
    <3>1. g[m] = <<n + 1, m - a>> /\ g[l] = <<n + 1, l - a>>
      BY <1>6, <2>4
    <3>2. <<n + 1, m - a>> = <<n + 1, l - a>>
      BY <1>8, <3>1
    <3>3. m - a = l - a
      BY ONLY <3>2
    <3> QED BY <1>0, <3>3
  <2> QED BY <2>1, <2>2, <2>3, <2>4
<1>9. ASSUME NEW p \in P PROVE \E m \in 1 .. a + b : g[m] = p
  <2>1. CASE p \in Spots(ss, n)
    <3>1. PICK m \in 1..a : h[m] = p
      BY <1>4, <2>1
    <3>2. m \in 1 .. a + b /\ m <= a
      BY <1>0
    <3> QED BY <3>1, <3>2
  <2>2. CASE p[2] \in 1..b /\ p = <<n + 1, p[2]>>
    <3>1. PICK m \in 1 .. a + b : ~(m <= a) /\ m - a = p[2]
      <4> DEFINE m == a + p[2]
      <4>1. m \in 1 .. a + b /\ ~(m <= a) /\ m - a = p[2]
        BY <1>0, <2>2
      <4> HIDE DEF m
      <4> QED BY <4>1
    <3>2. g[m] = <<n + 1, p[2]>>
      BY <3>1
    <3> QED BY <2>2, <3>1, <3>2
  <2> QED BY <1>5, <2>1, <2>2
<1>10. g \in Bijection(1 .. a + b, P)
  <2> HIDE DEF g
  <2> QED BY <1>7, <1>8, <1>9, Fun_IsBij
<1>11. ASSUME NEW m \in 1 .. a + b PROVE w[m] = ss[g[m][1]][g[m][2]]
  <2>1. CASE m \in 1..a
    BY <1>0, <1>2, <1>3, <1>6, <2>1
  <2>2. CASE m \notin 1..a
    <3>1. g[m] = <<n + 1, m - a>> /\ ~(m <= a)
      BY <1>0, <1>6, <2>2
    <3>2. w[m] = v[m - a]
      BY <1>2, <3>1
    <3> QED BY <3>1, <3>2 DEF v
  <2> QED BY <2>1, <2>2
<1>12. ASSUME NEW m \in 1 .. a + b, NEW l \in 1 .. a + b, m < l PROVE Ahead(g[m], g[l])
  <2> HIDE DEF g
  <2>1. CASE m \in 1..a /\ l \in 1..a
    BY <1>3, <1>6, <1>12, <2>1
  <2>2. CASE m \in 1..a /\ l \notin 1..a
    <3>1. g[m][1] \in 1..n /\ g[l][1] = n + 1
      BY <1>4, <1>5, <1>6, <2>2
    <3>2. g[m][1] < g[l][1]
      BY <3>1
    <3> QED BY <3>2 DEF Ahead
  <2>3. CASE m \notin 1..a /\ l \in 1..a
    BY <1>0, <1>12, <2>3
  <2>4. CASE m \notin 1..a /\ l \notin 1..a
    <3>1. g[m] = <<n + 1, m - a>> /\ g[l] = <<n + 1, l - a>>
      BY <1>6, <2>4
    <3>2. m - a < l - a
      BY <1>0, <1>12
    <3> QED BY <3>1, <3>2 DEF Ahead
  <2> QED BY <2>1, <2>2, <2>3, <2>4
<1> HIDE DEF g
<1>13. Len(w) = a + b
  BY <1>2
<1> QED BY <1>10, <1>11, <1>12, <1>13 DEF Spread, P, v, w

(* So FlattenSeq has every element of every sequence once, in their order. *)
LEMMA FlattenSpreads ==
    ASSUME NEW S, NEW n \in Nat, NEW ss \in [1..n -> Seq(S)]
    PROVE  FlattenSeq(ss) \in Seq(S) /\ Spread(FlattenSeq(ss), ss, n)
<1> DEFINE f == CHOOSE g : Flattens(g, ss, n)
<1>1. Len(ss) = n /\ ss \in Seq(Seq(S)) /\ \A i \in 1..n : ss[i] \in Seq(S)
  OBVIOUS
<1>2. Flattens(f, ss, n)
  BY FlattensExists
<1>3. FlattenSeq(ss) = IF n = 0 THEN ss ELSE f[n]
  BY <1>1, FlattenIs
<1> HIDE DEF f
<1>4. \A i \in 1..n : f[i] = IF i = 1 THEN ss[i] ELSE f[i - 1] \o ss[i]
  BY <1>2 DEF Flattens
<1>5. Spread(<<>>, ss, 0)
  <2>1. Spots(ss, 0) = {} /\ 1..Len(<<>>) = {}
    BY DEF Spots
  <2>2. PICK h : h \in [{} -> {}]
    <3>1. [x \in {} |-> x] \in [{} -> {}]
      OBVIOUS
    <3> QED BY <3>1
  <2>3. h \in Bijection({}, {})
    BY <2>2, Fun_IsBij
  <2> QED BY <2>1, <2>3 DEF Spread
<1> DEFINE Odd == {i \in 1..n : ~(f[i] \in Seq(S) /\ Spread(f[i], ss, i))}
<1>6. Odd = {}
  <2>1. SUFFICES ASSUME Odd # {} PROVE FALSE
    OBVIOUS
  <2>2. PICK m \in Odd : \A l \in Odd : m <= l
    <3>1. Odd \in SUBSET Nat
      OBVIOUS
    <3> HIDE DEF Odd
    <3> QED BY <2>1, <3>1, Least
  <2>3. CASE m = 1
    <3>1. \A i \in 1 .. 0 + 1 : ss[i] \in Seq(S)
      BY <1>1, <2>3
    <3>2. <<>> \in Seq(S) /\ 0 + 1 = 1
      OBVIOUS
    <3>3. Spread(<<>> \o ss[0 + 1], ss, 0 + 1)
      BY <1>5, <3>1, <3>2, SpreadFurther
    <3>4. <<>> \o ss[1] = ss[1]
      BY <1>1, <2>3
    <3> QED BY <1>1, <1>4, <2>2, <2>3, <3>3, <3>4
  <2>4. CASE m # 1
    <3>1. m \in 1..n /\ m - 1 \in 1..n /\ m - 1 \in Nat /\ m - 1 + 1 = m /\ ~(m <= m - 1)
      BY <2>4
    <3>2. f[m - 1] \in Seq(S) /\ Spread(f[m - 1], ss, m - 1)
      BY <2>2, <3>1
    <3>3. \A i \in 1 .. m - 1 + 1 : ss[i] \in Seq(S)
      BY <1>1, <3>1
    <3>4. f[m] = f[m - 1] \o ss[m]
      BY <1>4, <2>4, <3>1
    <3>5. Spread(f[m - 1] \o ss[m - 1 + 1], ss, m - 1 + 1)
      <4> HIDE DEF Odd
      <4> QED BY <3>1, <3>2, <3>3, SpreadFurther
    <3>6. f[m] \in Seq(S)
      BY <1>1, <3>1, <3>2, <3>4, ConcatProperties
    <3> QED BY <2>2, <3>1, <3>4, <3>5, <3>6
  <2> QED BY <2>3, <2>4
<1>7. CASE n = 0
  <2>1. ss = <<>> /\ <<>> \in Seq(S)
    BY <1>1, <1>7
  <2> QED BY <1>3, <1>5, <1>7, <2>1
<1>8. CASE n # 0
  <2>1. n \in 1..n
    BY <1>8
  <2> QED BY <1>3, <1>6, <1>8, <2>1
<1> QED BY <1>7, <1>8

-----------------------------------------------------------------------------
(* A finite set of numbers has a greatest.                                 *)
LEMMA MaxIs ==
    ASSUME NEW S \in SUBSET Nat, NEW d \in S, \A y \in S : y <= d
    PROVE  Max(S) = d
<1> DEFINE P(x) == \A y \in S : x >= y
<1>1. d \in S /\ P(d)
  OBVIOUS
<1>2. \A x \in S : P(x) => x = d
  OBVIOUS
<1>3. Max(S) = CHOOSE x \in S : P(x)
  BY DEF Max
<1> HIDE DEF P
<1>4. (CHOOSE x \in S : P(x)) = d
  BY <1>1, <1>2
<1> QED BY <1>3, <1>4

LEMMA MaxOf ==
    ASSUME NEW S \in SUBSET Nat, IsFiniteSet(S), S # {}
    PROVE  Max(S) \in S /\ \A y \in S : y <= Max(S)
<1> DEFINE Above(x) == {y \in S : y > x}
           aboves == {Above(x) : x \in S}
<1>1. aboves \subseteq FiniteSubsetsOf(Nat) /\ aboves # {}
  <2>1. \A x \in S : Above(x) \in SUBSET S
    OBVIOUS
  <2> HIDE DEF Above
  <2>2. \A x \in S : Above(x) \in SUBSET Nat /\ IsFiniteSet(Above(x))
    BY <2>1, FS_Subset
  <2> QED BY <2>2 DEF FiniteSubsetsOf
<1>2. IsWellFoundedOn(StrictSubsetOrdering(Nat), FiniteSubsetsOf(Nat))
  BY FS_StrictSubsetOrderingWellFounded
<1> HIDE DEF aboves
<1>3. \E A \in aboves : \A B \in aboves : ~(<<B, A>> \in StrictSubsetOrdering(Nat))
  BY <1>1, <1>2, WFMin
<1>4. PICK x \in S : \A y \in S : ~(<<Above(y), Above(x)>> \in StrictSubsetOrdering(Nat))
  BY <1>3 DEF aboves
<1>5. ASSUME NEW y \in S, y > x PROVE FALSE
  <2>0. S \subseteq Nat /\ x \in Nat /\ y \in Nat
    OBVIOUS
  <2>1. \A z \in S : z \in Nat /\ (z > y => z > x) /\ ~(y > y)
    BY <1>5, <2>0
  <2>3. Above(y) \subseteq Above(x) /\ y \in Above(x) /\ y \notin Above(y)
    BY <1>5, <2>1
  <2>2. <<Above(y), Above(x)>> \in (SUBSET Nat) \X (SUBSET Nat)
    OBVIOUS
  <2> HIDE DEF Above
  <2> QED BY <1>4, <2>2, <2>3 DEF StrictSubsetOrdering
<1>6. \A y \in S : y <= x
  <2> HIDE DEF Above
  <2>1. S \subseteq Nat /\ x \in Nat
    OBVIOUS
  <2> QED BY <1>5, <2>1
<1>7. Max(S) = x
  BY <1>6, MaxIs
<1> QED BY <1>6, <1>7

LEMMA WrapsAround ==
    ASSUME NEW n \in Nat \ {0}, NEW p \in 0..(n-1)
    PROVE  (p + 1) % n = IF p + 1 = n THEN 0 ELSE p + 1
  BY SMTT(30)

(* The positions just behind a position of a rotation of n, m of them.     *)
Behind(p, m, n) == {x \in 0..(n-1) : IF x < p THEN p - x <= m ELSE p + n - x <= m}

LEMMA BehindMoves ==
    ASSUME NEW n \in Nat \ {0}, NEW p \in 0..(n-1), NEW m \in 0..(n-1)
    PROVE  LET q == IF p + 1 = n THEN 0 ELSE p + 1
           IN  /\ Behind(q, 0, n) = {}
               /\ p \notin Behind(p, m, n)
               /\ Behind(p, m, n) \cup {p} = Behind(q, m + 1, n)
               /\ m + 1 = n => Behind(q, m + 1, n) = 0..(n-1)
  BY DEF Behind

-----------------------------------------------------------------------------
(* The expansion of a combo (expand.go).                                   *)
Stocked(t) == DOMAIN t \subseteq Names /\ \A n \in DOMAIN t : IsCombo(t[n])

(* Chains that end at a stored combo.                                      *)
Ending(t) == {chain \in Seq(Names) : chain # <<>> /\ Last(chain) \in DOMAIN t}

LEMMA ChainsGrow ==
    ASSUME NEW t, Stocked(t), NEW chain \in Seq(Names), NEW n \in DOMAIN t
    PROVE  /\ Append(chain, n) \in Ending(t)
           /\ Len(Append(chain, n)) = Len(chain) + 1
<1>1. n \in Names
  BY DEF Stocked
<1>2. /\ Append(chain, n) \in Seq(Names) /\ Len(Append(chain, n)) = Len(chain) + 1
      /\ Append(chain, n)[Len(chain) + 1] = n
  BY <1>1, AppendProperties
<1>3. Len(chain) + 1 # 0 /\ Append(chain, n) # <<>>
  BY <1>1
<1> QED BY <1>2, <1>3 DEF Ending, Last

-----------------------------------------------------------------------------
(* What a step names is spread into entries (expand.go).                   *)
Named(s) == {pair \in Catalog : \/ s.kind = "model" /\ pair[2] = s.ref
                                \/ s.kind = "provider-wildcard" /\ pair[1] = s.ref}

Targets(es) == {<<e.provider, e.model>> : e \in ToSet(es)}
Offers(es)  == {<<e.step, <<e.provider, e.model>>>> : e \in ToSet(es)}

(* FlattenSeq holds what its sequences hold.                               *)
LEMMA FlattenHolds ==
    ASSUME NEW S, NEW n \in Nat, NEW ss \in [1..n -> Seq(S)]
    PROVE  ToSet(FlattenSeq(ss)) = UNION {ToSet(ss[i]) : i \in 1..n}
<1> DEFINE u == FlattenSeq(ss)
<1>1. u \in Seq(S) /\ Spread(u, ss, n)
  BY FlattenSpreads
<1> HIDE DEF u
<1>2. PICK h \in Bijection(1..Len(u), Spots(ss, n)) :
        \A m \in 1..Len(u) : u[m] = ss[h[m][1]][h[m][2]]
  BY <1>1 DEF Spread
<1>3. /\ \A m \in 1..Len(u) : h[m] \in Spots(ss, n)
      /\ \A p \in Spots(ss, n) : \E m \in 1..Len(u) : h[m] = p
  BY <1>2, BijectionIs
<1>4. ASSUME NEW x \in ToSet(u) PROVE \E i \in 1..n : x \in ToSet(ss[i])
  <2>1. PICK m \in 1..Len(u) : x = u[m]
    BY <1>1 DEF ToSet
  <2>2. h[m][1] \in 1..n /\ h[m][2] \in 1..Len(ss[h[m][1]])
    BY <1>3 DEF Spots
  <2>3. DOMAIN ss[h[m][1]] = 1..Len(ss[h[m][1]])
    BY <2>2
  <2> QED BY <1>2, <2>1, <2>2, <2>3 DEF ToSet
<1>5. ASSUME NEW i \in 1..n, NEW x \in ToSet(ss[i]) PROVE x \in ToSet(u)
  <2>1. PICK k \in 1..Len(ss[i]) : x = ss[i][k]
    <3>1. ss[i] \in Seq(S)
      OBVIOUS
    <3> QED BY <3>1 DEF ToSet
  <2>2. <<i, k>> \in Spots(ss, n)
    BY DEF Spots
  <2>3. PICK m \in 1..Len(u) : h[m] = <<i, k>>
    BY <1>3, <2>2
  <2>4. u[m] = x
    <3>1. h[m][1] = i /\ h[m][2] = k
      BY <2>3
    <3>2. u[m] = ss[h[m][1]][h[m][2]]
      BY <1>2
    <3> QED BY ONLY <2>1, <3>1, <3>2
  <2> QED BY <1>1, <2>4 DEF ToSet
<1> QED BY <1>4, <1>5 DEF u

(* A model is offered by each provider that declares it, a wildcard offers *)
(* each model of its provider.                                             *)
LEMMA SpreadsModel ==
    ASSUME NEW i \in Nat, NEW s, s.weight \in Nat, s.allowed \in Seq(Nat)
    PROVE  /\ SpreadModel(i, s) \in Seq(Entries)
           /\ Offers(SpreadModel(i, s)) = {i} \X {c \in Catalog : c[2] = s.ref}
<1> DEFINE T == {p \in Providers : Declares(p, s.ref)}
           ps == Ordered(T)
           es == SpreadModel(i, s)
<1>1. Providers \subseteq Nat /\ Models \subseteq Nat /\ Catalog \subseteq Providers \X Models
      /\ IsFiniteSet(Providers)
  BY CatalogAssumption
<1>2. T \in SUBSET Int /\ IsFiniteSet(T)
  <2>1. T \in SUBSET Providers
    OBVIOUS
  <2> HIDE DEF T
  <2>2. T \in SUBSET Int
    BY <1>1, <2>1
  <2>3. IsFiniteSet(T)
    BY <1>1, <2>1, FS_Subset
  <2> QED BY <2>2, <2>3
<1>3. \A p \in T : p \in Nat /\ s.ref \in Nat /\ <<p, s.ref>> \in Catalog
  BY <1>1 DEF Declares
<1>4. ASSUME NEW c \in Catalog PROVE c = <<c[1], c[2]>> /\ (c[2] = s.ref => c[1] \in T)
  <2>1. c \in Providers \X Models
    BY <1>1
  <2>2. c = <<c[1], c[2]>> /\ c[1] \in Providers /\ c[2] \in Models
    BY <2>1
  <2> QED BY <2>2 DEF Declares
<1>5. es = [k \in DOMAIN ps |-> Entry(i, s, ps[k], s.ref)]
  BY DEF SpreadModel
<1> HIDE DEF T, es
<1>6. PICK n \in Nat : DOMAIN ps = 1..n /\ ps \in Bijection(1..n, T)
  BY <1>2, OrderedLists
<1> HIDE DEF ps
<1>7. (\A k \in 1..n : ps[k] \in T) /\ \A p \in T : \E k \in 1..n : ps[k] = p
  BY <1>6, BijectionIs
<1>8. /\ DOMAIN es = 1..n
      /\ \A k \in 1..n : es[k] = Entry(i, s, ps[k], s.ref) /\ es[k] \in Entries
                         /\ es[k].step = i /\ es[k].provider = ps[k] /\ es[k].model = s.ref
  BY <1>3, <1>5, <1>6, <1>7 DEF Entry, Entries
<1>9. es \in Seq(Entries)
  BY <1>5, <1>6, <1>8
<1>10. ASSUME NEW o \in Offers(es) PROVE o \in {i} \X {c \in Catalog : c[2] = s.ref}
  <2>1. PICK k \in 1..n : o = <<es[k].step, <<es[k].provider, es[k].model>>>>
    BY <1>8 DEF Offers, ToSet
  <2> QED BY <1>3, <1>7, <1>8, <2>1
<1>11. ASSUME NEW o \in {i} \X {c \in Catalog : c[2] = s.ref} PROVE o \in Offers(es)
  <2>1. PICK c \in Catalog : c[2] = s.ref /\ o = <<i, c>>
    OBVIOUS
  <2>2. PICK k \in 1..n : ps[k] = c[1]
    BY <1>4, <1>7, <2>1
  <2>3. o = <<es[k].step, <<es[k].provider, es[k].model>>>> /\ es[k] \in ToSet(es)
    BY <1>4, <1>8, <2>1, <2>2 DEF ToSet
  <2> QED BY <2>3 DEF Offers
<1> QED BY <1>9, <1>10, <1>11 DEF es

LEMMA SpreadsProvider ==
    ASSUME NEW i \in Nat, NEW s, s.weight \in Nat, s.allowed \in Seq(Nat)
    PROVE  /\ SpreadProvider(i, s) \in Seq(Entries)
           /\ Offers(SpreadProvider(i, s)) = {i} \X {c \in Catalog : c[1] = s.ref}
<1> DEFINE T == {m \in Models : Declares(s.ref, m)}
           ms == Ordered(T)
           es == SpreadProvider(i, s)
<1>1. Providers \subseteq Nat /\ Models \subseteq Nat /\ Catalog \subseteq Providers \X Models
      /\ IsFiniteSet(Models)
  BY CatalogAssumption
<1>2. T \in SUBSET Int /\ IsFiniteSet(T)
  <2>1. T \in SUBSET Models
    OBVIOUS
  <2> HIDE DEF T
  <2>2. T \in SUBSET Int
    BY <1>1, <2>1
  <2>3. IsFiniteSet(T)
    BY <1>1, <2>1, FS_Subset
  <2> QED BY <2>2, <2>3
<1>3. \A m \in T : m \in Nat /\ s.ref \in Nat /\ <<s.ref, m>> \in Catalog
  BY <1>1 DEF Declares
<1>4. ASSUME NEW c \in Catalog PROVE c = <<c[1], c[2]>> /\ (c[1] = s.ref => c[2] \in T)
  <2>1. c \in Providers \X Models
    BY <1>1
  <2>2. c = <<c[1], c[2]>> /\ c[1] \in Providers /\ c[2] \in Models
    BY <2>1
  <2> QED BY <2>2 DEF Declares
<1>5. es = [k \in DOMAIN ms |-> Entry(i, s, s.ref, ms[k])]
  BY DEF SpreadProvider
<1> HIDE DEF T, es
<1>6. PICK n \in Nat : DOMAIN ms = 1..n /\ ms \in Bijection(1..n, T)
  BY <1>2, OrderedLists
<1> HIDE DEF ms
<1>7. (\A k \in 1..n : ms[k] \in T) /\ \A m \in T : \E k \in 1..n : ms[k] = m
  BY <1>6, BijectionIs
<1>8. /\ DOMAIN es = 1..n
      /\ \A k \in 1..n : es[k] = Entry(i, s, s.ref, ms[k]) /\ es[k] \in Entries
                         /\ es[k].step = i /\ es[k].provider = s.ref /\ es[k].model = ms[k]
  BY <1>3, <1>5, <1>6, <1>7 DEF Entry, Entries
<1>9. es \in Seq(Entries)
  BY <1>5, <1>6, <1>8
<1>10. ASSUME NEW o \in Offers(es) PROVE o \in {i} \X {c \in Catalog : c[1] = s.ref}
  <2>1. PICK k \in 1..n : o = <<es[k].step, <<es[k].provider, es[k].model>>>>
    BY <1>8 DEF Offers, ToSet
  <2> QED BY <1>3, <1>7, <1>8, <2>1
<1>11. ASSUME NEW o \in {i} \X {c \in Catalog : c[1] = s.ref} PROVE o \in Offers(es)
  <2>1. PICK c \in Catalog : c[1] = s.ref /\ o = <<i, c>>
    OBVIOUS
  <2>2. PICK k \in 1..n : ms[k] = c[2]
    BY <1>4, <1>7, <2>1
  <2>3. o = <<es[k].step, <<es[k].provider, es[k].model>>>> /\ es[k] \in ToSet(es)
    BY <1>4, <1>8, <2>1, <2>2 DEF ToSet
  <2> QED BY <2>3 DEF Offers
<1> QED BY <1>9, <1>10, <1>11 DEF es

(* What a step comes to, from what the combos referred to come to.         *)
Reached(s, below) == IF s.kind = "combo-ref" THEN Targets(below[s.ref].entries)
                     ELSE Named(s)

LEMMA OffersTarget == ASSUME NEW es PROVE Targets(es) = {o[2] : o \in Offers(es)}
<1>1. \A e : <<e.step, <<e.provider, e.model>>>>[2] = <<e.provider, e.model>>
  OBVIOUS
<1> QED BY <1>1, Zenon DEF Targets, Offers

(* A combo that is referred to offers its targets at the step that does.   *)
AtStep(e, i, w) == [e EXCEPT !.step = i, !.weight = w]

(* Re-stamped entries are entries and name the same targets.               *)
LEMMA NestedOffers ==
    ASSUME NEW es \in Seq(Entries), NEW i \in Nat, NEW w \in Nat, NEW xs,
           xs = [k \in DOMAIN es |-> AtStep(es[k], i, w)]
    PROVE  xs \in Seq(Entries) /\ Offers(xs) = {i} \X Targets(es)
<1> DEFINE x(e) == AtStep(e, i, w)
<1> HIDE DEF x
<1>1. PICK n \in Nat : n = Len(es) /\ DOMAIN es = 1..n /\ \A k \in 1..n : es[k] \in Entries
  <2>1. Len(es) \in Nat /\ DOMAIN es = 1..Len(es) /\ \A k \in 1..Len(es) : es[k] \in Entries
    BY LenProperties
  <2> QED BY <2>1
<1>2. ASSUME NEW e \in Entries
      PROVE  /\ x(e) \in Entries /\ x(e).step = i
             /\ x(e).provider = e.provider /\ x(e).model = e.model
  BY DEF Entries, AtStep, x
<1>3. xs = [k \in 1..n |-> x(es[k])]
  BY <1>1 DEF x
<1>4. xs \in [1..n -> Entries]
  BY <1>1, <1>2, <1>3
<1>5. ASSUME NEW k \in 1..n
      PROVE  xs[k].step = i /\ xs[k].provider = es[k].provider /\ xs[k].model = es[k].model
  <2>1. xs[k] = x(es[k]) /\ es[k] \in Entries
    BY <1>1, <1>3
  <2> QED BY <1>2, <2>1
<1>6. ASSUME NEW o \in Offers(xs) PROVE o \in {i} \X Targets(es)
  <2>1. PICK e \in ToSet(xs) : o = <<e.step, <<e.provider, e.model>>>>
    BY DEF Offers
  <2>2. PICK k \in 1..n : e = xs[k]
    BY <1>4, <2>1 DEF ToSet
  <2>3. es[k] \in ToSet(es)
    BY <1>1 DEF ToSet
  <2>4. <<es[k].provider, es[k].model>> \in Targets(es)
    BY <2>3 DEF Targets
  <2>5. o = <<i, <<es[k].provider, es[k].model>>>>
    BY <1>5, <2>1, <2>2
  <2> QED BY <2>4, <2>5
<1>7. ASSUME NEW o \in {i} \X Targets(es) PROVE o \in Offers(xs)
  <2>1. PICK e \in ToSet(es) : o = <<i, <<e.provider, e.model>>>>
    <3>1. PICK c \in Targets(es) : o = <<i, c>>
      OBVIOUS
    <3> QED BY <3>1 DEF Targets
  <2>2. PICK k \in 1..n : e = es[k]
    BY <1>1, <2>1 DEF ToSet
  <2>3. xs[k] \in ToSet(xs)
    BY <1>4 DEF ToSet
  <2>4. o = <<xs[k].step, <<xs[k].provider, xs[k].model>>>>
    BY <1>5, <2>1, <2>2
  <2> QED BY <2>3, <2>4 DEF Offers
<1>8. xs \in Seq(Entries)
  BY <1>4
<1>9. Offers(xs) = {i} \X Targets(es)
  BY <1>6, <1>7
<1> QED BY <1>8, <1>9

(* One level of the expansion yields entries: for each step what it        *)
(* reaches.                                                                *)
LEMMA ExpandsToEntries ==
    ASSUME NEW t, Stocked(t), NEW chain \in Ending(t), NEW below,
           \A n \in DOMAIN t : below[n].entries \in Seq(Entries)
    PROVE  LET x     == ExpandChain(t, chain, below)
               steps == t[Last(chain)].steps
           IN  /\ x.entries \in Seq(Entries)
               /\ ~x.refused => Offers(x.entries) =
                     UNION {{i} \X Reached(steps[i], below) : i \in DOMAIN steps}
<1> DEFINE steps == t[Last(chain)].steps
           fails(s) == \/ s.kind = "provider-wildcard" /\ s.ref \notin Providers
                       \/ s.kind = "combo-ref"
                          /\ (s.ref \notin DOMAIN t \/ below[s.ref].refused)
           nested(i, s) == [k \in DOMAIN below[s.ref].entries |->
                               [below[s.ref].entries[k] EXCEPT !.step = i, !.weight = s.weight]]
           of(i) ==
               CASE steps[i].kind = "model"             -> SpreadModel(i, steps[i])
                 [] steps[i].kind = "provider-wildcard" -> SpreadProvider(i, steps[i])
                 [] steps[i].kind = "combo-ref"         -> nested(i, steps[i])
           barred == \/ TooDeep(chain)
                      \/ Last(chain) \in ToSet(Front(chain))
                      \/ \E s \in ToSet(steps) : fails(s)
           spread == [i \in DOMAIN steps |-> of(i)]
           all    == UNION {{i} \X Reached(steps[i], below) : i \in DOMAIN steps}
<1>1. ExpandChain(t, chain, below) = IF barred THEN [refused |-> TRUE, entries |-> <<>>]
                                     ELSE [refused |-> FALSE, entries |-> FlattenSeq(spread)]
  BY DEF ExpandChain
<1>2. <<>> \in Seq(Entries)
  OBVIOUS
<1>3. /\ steps \in Seq(ToSet(steps))
      /\ \A i \in DOMAIN steps : /\ steps[i] \in ToSet(steps) /\ steps[i].kind \in StepKinds
                                 /\ steps[i].weight \in Nat /\ steps[i].allowed \in Seq(Nat)
  <2>1. IsCombo(t[Last(chain)])
    BY DEF Stocked, Ending
  <2> QED BY <2>1 DEF IsCombo, IsStep, ToSet
<1>4. ASSUME ~barred, NEW i \in DOMAIN steps
      PROVE  of(i) \in Seq(Entries) /\ Offers(of(i)) = {i} \X Reached(steps[i], below)
  <2> DEFINE s == steps[i]
  <2>0. i \in Nat /\ s.weight \in Nat /\ s.allowed \in Seq(Nat) /\ s \in ToSet(steps)
    BY <1>3
  <2>1. CASE s.kind = "model"
    <3>1. of(i) = SpreadModel(i, s)
      BY <2>1
    <3>2. Reached(s, below) = {c \in Catalog : c[2] = s.ref}
      BY <2>1 DEF Reached, Named
    <3> HIDE DEF of, s
    <3> QED BY <2>0, <3>1, <3>2, SpreadsModel DEF s
  <2>2. CASE s.kind = "provider-wildcard"
    <3>1. of(i) = SpreadProvider(i, s)
      BY <2>2
    <3>2. Reached(s, below) = {c \in Catalog : c[1] = s.ref}
      BY <2>2 DEF Reached, Named
    <3> HIDE DEF of, s
    <3> QED BY <2>0, <3>1, <3>2, SpreadsProvider DEF s
  <2>3. CASE s.kind = "combo-ref"
    <3>1. s.ref \in DOMAIN t
      BY <1>4, <2>0, <2>3
    <3> DEFINE es == below[s.ref].entries
    <3>2. es \in Seq(Entries)
      BY <3>1
    <3>3. of(i) = [k \in DOMAIN es |-> [es[k] EXCEPT !.step = i, !.weight = s.weight]]
      BY <2>3
    <3>4. Reached(s, below) = Targets(es)
      BY <2>3 DEF Reached
    <3> HIDE DEF of, es
    <3>5. of(i) \in Seq(Entries) /\ Offers(of(i)) = {i} \X Targets(es)
      <4> DEFINE w == s.weight
                 xs == of(i)
      <4>1. w \in Nat /\ xs = [k \in DOMAIN es |-> AtStep(es[k], i, w)]
        BY <2>0, <3>3 DEF AtStep
      <4> HIDE DEF w, xs, s
      <4>2. xs \in Seq(Entries) /\ Offers(xs) = {i} \X Targets(es)
        BY <2>0, <3>2, <4>1, NestedOffers
      <4> QED BY <4>2 DEF xs
    <3> QED BY <3>4, <3>5
  <2> HIDE DEF of
  <2> QED BY <1>3, <2>1, <2>2, <2>3 DEF StepKinds
<1>5. ASSUME ~barred PROVE FlattenSeq(spread) \in Seq(Entries) /\ Offers(FlattenSeq(spread)) = all
  <2>1. PICK n \in Nat : DOMAIN steps = 1..n
    BY <1>3
  <2>2. spread \in [1..n -> Seq(Entries)] /\ \A i \in 1..n : spread[i] = of(i)
    <3>1. \A i \in 1..n : spread[i] = of(i) /\ of(i) \in Seq(Entries)
      BY <1>4, <1>5, <2>1
    <3>2. DOMAIN spread = 1..n /\ spread = [i \in DOMAIN spread |-> spread[i]]
      <4> HIDE DEF of, steps
      <4> QED BY <2>1
    <3> HIDE DEF spread, of
    <3> QED BY <3>1, <3>2
  <2>3. \A i \in 1..n : Offers(spread[i]) = {i} \X Reached(steps[i], below)
    <3>1. ASSUME NEW i \in 1..n PROVE Offers(spread[i]) = {i} \X Reached(steps[i], below)
      <4>1. spread[i] = of(i) /\ i \in DOMAIN steps
        BY <2>1, <2>2
      <4>2. Offers(of(i)) = {i} \X Reached(steps[i], below)
        BY <1>4, <1>5, <4>1
      <4> HIDE DEF spread, of
      <4> QED BY <4>1, <4>2
    <3> QED BY <3>1
  <2>4. all = UNION {{i} \X Reached(steps[i], below) : i \in 1..n}
    BY <2>1
  <2> HIDE DEF spread, all, of, barred
  <2>5. /\ FlattenSeq(spread) \in Seq(Entries)
        /\ ToSet(FlattenSeq(spread)) = UNION {ToSet(spread[i]) : i \in 1..n}
    BY <2>2, FlattenSpreads, FlattenHolds
  <2>6. Offers(FlattenSeq(spread)) = UNION {Offers(spread[i]) : i \in 1..n}
    BY <2>5 DEF Offers
  <2>7. UNION {Offers(spread[i]) : i \in 1..n}
          = UNION {{i} \X Reached(steps[i], below) : i \in 1..n}
    <3> DEFINE reach(i) == {i} \X Reached(steps[i], below)
    <3>1. \A i \in 1..n : Offers(spread[i]) = reach(i)
      BY <2>3
    <3> HIDE DEF reach
    <3>2. UNION {Offers(spread[i]) : i \in 1..n} = UNION {reach(i) : i \in 1..n}
      BY <3>1
    <3> QED BY <3>2 DEF reach
  <2> QED BY <2>4, <2>5, <2>6, <2>7
<1> HIDE DEF barred, spread, all
<1>6. CASE barred
  BY <1>1, <1>2, <1>6
<1>7. CASE ~barred
  <2>1. ExpandChain(t, chain, below).entries = FlattenSeq(spread)
    BY <1>1, <1>7
  <2> QED BY <1>5, <1>7, <2>1 DEF all
<1> QED BY <1>6, <1>7

(* Expand is a recursion over chains, which ends since long ones are       *)
(* refused unseen. A function that follows it from a length on can be      *)
(* extended to chains one shorter.                                         *)
Expands(t, f, chain) == ExpandChain(t, chain, [n \in DOMAIN t |-> f[Append(chain, n)]])
Follows(t, f, l) ==
    f = [chain \in Seq(Names) |-> IF Len(chain) >= l THEN Expands(t, f, chain) ELSE <<>>]

LEMMA FollowsFromCap == ASSUME NEW t PROVE \E f : Follows(t, f, MaxDepth + 2)
<1> DEFINE no == [refused |-> TRUE, entries |-> <<>>]
           f  == [chain \in Seq(Names) |-> IF Len(chain) >= MaxDepth + 2 THEN no ELSE <<>>]
           h  == [chain \in Seq(Names) |->
                    IF Len(chain) >= MaxDepth + 2 THEN Expands(t, f, chain) ELSE <<>>]
<1>1. ASSUME NEW chain \in Seq(Names), Len(chain) >= MaxDepth + 2
      PROVE  Expands(t, f, chain) = no
  <2>1. Len(chain) \in Nat /\ MaxDepth \in Nat
    BY CatalogAssumption
  <2>2. TooDeep(chain)
    BY <1>1, <2>1 DEF TooDeep
  <2> HIDE DEF f
  <2> QED BY <2>2 DEF Expands, ExpandChain
<1>2. f = h
  <2> HIDE DEF no
  <2>1. \A chain \in Seq(Names) : f[chain] = h[chain]
    BY <1>1
  <2> QED BY <2>1
<1>3. Follows(t, f, MaxDepth + 2)
  <2> HIDE DEF f
  <2> QED BY <1>2 DEF Follows
<1> QED BY <1>3

LEMMA FollowsFurther ==
    ASSUME NEW t, Stocked(t), NEW l \in Nat, NEW f, Follows(t, f, l + 1)
    PROVE  \E g : Follows(t, g, l)
<1> DEFINE g == [chain \in Seq(Names) |->
                    IF Len(chain) >= l THEN Expands(t, f, chain) ELSE <<>>]
           h == [chain \in Seq(Names) |->
                    IF Len(chain) >= l THEN Expands(t, g, chain) ELSE <<>>]
<1>1. \A chain \in Seq(Names) :
        f[chain] = IF Len(chain) >= l + 1 THEN Expands(t, f, chain) ELSE <<>>
  BY DEF Follows
<1>2. \A chain \in Seq(Names) :
        g[chain] = IF Len(chain) >= l THEN Expands(t, f, chain) ELSE <<>>
  OBVIOUS
<1>3. ASSUME NEW chain \in Seq(Names), Len(chain) >= l
      PROVE  Expands(t, f, chain) = Expands(t, g, chain)
  <2>1. ASSUME NEW n \in DOMAIN t PROVE f[Append(chain, n)] = g[Append(chain, n)]
    <3>1. /\ Append(chain, n) \in Seq(Names) /\ Len(Append(chain, n)) = Len(chain) + 1
          /\ Len(chain) \in Nat
      BY ChainsGrow DEF Ending
    <3>2. Len(Append(chain, n)) >= l + 1 /\ Len(Append(chain, n)) >= l
      BY <1>3, <3>1
    <3> HIDE DEF g
    <3> QED BY <1>1, <1>2, <3>1, <3>2
  <2> HIDE DEF g
  <2>2. [n \in DOMAIN t |-> f[Append(chain, n)]] = [n \in DOMAIN t |-> g[Append(chain, n)]]
    BY <2>1
  <2> QED BY <2>2 DEF Expands
<1>4. g = h
  <2>1. \A chain \in Seq(Names) : g[chain] = h[chain]
    BY <1>3
  <2> QED BY <2>1
<1>5. Follows(t, g, l)
  <2> HIDE DEF g
  <2> QED BY <1>4 DEF Follows
<1> QED BY <1>5

LEMMA FollowsExists == ASSUME NEW t, Stocked(t) PROVE \E f : Follows(t, f, 0)
<1> DEFINE Missing == {k \in 0..(MaxDepth + 2) : ~\E f : Follows(t, f, MaxDepth + 2 - k)}
<1>1. MaxDepth \in Nat
  BY CatalogAssumption
<1>2. Missing = {}
  <2>1. SUFFICES ASSUME Missing # {} PROVE FALSE
    OBVIOUS
  <2>2. PICK k \in Missing : \A j \in Missing : k <= j
    <3>1. Missing \in SUBSET Nat
      BY <1>1
    <3> HIDE DEF Missing
    <3> QED BY <2>1, <3>1, Least
  <2>3. k # 0
    <3>1. MaxDepth + 2 - 0 = MaxDepth + 2
      BY <1>1
    <3> QED BY <2>2, <3>1, FollowsFromCap
  <2>4. /\ k - 1 \in 0..(MaxDepth + 2) /\ k - 1 \notin Missing
        /\ MaxDepth + 2 - k \in Nat /\ MaxDepth + 2 - (k - 1) = MaxDepth + 2 - k + 1
    BY <1>1, <2>2, <2>3
  <2>5. PICK f : Follows(t, f, MaxDepth + 2 - (k - 1))
    BY <2>4
  <2>6. \E g : Follows(t, g, MaxDepth + 2 - k)
    BY <2>4, <2>5, FollowsFurther
  <2> QED BY <2>2, <2>6
<1>3. MaxDepth + 2 \in 0..(MaxDepth + 2) /\ MaxDepth + 2 - (MaxDepth + 2) = 0
  BY <1>1
<1> QED BY <1>2, <1>3

(* So the expansion of a stored combo is one.                              *)
Wide(t, g) == \A chain \in Seq(Names) : g[chain] = Expands(t, g, chain)

LEMMA ExpandIs ==
    ASSUME NEW t, Stocked(t)
    PROVE  \E g : Wide(t, g) /\ \A name : Expand(t, name) = g[<<name>>]
<1> DEFINE Whole(g) == g = [chain \in Seq(Names) |->
                      ExpandChain(t, chain, [n \in DOMAIN t |-> g[Append(chain, n)]])]
           f == CHOOSE g : Whole(g)
<1>1. \E g : Whole(g)
  <2>1. PICK g : Follows(t, g, 0)
    BY FollowsExists
  <2>2. \A chain \in Seq(Names) : Len(chain) >= 0
    OBVIOUS
  <2>3. g = [chain \in Seq(Names) |-> Expands(t, g, chain)]
    BY <2>1, <2>2 DEF Follows
  <2> QED BY <2>3 DEF Expands
<1>2. \A name : Expand(t, name) = f[<<name>>]
  BY DEF Expand
<1>3. Whole(f)
  BY <1>1
<1> HIDE DEF f
<1>4. Wide(t, f)
  BY <1>3 DEF Wide, Expands
<1> QED BY <1>2, <1>4

(* So the expansions of the chains to stored combos are entries.           *)
Gathered(t, g, chain) ==
    LET steps == t[Last(chain)].steps
        below == [n \in DOMAIN t |-> g[Append(chain, n)]]
    IN  UNION {{i} \X Reached(steps[i], below) : i \in DOMAIN steps}

LEMMA WideEntries ==
    ASSUME NEW t, Stocked(t), NEW g, Wide(t, g)
    PROVE  \A chain \in Ending(t) :
             /\ g[chain].entries \in Seq(Entries)
             /\ ~g[chain].refused => Offers(g[chain].entries) = Gathered(t, g, chain)
<1> DEFINE below(chain) == [n \in DOMAIN t |-> g[Append(chain, n)]]
           Odd == {k \in Nat : \E chain \in Ending(t) :
                      /\ Len(chain) + k >= MaxDepth + 2
                      /\ g[chain].entries \notin Seq(Entries)}
<1>1. MaxDepth \in Nat
  BY CatalogAssumption
<1>2. ASSUME NEW chain \in Ending(t)
      PROVE  /\ chain \in Seq(Names) /\ Len(chain) \in Nat
             /\ g[chain] = ExpandChain(t, chain, below(chain))
  BY DEF Ending, Wide, Expands
<1>3. Odd = {}
  <2>1. SUFFICES ASSUME Odd # {} PROVE FALSE
    OBVIOUS
  <2>2. PICK k \in Odd : \A j \in Odd : k <= j
    <3>1. Odd \in SUBSET Nat
      OBVIOUS
    <3> HIDE DEF Odd
    <3> QED BY <2>1, <3>1, Least
  <2>3. PICK chain \in Ending(t) :
          Len(chain) + k >= MaxDepth + 2 /\ g[chain].entries \notin Seq(Entries)
    BY <2>2
  <2>4. k # 0
    <3>1. SUFFICES ASSUME k = 0 PROVE FALSE
      OBVIOUS
    <3>2. TooDeep(chain)
      BY <1>1, <1>2, <2>3, <3>1 DEF TooDeep
    <3>3. g[chain] = [refused |-> TRUE, entries |-> <<>>]
      <4> HIDE DEF below
      <4> QED BY <1>2, <3>2 DEF ExpandChain
    <3>4. g[chain].entries = <<>> /\ <<>> \in Seq(Entries)
      BY <3>3
    <3> QED BY <2>3, <3>4
  <2>5. k - 1 \in Nat /\ k - 1 \notin Odd
    <3>1. k \in Nat
      OBVIOUS
    <3>2. k - 1 \in Nat /\ ~(k <= k - 1)
      BY <2>4, <3>1
    <3> HIDE DEF Odd
    <3> QED BY <2>2, <3>2
  <2>6. ASSUME NEW n \in DOMAIN t PROVE below(chain)[n].entries \in Seq(Entries)
    <3>1. /\ Append(chain, n) \in Ending(t) /\ Len(Append(chain, n)) = Len(chain) + 1
      BY <1>2, ChainsGrow
    <3>2. Len(Append(chain, n)) + (k - 1) >= MaxDepth + 2
      BY <1>1, <1>2, <2>3, <2>5, <3>1
    <3> QED BY <2>5, <3>1, <3>2
  <2> HIDE DEF below
  <2> QED BY <1>2, <2>3, <2>6, ExpandsToEntries
<1>4. ASSUME NEW chain \in Ending(t) PROVE g[chain].entries \in Seq(Entries)
  <2>1. Len(chain) + (MaxDepth + 2) >= MaxDepth + 2 /\ MaxDepth + 2 \in Nat
    BY <1>1, <1>2
  <2> QED BY <1>3, <2>1
<1>5. ASSUME NEW chain \in Ending(t), NEW n \in DOMAIN t
      PROVE  below(chain)[n].entries \in Seq(Entries)
  BY <1>2, <1>4, ChainsGrow
<1>6. ASSUME NEW chain \in Ending(t), ~g[chain].refused
      PROVE  LET steps == t[Last(chain)].steps IN
             Offers(g[chain].entries) =
               UNION {{i} \X Reached(steps[i], below(chain)) : i \in DOMAIN steps}
  <2> HIDE DEF below
  <2> QED BY <1>2, <1>5, <1>6, ExpandsToEntries
<1> QED BY <1>4, <1>6 DEF Gathered

LEMMA ExpandEntries ==
    ASSUME NEW t, Stocked(t), NEW name \in DOMAIN t
    PROVE  Expand(t, name).entries \in Seq(Entries)
<1>1. PICK g : Wide(t, g) /\ \A n : Expand(t, n) = g[<<n>>]
  BY ExpandIs
<1>2. <<name>> \in Ending(t)
  BY DEF Ending, Stocked, Last
<1>3. PICK chain \in Ending(t) : chain = <<name>>
  BY <1>2
<1>4. g[chain].entries \in Seq(Entries)
  BY <1>1, WideEntries
<1> QED BY <1>1, <1>3, <1>4

-----------------------------------------------------------------------------

(* Sequences of what another has at places that are each taken once.       *)
LEMMA SameLength ==
    ASSUME NEW n \in Nat, NEW m \in Nat, NEW D, NEW f \in Bijection(1..m, D),
           NEW h \in Bijection(1..n, D)
    PROVE  m = n
<1>1. /\ IsFiniteSet(1..m) /\ Cardinality(1..m) = m
      /\ IsFiniteSet(1..n) /\ Cardinality(1..n) = n
  BY FirstNumbers
<1>2. ExistsBijection(1..m, D) /\ ExistsBijection(1..n, D)
  BY Fun_ExistsBij
<1>3. Cardinality(D) = Cardinality(1..m) /\ Cardinality(D) = Cardinality(1..n)
  BY <1>1, <1>2, FS_Bijection
<1> QED BY <1>1, <1>3

(* Pieces whose elements come from the parts of a partition join to a      *)
(* sequence that has everything once, piece by piece.                      *)
Follow(ss, m, part, spot, x, y) ==
    \E i, j \in 1..m :
       /\ x \in part[i] /\ y \in part[j]
       /\ \/ i < j
          \/ i = j /\ \E k, l \in 1..Len(ss[i]) : k < l /\ x = spot[i][k] /\ y = spot[i][l]

Parted(n, s, ss, m, part, spot) ==
    /\ \A i \in 1..m : spot[i] \in Bijection(1..Len(ss[i]), part[i]) /\ part[i] \subseteq 1..n
    /\ \A x \in 1..n : \E i \in 1..m : x \in part[i]
    /\ \A i, j \in 1..m : \A x \in part[i] : x \in part[j] => i = j
    /\ \A i \in 1..m : \A k \in 1..Len(ss[i]) : ss[i][k] = s[spot[i][k]]

Rejoined(n, s, u, ss, m, part, spot, b) ==
    /\ \A l \in 1..n : u[l] = s[b[l]]
    /\ \A k, l \in 1..n : k < l => Follow(ss, m, part, spot, b[k], b[l])

LEMMA Joins ==
    ASSUME NEW n \in Nat, NEW m \in Nat, NEW S, NEW ss, NEW u \in Seq(S), Spread(u, ss, m),
           NEW s, NEW part, NEW spot, Parted(n, s, ss, m, part, spot)
    PROVE  /\ Len(u) = n
           /\ \E b \in Bijection(1..n, 1..n) : Rejoined(n, s, u, ss, m, part, spot, b)
<1>0. /\ \A i \in 1..m : spot[i] \in Bijection(1..Len(ss[i]), part[i]) /\ part[i] \subseteq 1..n
      /\ \A x \in 1..n : \E i \in 1..m : x \in part[i]
      /\ \A i, j \in 1..m : \A x \in part[i] : x \in part[j] => i = j
      /\ \A i \in 1..m : \A k \in 1..Len(ss[i]) : ss[i][k] = s[spot[i][k]]
  BY DEF Parted
<1> USE <1>0
<1> DEFINE P == Spots(ss, m)
           place == [p \in P |-> spot[p[1]][p[2]]]
<1>1. ASSUME NEW p \in P
      PROVE  /\ p = <<p[1], p[2]>> /\ p[1] \in 1..m /\ p[2] \in 1..Len(ss[p[1]])
             /\ place[p] \in part[p[1]] /\ place[p] \in 1..n
             /\ place[p] = spot[p[1]][p[2]]
             /\ ss[p[1]][p[2]] = s[place[p]]
  <2>1. p = <<p[1], p[2]>> /\ p[1] \in 1..m /\ p[2] \in 1..Len(ss[p[1]])
    BY DEF Spots
  <2>2. spot[p[1]][p[2]] \in part[p[1]]
    BY <2>1, BijectionIs
  <2>3. place[p] = spot[p[1]][p[2]]
    OBVIOUS
  <2> HIDE DEF P, place
  <2> QED BY <2>1, <2>2, <2>3
<1>2. ASSUME NEW p \in P, NEW q \in P, place[p] = place[q] PROVE p = q
  <2> HIDE DEF P, place
  <2>1. p[1] = q[1]
    BY <1>1, <1>2
  <2>2. spot[p[1]] \in Bijection(1..Len(ss[p[1]]), part[p[1]])
    BY <1>1
  <2>3. p[2] = q[2]
    <3>1. /\ spot[p[1]][p[2]] = spot[p[1]][q[2]]
          /\ q[2] \in 1..Len(ss[p[1]]) /\ p[2] \in 1..Len(ss[p[1]])
      BY <1>1, <1>2, <2>1
    <3> DEFINE f == spot[p[1]]
               I == 1..Len(ss[p[1]])
               T == part[p[1]]
    <3>2. f \in Bijection(I, T) /\ p[2] \in I /\ q[2] \in I /\ f[p[2]] = f[q[2]]
      BY <2>2, <3>1
    <3> HIDE DEF f, I, T
    <3> QED BY <3>2, BijectionIs
  <2> QED BY <1>1, <2>1, <2>3
<1>3. ASSUME NEW x \in 1..n PROVE \E p \in P : place[p] = x
  <2>1. PICK i \in 1..m : x \in part[i]
    OBVIOUS
  <2>2. PICK k \in 1..Len(ss[i]) : spot[i][k] = x
    <3>1. spot[i] \in Bijection(1..Len(ss[i]), part[i])
      OBVIOUS
    <3> DEFINE f == spot[i]
               I == 1..Len(ss[i])
               T == part[i]
    <3>2. f \in Bijection(I, T) /\ x \in T
      BY <2>1, <3>1
    <3> HIDE DEF f, I, T
    <3>3. \E k \in I : f[k] = x
      BY <3>2, BijectionIs
    <3> QED BY <3>3 DEF f, I
  <2>3. <<i, k>> \in P
    BY DEF Spots
  <2> QED BY <2>2, <2>3
<1>4. place \in [P -> 1..n]
  <2>1. DOMAIN place = P /\ place = [p \in P |-> place[p]]
    OBVIOUS
  <2> HIDE DEF P, place
  <2> QED BY <1>1, <2>1
<1> HIDE DEF place
<1>5. place \in Bijection(P, 1..n)
  BY <1>2, <1>3, <1>4, Fun_IsBij
<1>6. PICK l \in Nat : l = Len(u)
  OBVIOUS
<1>7. PICK h \in Bijection(1..l, P) :
        /\ \A k \in 1..l : u[k] = ss[h[k][1]][h[k][2]]
        /\ \A k, j \in 1..l : k < j => Ahead(h[k], h[j])
  BY <1>6 DEF Spread
<1> DEFINE b == [k \in 1..l |-> place[h[k]]]
<1> HIDE DEF P
<1>8. b \in Bijection(1..l, 1..n)
  BY <1>5, <1>7, Fun_BijTransitive
<1>9. l = n
  <2>1. \A x \in 1..n : x \in 1..n
    OBVIOUS
  <2> DEFINE id == [x \in 1..n |-> x]
  <2>2. id \in Bijection(1..n, 1..n)
    BY Fun_IsBij
  <2> HIDE DEF id, b
  <2> QED BY <1>8, <2>2, SameLength
<1>10. \A k \in 1..n : h[k] \in P /\ b[k] = place[h[k]]
  BY <1>7, <1>9, BijectionIs
<1> HIDE DEF b
<1>11. ASSUME NEW k \in 1..n PROVE u[k] = s[b[k]]
  <2>1. u[k] = ss[h[k][1]][h[k][2]]
    BY <1>7, <1>9
  <2>2. PICK p \in P : p = h[k] /\ b[k] = place[p]
    BY <1>10
  <2>3. ss[p[1]][p[2]] = s[place[p]]
    BY <1>1
  <2> QED BY ONLY <2>1, <2>2, <2>3
<1>12. ASSUME NEW k \in 1..n, NEW j \in 1..n, k < j PROVE Follow(ss, m, part, spot, b[k], b[j])
  <2>1. Ahead(h[k], h[j])
    BY <1>7, <1>9, <1>12
  <2>2. h[k] \in P /\ h[j] \in P /\ b[k] = place[h[k]] /\ b[j] = place[h[j]]
    BY <1>10
  <2>3. PICK i \in 1..m : \E x \in 1..Len(ss[i]) :
          h[k][1] = i /\ h[k][2] = x /\ b[k] = spot[i][x] /\ b[k] \in part[i]
    <3>1. PICK p \in P : p = h[k] /\ b[k] = place[p]
      BY <2>2
    <3>2. /\ p[1] \in 1..m /\ p[2] \in 1..Len(ss[p[1]]) /\ b[k] = spot[p[1]][p[2]]
          /\ b[k] \in part[p[1]]
      BY <1>1, <3>1
    <3> QED BY ONLY <3>1, <3>2
  <2>4. PICK i2 \in 1..m : \E y \in 1..Len(ss[i2]) :
          h[j][1] = i2 /\ h[j][2] = y /\ b[j] = spot[i2][y] /\ b[j] \in part[i2]
    <3>1. PICK p \in P : p = h[j] /\ b[j] = place[p]
      BY <2>2
    <3>2. /\ p[1] \in 1..m /\ p[2] \in 1..Len(ss[p[1]]) /\ b[j] = spot[p[1]][p[2]]
          /\ b[j] \in part[p[1]]
      BY <1>1, <3>1
    <3> QED BY ONLY <3>1, <3>2
  <2>5. PICK x \in 1..Len(ss[i]) : h[k][1] = i /\ h[k][2] = x /\ b[k] = spot[i][x]
    BY <2>3
  <2>6. PICK y \in 1..Len(ss[i2]) : h[j][1] = i2 /\ h[j][2] = y /\ b[j] = spot[i2][y]
    BY <2>4
  <2>7. i < i2 \/ (i = i2 /\ x < y)
    BY <2>1, <2>5, <2>6 DEF Ahead
  <2>8. CASE i < i2
    BY <2>3, <2>4, <2>8 DEF Follow
  <2>9. CASE i = i2 /\ x < y
    <3>1. b[k] \in part[i] /\ b[j] \in part[i] /\ y \in 1..Len(ss[i])
      BY <2>3, <2>4, <2>9
    <3> QED BY ONLY <2>5, <2>6, <2>9, <3>1 DEF Follow
  <2> QED BY <2>7, <2>8, <2>9
<1>13. b \in Bijection(1..n, 1..n)
  BY <1>8, <1>9
<1> QED BY <1>6, <1>9, <1>11, <1>12, <1>13 DEF Rejoined

-----------------------------------------------------------------------------
(* What a strategy makes of the entries it gets: candidates for each of    *)
(* them, once, in the order that it promises.                              *)
Candidates == [provider : Nat, model : Nat, credential : Nat]

Suits(kind, c, e) ==
    /\ c.provider = e.provider /\ c.model = e.model
    /\ IF kind = "fill-first" /\ e.allowed # <<>> THEN c.credential \in ToSet(e.allowed)
       ELSE c.credential = 0

Sorts(kind, a, b) ==
    kind \in {"priority", "fallback", "round-robin", "fusion", "pipeline"} => a.step <= b.step

Arranged(kind, order, es) ==
    /\ order \in Seq(Candidates) /\ Len(order) = Len(es)
    /\ \E f \in Bijection(1..Len(es), 1..Len(es)) :
         /\ \A i \in 1..Len(es) : Suits(kind, order[i], es[f[i]])
         /\ \A i, j \in 1..Len(es) : i < j => Sorts(kind, es[f[i]], es[f[j]])

(* A candidate of an entry has its provider and model.                     *)
LEMMA CandidateIs ==
    ASSUME NEW e \in Entries
    PROVE  /\ Candidate(e) \in Candidates /\ Candidate(e).credential = 0
           /\ Candidate(e).provider = e.provider /\ Candidate(e).model = e.model
           /\ \A n \in Nat : /\ [Candidate(e) EXCEPT !.credential = n] \in Candidates
                             /\ [Candidate(e) EXCEPT !.credential = n].credential = n
                             /\ [Candidate(e) EXCEPT !.credential = n].provider = e.provider
                             /\ [Candidate(e) EXCEPT !.credential = n].model = e.model
  BY DEF Candidate, Candidates, Entries

(* What is not less than another may come after it.                        *)
LEMMA NotLess ==
    ASSUME NEW a \in Entries, NEW b \in Entries
    PROVE  ~less("step", b, a) => a.step <= b.step
<1>1. a.step \in Nat /\ b.step \in Nat
  BY DEF Entries
<1>2. ~less("step", b, a) => ~(b.step < a.step)
  BY DEF less, byStep
<1> QED BY <1>1, <1>2

(* The strategies that sort arrange.                                       *)
LEMMA SortedArranges ==
    ASSUME NEW es \in Seq(Entries), NEW by \in Comparisons, NEW kind, kind # "fill-first",
           by # "step" => kind \notin {"priority", "fallback", "round-robin", "fusion", "pipeline"}
    PROVE  Arranged(kind, AsCandidates(Sorted(es, by)), es)
<1>1. PICK n \in Nat : n = Len(es) /\ DOMAIN es = 1..n /\ \A k \in 1..n : es[k] \in Entries
  <2>1. Len(es) \in Nat /\ DOMAIN es = 1..Len(es) /\ \A k \in 1..Len(es) : es[k] \in Entries
    BY LenProperties
  <2> QED BY <2>1
<1>2. PICK f \in Bijection(1..n, 1..n) :
        /\ Sorted(es, by) = [k \in 1..n |-> es[f[k]]]
        /\ \A k, l \in 1..n : k < l => ~less(by, es[f[l]], es[f[k]])
  BY <1>1, SortedIs
<1>3. \A k \in 1..n : f[k] \in 1..n /\ es[f[k]] \in Entries
  BY <1>1, BijectionIs
<1> DEFINE order == AsCandidates(Sorted(es, by))
<1>4. order = [k \in 1..n |-> Candidate(es[f[k]])]
  BY <1>2 DEF AsCandidates
<1> HIDE DEF order
<1>5. order \in Seq(Candidates) /\ Len(order) = n
  <2>1. order \in [1..n -> Candidates]
    BY <1>3, <1>4, CandidateIs
  <2> QED BY <2>1
<1>6. \A i \in 1..n : Suits(kind, order[i], es[f[i]])
  BY <1>3, <1>4, CandidateIs DEF Suits
<1>7. ASSUME NEW i \in 1..n, NEW j \in 1..n, i < j PROVE Sorts(kind, es[f[i]], es[f[j]])
  <2>1. ~less(by, es[f[j]], es[f[i]]) /\ es[f[i]] \in Entries /\ es[f[j]] \in Entries
    BY <1>2, <1>3, <1>7
  <2> QED BY <2>1, NotLess DEF Sorts
<1> QED BY <1>1, <1>5, <1>6, <1>7 DEF Arranged, order

(* fill-first: the positions after so many candidates.                     *)
Positions(cur, s, l, f) ==
    f = [k \in 0..l |-> IF k = 0 THEN cur
                        ELSE IF Len(s[k].allowed) = 0 THEN f[k - 1]
                        ELSE advance(f[k - 1], <<s[k].provider, s[k].step>>, Len(s[k].allowed))]

LEMMA PositionsExist ==
    ASSUME NEW cur, NEW s, NEW n \in Nat
    PROVE  \E f : Positions(cur, s, n, f)
<1> DEFINE Missing == {l \in Nat : ~\E f : Positions(cur, s, l, f)}
<1>1. Missing = {}
  <2>1. SUFFICES ASSUME Missing # {} PROVE FALSE
    OBVIOUS
  <2>2. PICK l \in Missing : \A j \in Missing : l <= j
    <3>1. Missing \in SUBSET Nat
      OBVIOUS
    <3> HIDE DEF Missing
    <3> QED BY <2>1, <3>1, Least
  <2>3. l # 0
    <3>1. SUFFICES ASSUME l = 0 PROVE FALSE
      OBVIOUS
    <3> DEFINE f == [k \in 0..0 |-> cur]
    <3>2. \A k \in 0..0 : k = 0
      OBVIOUS
    <3>3. Positions(cur, s, 0, f)
      BY <3>2 DEF Positions
    <3> HIDE DEF f
    <3> QED BY <2>2, <3>1, <3>3
  <2>4. l \in Nat /\ l - 1 \in Nat /\ ~(l <= l - 1)
    BY <2>3
  <2>5. PICK f : Positions(cur, s, l - 1, f)
    BY <2>2, <2>4
  <2> DEFINE step(p, k) == IF Len(s[k].allowed) = 0 THEN p
                 ELSE advance(p, <<s[k].provider, s[k].step>>, Len(s[k].allowed))
             g == [k \in 0..l |-> IF k = l THEN step(f[l - 1], l) ELSE f[k]]
             h == [k \in 0..l |-> IF k = 0 THEN cur ELSE step(g[k - 1], k)]
  <2>6. ASSUME NEW k \in 0..l PROVE g[k] = h[k]
    <3>1. \A j \in 0..(l - 1) : f[j] = IF j = 0 THEN cur ELSE step(f[j - 1], j)
      BY <2>5 DEF Positions
    <3>2. CASE k = l
      <4>1. l - 1 \in 0..l /\ l - 1 # l
        BY <2>4
      <4>2. g[k] = step(f[l - 1], l) /\ g[l - 1] = f[l - 1]
        BY <3>2, <4>1
      <4>3. h[k] = step(g[k - 1], k)
        BY <2>4, <3>2
      <4> HIDE DEF g, h, step
      <4> QED BY <3>2, <4>2, <4>3
    <3>3. CASE k # l /\ k = 0
      <4>1. 0 \in 0..(l - 1)
        BY <2>3, <2>4
      <4>2. f[0] = cur
        BY <3>1, <4>1
      <4>3. g[0] = f[0] /\ h[0] = cur
        BY <3>3, <2>4
      <4> QED BY <3>3, <4>2, <4>3
    <3>4. CASE k # l /\ k # 0
      <4>1. k \in 0..(l - 1) /\ k - 1 \in 0..l /\ k - 1 # l
        BY <2>4, <3>4
      <4>2. g[k] = f[k] /\ g[k - 1] = f[k - 1]
        BY <3>4, <4>1
      <4>3. h[k] = step(g[k - 1], k)
        BY <3>4
      <4> HIDE DEF g, h, step
      <4> QED BY <3>1, <3>4, <4>1, <4>2, <4>3
    <3> QED BY <3>2, <3>3, <3>4
  <2>7. g = h
    <3>1. g = [k \in 0..l |-> g[k]] /\ h = [k \in 0..l |-> h[k]]
      OBVIOUS
    <3> HIDE DEF g, h
    <3> QED BY <2>6, <3>1
  <2>8. Positions(cur, s, l, g)
    <3>1. h = [k \in 0..l |-> IF k = 0 THEN cur
                        ELSE IF Len(s[k].allowed) = 0 THEN g[k - 1]
                        ELSE advance(g[k - 1], <<s[k].provider, s[k].step>>, Len(s[k].allowed))]
      OBVIOUS
    <3> HIDE DEF g, h
    <3> QED BY <2>7, <3>1 DEF Positions
  <2> HIDE DEF g
  <2> QED BY <2>2, <2>8
<1> QED BY <1>1

Filled(s, f, k) ==
    IF Len(s[k].allowed) = 0 THEN Candidate(s[k])
    ELSE [Candidate(s[k]) EXCEPT !.credential =
             s[k].allowed[1 + next(f[k - 1], <<s[k].provider, s[k].step>>, Len(s[k].allowed))]]

LEMMA FillFirstIs ==
    ASSUME NEW es, NEW cur
    PROVE  LET s == Sorted(es, "step")
               f == CHOOSE g : Positions(cur.fillFirst, s, Len(s), g)
               x == fillFirst(es, cur)
           IN  /\ x.order = [k \in DOMAIN s |-> Filled(s, f, k)]
               /\ x.cursor = [cur EXCEPT !.fillFirst = f[Len(s)]]
  BY DEF fillFirst, Positions, Filled

LEMMA NextIsBelow ==
    ASSUME NEW kept, \A k \in DOMAIN kept : kept[k] \in Nat, NEW key, NEW n \in Nat, n # 0
    PROVE  /\ next(kept, key, n) \in Nat /\ next(kept, key, n) < n
           /\ \A k \in DOMAIN advance(kept, key, n) : advance(kept, key, n)[k] \in Nat
<1>1. next(kept, key, n) \in Nat /\ next(kept, key, n) < n
  BY DEF next
<1>2. (next(kept, key, n) + 1) % n \in Nat
  BY <1>1
<1> QED BY <1>1, <1>2 DEF advance

(* fill-first arranges, with a credential of the step's own list, and its  *)
(* positions stay numbers.                                                 *)
LEMMA FillFirstArranges ==
    ASSUME NEW es \in Seq(Entries), NEW cur,
           cur = [roundRobin |-> cur.roundRobin, fillFirst |-> cur.fillFirst],
           \A k \in DOMAIN cur.fillFirst : cur.fillFirst[k] \in Nat
    PROVE  LET x == fillFirst(es, cur)
           IN  /\ Arranged("fill-first", x.order, es)
               /\ \A k \in DOMAIN x.cursor.fillFirst : x.cursor.fillFirst[k] \in Nat
               /\ x.cursor.roundRobin = cur.roundRobin
<1>1. PICK n \in Nat : n = Len(es) /\ DOMAIN es = 1..n /\ \A k \in 1..n : es[k] \in Entries
  <2>1. Len(es) \in Nat /\ DOMAIN es = 1..Len(es) /\ \A k \in 1..Len(es) : es[k] \in Entries
    BY LenProperties
  <2> QED BY <2>1
<1> DEFINE s == Sorted(es, "step")
<1>2. PICK g \in Bijection(1..n, 1..n) : s = [k \in 1..n |-> es[g[k]]]
  BY <1>1, SortedIs DEF Comparisons
<1> HIDE DEF s
<1>3. \A k \in 1..n : g[k] \in 1..n /\ s[k] = es[g[k]] /\ s[k] \in Entries
  <2>1. \A k \in 1..n : g[k] \in 1..n
    BY BijectionIs
  <2> QED BY <1>1, <1>2, <2>1
<1>4. Len(s) = n /\ DOMAIN s = 1..n
  BY <1>2
<1> DEFINE f == CHOOSE h : Positions(cur.fillFirst, s, n, h)
           key(k) == <<s[k].provider, s[k].step>>
           len(k) == Len(s[k].allowed)
           x == fillFirst(es, cur)
<1>5. Positions(cur.fillFirst, s, n, f)
  BY PositionsExist
<1>6. x.order = [k \in 1..n |-> Filled(s, f, k)] /\ x.cursor = [cur EXCEPT !.fillFirst = f[n]]
  <2> DEFINE h == CHOOSE g0 : Positions(cur.fillFirst, s, Len(s), g0)
  <2>1. /\ x.order = [k \in DOMAIN s |-> Filled(s, h, k)]
        /\ x.cursor = [cur EXCEPT !.fillFirst = h[Len(s)]]
    BY FillFirstIs DEF s
  <2>2. h = f
    BY <1>4
  <2> HIDE DEF f, h, x
  <2> QED BY <1>4, <2>1, <2>2
<1> HIDE DEF f, x
<1>7. \A k \in 0..n : f[k] = IF k = 0 THEN cur.fillFirst ELSE IF len(k) = 0 THEN f[k - 1]
                            ELSE advance(f[k - 1], key(k), len(k))
  BY <1>5 DEF Positions
<1>8. \A k \in 1..n : /\ s[k].provider \in Nat /\ s[k].model \in Nat /\ len(k) \in Nat
                      /\ s[k].allowed \in Seq(Nat)
                      /\ s[k].allowed = <<>> <=> len(k) = 0
                      /\ \A i \in 1..len(k) : /\ s[k].allowed[i] \in Nat
                                             /\ s[k].allowed[i] \in ToSet(s[k].allowed)
  <2>1. \A k \in 1..n : s[k].provider \in Nat /\ s[k].model \in Nat /\ s[k].allowed \in Seq(Nat)
    BY <1>3 DEF Entries
  <2> QED BY <2>1, LenProperties, EmptySeq DEF ToSet
<1> HIDE DEF key
<1> DEFINE Numbers(p) == \A k \in DOMAIN p : p[k] \in Nat
           Odd == {k \in 0..n : ~Numbers(f[k])}
<1>9. Odd = {}
  <2>1. SUFFICES ASSUME Odd # {} PROVE FALSE
    OBVIOUS
  <2>2. PICK k \in Odd : \A j \in Odd : k <= j
    <3>1. Odd \in SUBSET Nat
      OBVIOUS
    <3> HIDE DEF Odd
    <3> QED BY <2>1, <3>1, Least
  <2>3. k # 0
    BY <1>7, <2>2
  <2>4. k \in 1..n /\ k - 1 \in 0..n /\ ~(k <= k - 1)
    BY <2>2, <2>3
  <2>5. Numbers(f[k - 1])
    BY <2>2, <2>4
  <2>6. f[k] = IF len(k) = 0 THEN f[k - 1] ELSE advance(f[k - 1], key(k), len(k))
    BY <1>7, <2>4
  <2>7. len(k) \in Nat
    BY <1>8, <2>4
  <2>8. CASE len(k) = 0
    BY <2>5, <2>6, <2>8
  <2>9. CASE len(k) # 0
    <3> HIDE DEF len
    <3>1. Numbers(advance(f[k - 1], key(k), len(k)))
      BY <2>5, <2>7, <2>9, NextIsBelow
    <3> QED BY <2>6, <2>9, <3>1
  <2>10. Numbers(f[k])
    BY <2>8, <2>9
  <2> QED BY <2>2, <2>10
<1>10. \A k \in 0..n : Numbers(f[k])
  BY <1>9
<1>11. ASSUME NEW k \in 1..n
       PROVE  Filled(s, f, k) \in Candidates /\ Suits("fill-first", Filled(s, f, k), s[k])
  <2>1. CASE len(k) = 0
    <3>1. Filled(s, f, k) = Candidate(s[k])
      BY <2>1 DEF Filled
    <3> QED BY <1>3, <1>8, <2>1, <3>1, CandidateIs DEF Suits
  <2>2. CASE len(k) # 0
    <3> DEFINE i == next(f[k - 1], key(k), len(k))
    <3>1. k - 1 \in 0..n
      OBVIOUS
    <3>2. i \in Nat /\ i < len(k)
      BY <1>8, <1>10, <2>2, <3>1, NextIsBelow
    <3>3. Filled(s, f, k) = [Candidate(s[k]) EXCEPT !.credential = s[k].allowed[1 + i]]
      BY <2>2 DEF Filled, key
    <3> HIDE DEF i
    <3>4. 1 + i \in 1..len(k)
      BY <1>8, <3>2
    <3>5. s[k].allowed[1 + i] \in Nat /\ s[k].allowed[1 + i] \in ToSet(s[k].allowed)
      BY <1>8, <3>4
    <3> QED BY <1>3, <1>8, <2>2, <3>3, <3>5, CandidateIs DEF Suits
  <2> QED BY <2>1, <2>2
<1>12. Arranged("fill-first", x.order, es)
  <2>1. x.order \in [1..n -> Candidates]
    BY <1>6, <1>11
  <2>2. x.order \in Seq(Candidates) /\ Len(x.order) = n
    BY <2>1
  <2>3. \A k \in 1..n : Suits("fill-first", x.order[k], es[g[k]])
    BY <1>3, <1>6, <1>11
  <2>4. \A i, j \in 1..n : Sorts("fill-first", es[g[i]], es[g[j]])
    BY DEF Sorts
  <2> QED BY <1>1, <2>2, <2>3, <2>4 DEF Arranged
<1>13. Numbers(x.cursor.fillFirst) /\ x.cursor.roundRobin = cur.roundRobin
  <2>1. x.cursor.fillFirst = f[n] /\ x.cursor.roundRobin = cur.roundRobin
    BY <1>6
  <2> QED BY <1>10, <2>1
<1> QED BY <1>12, <1>13 DEF x

(* The remainder of what is less than twice n.                             *)
LEMMA Wraps ==
    ASSUME NEW n \in Nat, NEW a \in Nat, n # 0, a < n + n
    PROVE  a % n = IF a < n THEN a ELSE a - n
<1> DEFINE r == a % n
           q == a \div n
<1>1. n > 0 /\ a \in Int /\ n \in Int
  OBVIOUS
<1>2. a = n * q + r /\ r \in 0..(n - 1) /\ q \in Int
  BY <1>1
<1> HIDE DEF r, q
<1>3. q >= 0
  BY <1>1, <1>2
<1>4. q <= 1
  BY <1>1, <1>2, <1>3
<1>5. CASE q = 0
  <2>1. n * q = 0
    BY <1>5
  <2> QED BY <1>1, <1>2, <2>1 DEF r
<1>6. CASE q = 1
  <2>1. n * q = n
    BY <1>6
  <2> QED BY <1>1, <1>2, <2>1 DEF r
<1> QED BY <1>2, <1>3, <1>4, <1>5, <1>6

(* The places of a rotation.                                               *)
Turned(start, n) == [k \in 1..n |-> 1 + ((start + k - 1) % n)]

(* A rotation has each place once.                                         *)
LEMMA TurnsOnce ==
    ASSUME NEW n \in Nat, NEW start \in Nat, start < n
    PROVE  Turned(start, n) \in Bijection(1..n, 1..n)
<1> DEFINE h == Turned(start, n)
<1>1. ASSUME NEW k \in 1..n
      PROVE  h[k] = IF start + k - 1 < n THEN start + k ELSE start + k - n
  <2>1. PICK a \in Nat : a = start + k - 1
    OBVIOUS
  <2>2. n # 0 /\ a < n + n
    BY <2>1
  <2>3. a % n = IF a < n THEN a ELSE a - n
    BY <2>2, Wraps
  <2>4. h[k] = 1 + (a % n)
    BY <2>1 DEF Turned
  <2> HIDE DEF h
  <2> QED BY <2>1, <2>3, <2>4
<1>3. h \in [1..n -> 1..n]
  <2>1. \A k \in 1..n : h[k] \in 1..n
    <3> HIDE DEF h
    <3> QED BY <1>1
  <2>2. h = [k \in 1..n |-> h[k]]
    BY DEF Turned
  <2> HIDE DEF h
  <2> QED BY <2>1, <2>2
<1> HIDE DEF h
<1>4. ASSUME NEW k \in 1..n, NEW l \in 1..n, h[k] = h[l] PROVE k = l
  BY <1>1, <1>4
<1>5. ASSUME NEW x \in 1..n PROVE \E k \in 1..n : h[k] = x
  <2> DEFINE k == IF x <= start THEN x - start + n ELSE x - start
  <2>1. k \in 1..n /\ h[k] = x
    BY <1>1
  <2> QED BY <2>1
<1>6. h \in Bijection(1..n, 1..n)
  BY <1>3, <1>4, <1>5, Fun_IsBij
<1> QED BY <1>6 DEF h

(* The steps of some entries are finitely many numbers, each of some       *)
(* entry.                                                                  *)
LEMMA StepsAre ==
    ASSUME NEW n \in Nat, NEW es, DOMAIN es = 1..n, \A k \in 1..n : es[k] \in Entries
    PROVE  /\ Steps(es) \in SUBSET Int /\ IsFiniteSet(Steps(es))
           /\ \A k \in 1..n : es[k].step \in Steps(es)
           /\ \A i \in Steps(es) : ofStep(es, i) \in SUBSET (1..n) /\ IsFiniteSet(ofStep(es, i))
           /\ \A i \in Steps(es) : ofStep(es, i) # {}
<1>1. Steps(es) = {es[k].step : k \in 1..n}
  BY DEF Steps, ToSet
<1>2. IsFiniteSet(1..n)
  BY FirstNumbers
<1> DEFINE f == [k \in 1..n |-> es[k].step]
<1>3. f \in Surjection(1..n, Steps(es))
  BY <1>1 DEF Surjection
<1>4. IsFiniteSet(Steps(es))
  BY <1>2, <1>3, FS_Surjection
<1>5. ASSUME NEW i \in Steps(es) PROVE ofStep(es, i) \in SUBSET (1..n) /\ IsFiniteSet(ofStep(es, i))
  <2>1. ofStep(es, i) \in SUBSET (1..n)
    BY DEF ofStep
  <2> QED BY <1>2, <2>1, FS_Subset
<1>6. \A k \in 1..n : es[k].step \in Nat
  BY DEF Entries
<1>7. ASSUME NEW i \in Steps(es) PROVE ofStep(es, i) # {}
  BY <1>1 DEF ofStep
<1> QED BY <1>1, <1>4, <1>5, <1>6, <1>7

(* The entries of a step by name, and from a start on.                     *)
LEMMA TierIs ==
    ASSUME NEW n \in Nat, NEW es, DOMAIN es = 1..n, \A k \in 1..n : es[k] \in Entries,
           NEW i \in Steps(es)
    PROVE  LET K == ofStep(es, i)
               c == Cardinality(K)
           IN  \E f \in Bijection(1..c, K) : tier(es, i) = [k \in 1..c |-> es[f[k]]]
<1> DEFINE K == ofStep(es, i)
           s == Selected(es, K)
<1>1. K \in SUBSET (1..n) /\ K \in SUBSET Int /\ IsFiniteSet(K)
  BY StepsAre
<1>2. PICK c \in Nat : c = Cardinality(K)
  BY <1>1, FS_CardinalityType
<1> HIDE DEF K
<1>3. PICK g \in Bijection(1..c, K) : s = [k \in 1..c |-> es[g[k]]]
  BY <1>1, <1>2, SelectedIs
<1> HIDE DEF s
<1>4. ASSUME NEW k \in 1..c PROVE g[k] \in K /\ s[k] \in Entries
  <2>1. g[k] \in K
    BY BijectionIs
  <2> QED BY <1>1, <1>3, <2>1
<1>5. s \in Seq(Entries) /\ Len(s) = c
  <2>1. s \in [1..c -> Entries]
    BY <1>3, <1>4
  <2> QED BY <2>1
<1>6. PICK h \in Bijection(1..c, 1..c) : Sorted(s, "name") = [k \in 1..c |-> s[h[k]]]
  BY <1>5, SortedIs DEF Comparisons
<1> DEFINE f == [k \in 1..c |-> g[h[k]]]
<1>7. f \in Bijection(1..c, K)
  BY Fun_BijTransitive
<1>8. \A k \in 1..c : h[k] \in 1..c
  BY BijectionIs
<1>9. \A k \in 1..c : s[h[k]] = es[f[k]]
  BY <1>3, <1>8
<1> HIDE DEF f
<1>10. tier(es, i) = [k \in 1..c |-> es[f[k]]]
  BY <1>6, <1>9 DEF tier, K, s
<1> QED BY <1>2, <1>7, <1>10 DEF K

LEMMA TurnedTier ==
    ASSUME NEW n \in Nat, NEW es, DOMAIN es = 1..n, \A k \in 1..n : es[k] \in Entries,
           NEW i \in Steps(es), NEW start \in Nat, start < size(es, i)
    PROVE  LET K == ofStep(es, i)
               c == Cardinality(K)
           IN  \E f \in Bijection(1..c, K) :
                 AsCandidates(Rotated(tier(es, i), start)) = [k \in 1..c |-> Candidate(es[f[k]])]
<1> DEFINE K == ofStep(es, i)
<1>0. PICK s : s = tier(es, i)
  OBVIOUS
<1>1. K \in SUBSET (1..n) /\ K \in SUBSET Int /\ IsFiniteSet(K)
  BY StepsAre
<1>2. PICK c \in Nat : c = Cardinality(K)
  BY <1>1, FS_CardinalityType
<1>3. PICK g \in Bijection(1..c, K) : s = [k \in 1..c |-> es[g[k]]]
  BY <1>0, <1>2, TierIs
<1>4. start < c
  BY <1>2 DEF size
<1> HIDE DEF K
<1>5. DOMAIN s = 1..c /\ Len(s) = c
  BY <1>3
<1>6. PICK h \in Bijection(1..c, 1..c) : h = Turned(start, c)
  BY <1>4, TurnsOnce
<1> DEFINE f == [k \in 1..c |-> g[h[k]]]
<1>7. f \in Bijection(1..c, K)
  BY Fun_BijTransitive
<1>8. \A k \in 1..c : h[k] \in 1..c
  BY BijectionIs
<1>9. \A k \in 1..c : s[h[k]] = es[f[k]]
  BY <1>3, <1>8
<1> HIDE DEF f
<1>10. AsCandidates(Rotated(s, start)) = [k \in 1..c |-> Candidate(es[f[k]])]
  <2>1. Rotated(s, start) = [k \in 1..c |-> s[1 + ((start + k - 1) % c)]]
    BY <1>5 DEF Rotated
  <2>2. \A k \in 1..c : h[k] = 1 + ((start + k - 1) % c)
    BY <1>6 DEF Turned
  <2>3. Rotated(s, start) = [k \in 1..c |-> es[f[k]]]
    BY <1>9, <2>1, <2>2
  <2> QED BY <2>3 DEF AsCandidates
<1> QED BY <1>0, <1>2, <1>7, <1>10 DEF K

(* round-robin arranges: the steps split the entries, and each is rotated. *)
LEMMA RoundRobinArranges ==
    ASSUME NEW es \in Seq(Entries), NEW name, NEW cur,
           \A k \in DOMAIN cur.roundRobin : cur.roundRobin[k] \in Nat
    PROVE  Arranged("round-robin", roundRobin(name, es, cur).order, es)
<1>1. PICK n \in Nat : n = Len(es) /\ DOMAIN es = 1..n /\ \A k \in 1..n : es[k] \in Entries
  <2>1. Len(es) \in Nat /\ DOMAIN es = 1..Len(es) /\ \A k \in 1..Len(es) : es[k] \in Entries
    BY LenProperties
  <2> QED BY <2>1
<1> DEFINE I == Steps(es)
           start(i) == next(cur.roundRobin, <<name, i>>, size(es, i))
           part0(i) == ofStep(es, i)
<1>2. I \in SUBSET Int /\ IsFiniteSet(I) /\ \A k \in 1..n : es[k].step \in I
  BY <1>1, StepsAre
<1>3. ASSUME NEW i \in I
      PROVE  /\ ofStep(es, i) \in SUBSET (1..n) /\ size(es, i) \in Nat
             /\ start(i) \in Nat /\ start(i) < size(es, i)
  <2>1. IsFiniteSet(ofStep(es, i)) /\ ofStep(es, i) # {} /\ ofStep(es, i) \in SUBSET (1..n)
    BY <1>1, StepsAre
  <2>2. size(es, i) \in Nat /\ size(es, i) # 0
    BY <2>1, FS_CardinalityType, FS_EmptySet DEF size
  <2> QED BY <2>1, <2>2, NextIsBelow
<1> HIDE DEF start
<1> DEFINE Spotted(i, f) == f \in Bijection(1..size(es, i), ofStep(es, i))
                         /\ AsCandidates(Rotated(tier(es, i), start(i)))
                              = [k \in 1..size(es, i) |-> Candidate(es[f[k]])]
<1>4. \A i \in I : \E f : Spotted(i, f)
  <2> SUFFICES ASSUME NEW i \in I PROVE \E f : Spotted(i, f)
    OBVIOUS
  <2>1. \E f \in Bijection(1..size(es, i), ofStep(es, i)) :
          AsCandidates(Rotated(tier(es, i), start(i)))
            = [k \in 1..size(es, i) |-> Candidate(es[f[k]])]
    <3>1. PICK from : from = start(i)
      OBVIOUS
    <3>2. from \in Nat /\ from < size(es, i)
      BY <1>3, <3>1
    <3> HIDE DEF start
    <3>3. LET K == ofStep(es, i)
              c == Cardinality(K)
          IN  \E f \in Bijection(1..c, K) :
                AsCandidates(Rotated(tier(es, i), from)) = [k \in 1..c |-> Candidate(es[f[k]])]
      BY <1>1, <3>2, TurnedTier
    <3> QED BY <3>1, <3>3 DEF size
  <2> QED BY <2>1
<1> DEFINE tiers == Ordered(I)
<1>5. PICK m \in Nat :
        /\ tiers \in Bijection(1..m, I) /\ DOMAIN tiers = 1..m
        /\ \A k, l \in 1..m : k < l => tiers[k] < tiers[l]
  <2> HIDE DEF I
  <2> QED BY <1>2, OrderedLists
<1>6. /\ \A t \in 1..m : tiers[t] \in I
      /\ \A t, w \in 1..m : tiers[t] = tiers[w] => t = w
      /\ \A i \in I : \E t \in 1..m : tiers[t] = i
  <2> HIDE DEF tiers, I
  <2> QED BY <1>5, BijectionIs
<1> DEFINE ss == [t \in 1..m |-> AsCandidates(Rotated(tier(es, tiers[t]), start(tiers[t])))]
           part == [t \in 1..m |-> ofStep(es, tiers[t])]
           spot == [t \in 1..m |-> CHOOSE f : Spotted(tiers[t], f)]
           order == FlattenSeq(ss)
           s == AsCandidates(es)
<1>7. roundRobin(name, es, cur).order = order
  BY <1>5 DEF roundRobin, start
<1> HIDE DEF tiers
<1>8. \A k \in 1..n : s[k] = Candidate(es[k]) /\ s[k] \in Candidates
  BY <1>1, CandidateIs DEF AsCandidates
<1> HIDE DEF s
<1>9. ASSUME NEW t \in 1..m
      PROVE  /\ part[t] \in SUBSET (1..n)
             /\ spot[t] \in Bijection(1..Len(ss[t]), part[t])
             /\ ss[t] \in Seq(Candidates)
             /\ \A k \in 1..Len(ss[t]) : ss[t][k] = s[spot[t][k]]
  <2> DEFINE c == size(es, tiers[t])
             f == spot[t]
  <2>1. tiers[t] \in I
    BY <1>6
  <2>2. f = CHOOSE g : Spotted(tiers[t], g)
    OBVIOUS
  <2>3. Spotted(tiers[t], f)
    <3> HIDE DEF Spotted, f
    <3> QED BY <1>4, <2>1, <2>2
  <2>4. /\ part[t] = ofStep(es, tiers[t])
        /\ ss[t] = AsCandidates(Rotated(tier(es, tiers[t]), start(tiers[t])))
    OBVIOUS
  <2> HIDE DEF f, ss, part, spot
  <2>5. c \in Nat /\ part[t] \in SUBSET (1..n)
    BY <1>3, <2>1, <2>4
  <2>6. f \in Bijection(1..c, part[t]) /\ ss[t] = [k \in 1..c |-> Candidate(es[f[k]])]
    BY <2>3, <2>4
  <2> HIDE DEF c
  <2>7. \A k \in 1..c : f[k] \in 1..n /\ ss[t][k] = s[f[k]] /\ s[f[k]] \in Candidates
    <3>1. \A k \in 1..c : f[k] \in 1..n
      BY <2>5, <2>6, BijectionIs
    <3> QED BY <1>8, <2>6, <3>1
  <2>8. ss[t] \in [1..c -> Candidates]
    BY <2>6, <2>7
  <2>9. ss[t] \in Seq(Candidates) /\ Len(ss[t]) = c
    BY <2>5, <2>8
  <2> QED BY <2>5, <2>6, <2>7, <2>9 DEF f
<1>10. order \in Seq(Candidates) /\ Spread(order, ss, m)
  <2>1. ss \in [1..m -> Seq(Candidates)]
    <3>1. ss = [t \in 1..m |-> ss[t]]
      OBVIOUS
    <3> HIDE DEF ss
    <3> QED BY <1>9, <3>1
  <2> HIDE DEF ss
  <2> QED BY <2>1, FlattenSpreads
<1>11. ASSUME NEW t \in 1..m PROVE \A x \in part[t] : x \in 1..n /\ es[x].step = tiers[t]
  BY <1>1 DEF ofStep
<1>12. ASSUME NEW x \in 1..n PROVE \E t \in 1..m : x \in part[t]
  <2>1. PICK t \in 1..m : tiers[t] = es[x].step
    BY <1>2, <1>6
  <2>2. part[t] = ofStep(es, tiers[t])
    OBVIOUS
  <2> QED BY <1>1, <2>1, <2>2 DEF ofStep
<1> HIDE DEF order, ss, part, spot
<1>13. \A i, j \in 1..m : \A x \in part[i] : x \in part[j] => i = j
  BY <1>6, <1>11
<1>14. /\ Len(order) = n
       /\ \E b \in Bijection(1..n, 1..n) :
            /\ \A l \in 1..n : order[l] = s[b[l]]
            /\ \A k, l \in 1..n : k < l => Follow(ss, m, part, spot, b[k], b[l])
  <2>0. PICK u, uu, p, q, z : u = order /\ uu = ss /\ p = part /\ q = spot /\ z = s
    OBVIOUS
  <2>1. Parted(n, z, uu, m, p, q)
    <3>1. /\ \A i \in 1..m : spot[i] \in Bijection(1..Len(ss[i]), part[i]) /\ part[i] \subseteq 1..n
          /\ \A i \in 1..m : \A k \in 1..Len(ss[i]) : ss[i][k] = s[spot[i][k]]
      BY <1>9
    <3>2. \A x \in 1..n : \E i \in 1..m : x \in part[i]
      BY <1>12
    <3> QED BY <1>13, <2>0, <3>1, <3>2 DEF Parted
  <2>2. u \in Seq(Candidates) /\ Spread(u, uu, m)
    BY <1>10, <2>0
  <2>3. Len(u) = n /\ \E b \in Bijection(1..n, 1..n) : Rejoined(n, z, u, uu, m, p, q, b)
    BY <2>1, <2>2, Joins
  <2> QED BY <2>0, <2>3 DEF Rejoined
<1>15. PICK b \in Bijection(1..n, 1..n) :
            /\ \A l \in 1..n : order[l] = s[b[l]]
            /\ \A k, l \in 1..n : k < l => Follow(ss, m, part, spot, b[k], b[l])
  BY <1>14
<1>16. \A k \in 1..n : b[k] \in 1..n
  BY BijectionIs
<1>17. \A k \in 1..n : Suits("round-robin", order[k], es[b[k]])
  BY <1>1, <1>8, <1>15, <1>16, CandidateIs DEF Suits
<1>18. ASSUME NEW k \in 1..n, NEW l \in 1..n, k < l PROVE Sorts("round-robin", es[b[k]], es[b[l]])
  <2>1. PICK i \in 1..m, j \in 1..m : b[k] \in part[i] /\ b[l] \in part[j] /\ (i < j \/ i = j)
    BY <1>15, <1>18 DEF Follow
  <2>2. tiers[i] < tiers[j] \/ i = j
    BY <1>5, <2>1
  <2>3. tiers[i] \in Int /\ tiers[j] \in Int
    BY <1>2, <1>6
  <2>4. es[b[k]].step = tiers[i] /\ es[b[l]].step = tiers[j]
    BY <1>11, <2>1
  <2> QED BY <2>2, <2>3, <2>4 DEF Sorts
<1> QED BY <1>1, <1>7, <1>10, <1>14, <1>17, <1>18 DEF Arranged

(* Every strategy arranges.                                                *)
LEMMA Arranges ==
    ASSUME NEW es \in Seq(Entries), NEW kind, NEW name, NEW cur,
           cur = [roundRobin |-> cur.roundRobin, fillFirst |-> cur.fillFirst],
           \A k \in DOMAIN cur.roundRobin : cur.roundRobin[k] \in Nat,
           \A k \in DOMAIN cur.fillFirst : cur.fillFirst[k] \in Nat
    PROVE  LET x == Arrange(kind, name, es, cur)
           IN  /\ Arranged(kind, x.order, es)
               /\ \A k \in DOMAIN x.cursor.fillFirst : x.cursor.fillFirst[k] \in Nat
<1>1. CASE kind = "round-robin"
  <2> DEFINE x == roundRobin(name, es, cur)
  <2>1. Arrange(kind, name, es, cur) = x
    BY <1>1 DEF Arrange
  <2>2. x.cursor.fillFirst = cur.fillFirst
    BY DEF roundRobin
  <2>3. Arranged("round-robin", x.order, es)
    BY RoundRobinArranges
  <2> HIDE DEF x
  <2> QED BY <1>1, <2>1, <2>2, <2>3
<1>2. CASE kind = "fill-first"
  <2>1. Arrange(kind, name, es, cur) = fillFirst(es, cur)
    BY <1>2 DEF Arrange
  <2> QED BY <1>2, <2>1, FillFirstArranges
<1>3. ASSUME kind # "round-robin", kind # "fill-first"
      PROVE  LET by == IF kind = "weighted" THEN "weight"
                       ELSE IF kind \in {"cost", "p2c", "auto"} THEN "name" ELSE "step"
                 x  == Arrange(kind, name, es, cur)
             IN  x.order = AsCandidates(Sorted(es, by)) /\ x.cursor = cur
  BY <1>3 DEF Arrange
<1>4. CASE kind # "round-robin" /\ kind # "fill-first"
  <2>1. CASE kind = "weighted"
    BY <1>3, <1>4, <2>1, SortedArranges DEF Comparisons
  <2>2. CASE kind \in {"cost", "p2c", "auto"}
    BY <1>3, <1>4, <2>2, SortedArranges DEF Comparisons
  <2>3. CASE kind \notin {"weighted", "cost", "p2c", "auto"}
    BY <1>3, <1>4, <2>3, SortedArranges DEF Comparisons
  <2> QED BY <2>1, <2>2, <2>3
<1> QED BY <1>1, <1>2, <1>4

LEMMA SpreadTwo ==
    ASSUME NEW S, NEW ss, ss[1] \in Seq(S), ss[2] \in Seq(S)
    PROVE  Spread(ss[1] \o ss[2], ss, 2)
<1>1. Spread(<<>>, ss, 0)
  <2>1. Spots(ss, 0) = {}
    BY DEF Spots
  <2>2. 1..Len(<<>>) = {}
    OBVIOUS
  <2> DEFINE h == [m \in 1..Len(<<>>) |-> m]
  <2>3. h \in Bijection(1..Len(<<>>), Spots(ss, 0))
    BY <2>1, <2>2, Fun_IsBij
  <2> QED BY <2>2, <2>3 DEF Spread
<1>2. Spread(<<>> \o ss[0 + 1], ss, 0 + 1)
  <2>1. \A i \in 1 .. 0 + 1 : ss[i] \in Seq(S)
    OBVIOUS
  <2>2. <<>> \in Seq(S) /\ 0 \in Nat
    OBVIOUS
  <2> QED BY <1>1, <2>1, <2>2, SpreadFurther
<1>3. Spread(ss[1], ss, 1)
  <2>1. <<>> \o ss[1] = ss[1] /\ 0 + 1 = 1
    BY ConcatEmptySeq
  <2> QED BY <1>2, <2>1
<1>4. Spread(ss[1] \o ss[1 + 1], ss, 1 + 1)
  <2>1. \A i \in 1 .. 1 + 1 : ss[i] \in Seq(S)
    OBVIOUS
  <2>2. 1 \in Nat
    OBVIOUS
  <2> QED BY <1>3, <2>1, <2>2, SpreadFurther
<1>5. 1 + 1 = 2
  OBVIOUS
<1> QED BY <1>4, <1>5

(* demote arranges again: it moves only candidates that carry a            *)
(* credential, and these come from fill-first, which promises no order.    *)
LEMMA Demotes ==
    ASSUME NEW kind, NEW es \in Seq(Entries), NEW order, Arranged(kind, order, es)
    PROVE  Arranged(kind, demote(order), es)
<1>1. PICK n \in Nat : n = Len(es) /\ DOMAIN es = 1..n
  BY LenProperties
<1>2. order \in Seq(Candidates) /\ Len(order) = n /\ DOMAIN order = 1..n
  <2>1. order \in Seq(Candidates) /\ Len(order) = n
    BY <1>1 DEF Arranged
  <2> QED BY <2>1, LenProperties
<1>3. PICK F \in Bijection(1..n, 1..n) :
         /\ \A i \in 1..n : Suits(kind, order[i], es[F[i]])
         /\ \A i, j \in 1..n : i < j => Sorts(kind, es[F[i]], es[F[j]])
  BY <1>1 DEF Arranged
<1> DEFINE X == {k \in 1..n : order[k].credential = 0}
           Y == {k \in 1..n : order[k].credential # 0}
<1>4. X \in SUBSET (1..n) /\ Y \in SUBSET (1..n) /\ X \cup Y = 1..n /\ X \cap Y = {}
  OBVIOUS
<1>5. demote(order) = Selected(order, X) \o Selected(order, Y)
  BY <1>2 DEF demote
<1>6. ASSUME kind # "fill-first" PROVE Y = {}
  <2>1. \A i \in 1..n : order[i].credential = 0
    BY <1>3, <1>6 DEF Suits
  <2> QED BY <2>1
<1> HIDE DEF X, Y
<1>7. /\ X \in SUBSET Int /\ IsFiniteSet(X)
      /\ Y \in SUBSET Int /\ IsFiniteSet(Y)
  <2>1. IsFiniteSet(1..n) /\ 1..n \subseteq Int
    BY FirstNumbers
  <2> QED BY <1>4, <2>1, FS_Subset
<1>8. PICK a \in Nat, b \in Nat : a = Cardinality(X) /\ b = Cardinality(Y)
  BY <1>7, FS_CardinalityType
<1>9. PICK f \in Bijection(1..a, X) :
        /\ Selected(order, X) = [k \in 1..a |-> order[f[k]]]
        /\ \A k, l \in 1..a : k < l => f[k] < f[l]
  <2>1. LET c == Cardinality(X)
            f == Ordered(X)
        IN  /\ f \in Bijection(1..c, X)
            /\ Selected(order, X) = [k \in 1..c |-> order[f[k]]]
            /\ \A k, l \in 1..c : k < l => f[k] < f[l]
    BY <1>7, SelectedIs
  <2> QED BY ONLY <1>8, <2>1
<1>10. PICK g \in Bijection(1..b, Y) : Selected(order, Y) = [k \in 1..b |-> order[g[k]]]
  <2>1. LET c == Cardinality(Y)
            g == Ordered(Y)
        IN  g \in Bijection(1..c, Y) /\ Selected(order, Y) = [k \in 1..c |-> order[g[k]]]
    BY <1>7, SelectedIs
  <2> QED BY ONLY <1>8, <2>1
<1>11. /\ \A k \in 1..a : f[k] \in X /\ f[k] \in 1..n /\ order[f[k]] \in Candidates
       /\ \A k \in 1..b : g[k] \in Y /\ g[k] \in 1..n /\ order[g[k]] \in Candidates
  <2>1. \A k \in 1..a : f[k] \in X
    BY BijectionIs
  <2>2. \A k \in 1..b : g[k] \in Y
    BY BijectionIs
  <2>3. \A k \in 1..n : order[k] \in Candidates
    BY <1>2
  <2> QED BY <1>4, <2>1, <2>2, <2>3
<1>12. PICK ss, part, spot :
         /\ ss = [i \in 1..2 |-> IF i = 1 THEN Selected(order, X) ELSE Selected(order, Y)]
         /\ part = [i \in 1..2 |-> IF i = 1 THEN X ELSE Y]
         /\ spot = [i \in 1..2 |-> IF i = 1 THEN f ELSE g]
  OBVIOUS
<1>13. /\ ss[1] = Selected(order, X) /\ ss[2] = Selected(order, Y) /\ part[1] = X /\ part[2] = Y
       /\ spot[1] = f /\ spot[2] = g /\ \A i \in 1..2 : i = 1 \/ i = 2
  BY <1>12
<1>14. /\ ss[1] \in Seq(Candidates) /\ Len(ss[1]) = a /\ \A k \in 1..a : ss[1][k] = order[f[k]]
       /\ ss[2] \in Seq(Candidates) /\ Len(ss[2]) = b /\ \A k \in 1..b : ss[2][k] = order[g[k]]
  <2>1. Selected(order, X) \in [1..a -> Candidates]
    BY <1>9, <1>11
  <2>2. Selected(order, Y) \in [1..b -> Candidates]
    BY <1>10, <1>11
  <2>3. \A s, c : c \in Nat /\ s \in [1..c -> Candidates] => s \in Seq(Candidates) /\ Len(s) = c
    OBVIOUS
  <2>4. /\ ss[1] \in [1..a -> Candidates] /\ \A k \in 1..a : ss[1][k] = order[f[k]]
        /\ ss[2] \in [1..b -> Candidates] /\ \A k \in 1..b : ss[2][k] = order[g[k]]
    BY <1>9, <1>10, <1>13, <2>1, <2>2
  <2> QED BY <2>3, <2>4
<1>15. PICK u : u = demote(order)
  OBVIOUS
<1>16. u \in Seq(Candidates) /\ Spread(u, ss, 2)
  <2>1. u = ss[1] \o ss[2]
    BY <1>5, <1>13, <1>15
  <2>2. Spread(ss[1] \o ss[2], ss, 2)
    BY <1>14, SpreadTwo
  <2>3. ss[1] \o ss[2] \in Seq(Candidates)
    BY <1>14, ConcatProperties
  <2> QED BY <2>1, <2>2, <2>3
<1>17. Parted(n, order, ss, 2, part, spot)
  <2>1. \A i \in 1..2 : /\ spot[i] \in Bijection(1..Len(ss[i]), part[i]) /\ part[i] \subseteq 1..n
                        /\ \A k \in 1..Len(ss[i]) : ss[i][k] = order[spot[i][k]]
    BY <1>4, <1>9, <1>10, <1>13, <1>14
  <2>2. \A x \in 1..n : \E i \in 1..2 : x \in part[i]
    BY <1>4, <1>13
  <2>3. \A i, j \in 1..2 : \A x \in part[i] : x \in part[j] => i = j
    BY <1>4, <1>13
  <2> QED BY <2>1, <2>2, <2>3 DEF Parted
<1>18. Len(u) = n /\ \E B \in Bijection(1..n, 1..n) : Rejoined(n, order, u, ss, 2, part, spot, B)
  <2>1. 2 \in Nat
    OBVIOUS
  <2> QED BY <1>16, <1>17, <2>1, Joins
<1>19. PICK B \in Bijection(1..n, 1..n) : Rejoined(n, order, u, ss, 2, part, spot, B)
  BY <1>18
<1> DEFINE G == [k \in 1..n |-> F[B[k]]]
<1>20. G \in Bijection(1..n, 1..n)
  BY Fun_BijTransitive
<1>21. \A k \in 1..n : B[k] \in 1..n /\ G[k] = F[B[k]]
  BY BijectionIs
<1> HIDE DEF G
<1>22. \A k \in 1..n : Suits(kind, u[k], es[G[k]])
  BY <1>3, <1>19, <1>21 DEF Rejoined
<1>23. ASSUME NEW k \in 1..n, NEW l \in 1..n, k < l PROVE Sorts(kind, es[G[k]], es[G[l]])
  <2>1. CASE kind = "fill-first"
    BY <2>1 DEF Sorts
  <2>2. CASE kind # "fill-first"
    <3>1. Follow(ss, 2, part, spot, B[k], B[l])
      BY <1>19, <1>23 DEF Rejoined
    <3>2. part[2] = {}
      BY <1>6, <1>13, <2>2
    <3>3. \E x, y \in 1..a : x < y /\ B[k] = f[x] /\ B[l] = f[y]
      BY <1>13, <1>14, <3>1, <3>2 DEF Follow
    <3>4. B[k] < B[l]
      BY <1>9, <3>3
    <3> QED BY <1>3, <1>21, <3>4
  <2> QED BY <2>1, <2>2
<1> QED BY <1>1, <1>15, <1>16, <1>18, <1>20, <1>22, <1>23 DEF Arranged

-----------------------------------------------------------------------------
(* What is at places that are each taken once makes the same bag.          *)
LEMMA SameBag ==
    ASSUME NEW n \in Nat, NEW u, DOMAIN u = 1..n, NEW s, DOMAIN s = 1..n,
           NEW b \in Bijection(1..n, 1..n), \A k \in 1..n : u[k] = s[b[k]]
    PROVE  ToBag(u) = ToBag(s)
<1> DEFINE At(q, x) == {k \in 1..n : q[k] = x}
<1>1. /\ \A k \in 1..n : b[k] \in 1..n
      /\ \A k, l \in 1..n : b[k] = b[l] => k = l
      /\ \A l \in 1..n : \E k \in 1..n : b[k] = l
  <2>1. PICK I : I = 1..n
    OBVIOUS
  <2>2. b \in Bijection(I, I)
    BY <2>1
  <2>3. /\ \A k \in I : b[k] \in I
        /\ \A k, l \in I : b[k] = b[l] => k = l
        /\ \A l \in I : \E k \in I : b[k] = l
    BY ONLY <2>2, BijectionIs
  <2> QED BY ONLY <2>1, <2>3
<1>2. {u[k] : k \in 1..n} = {s[k] : k \in 1..n}
  <2>1. ASSUME NEW k \in 1..n PROVE \E l \in 1..n : s[l] = u[k]
    BY <1>1
  <2>2. ASSUME NEW l \in 1..n PROVE \E k \in 1..n : u[k] = s[l]
    <3>1. PICK k \in 1..n : b[k] = l
      BY <1>1
    <3> QED BY <3>1
  <2> QED BY <2>1, <2>2
<1>3. ASSUME NEW x PROVE Cardinality(At(u, x)) = Cardinality(At(s, x))
  <2> DEFINE X == At(u, x)
             Y == At(s, x)
             c == [k \in X |-> b[k]]
  <2>1. /\ X \subseteq 1..n /\ \A k \in X : b[k] \in Y
        /\ \A l \in Y : \E k \in X : b[k] = l
    <3>1. ASSUME NEW k \in X PROVE k \in 1..n /\ b[k] \in Y
      <4>1. k \in 1..n /\ u[k] = x
        OBVIOUS
      <4> QED BY <1>1, <4>1
    <3>2. ASSUME NEW l \in Y PROVE \E k \in X : b[k] = l
      <4>1. l \in 1..n /\ s[l] = x
        OBVIOUS
      <4>2. PICK k \in 1..n : b[k] = l
        BY <1>1, <4>1
      <4>3. u[k] = x
        BY <4>1, <4>2
      <4> QED BY <4>2, <4>3
    <3> HIDE DEF X, Y
    <3> QED BY <3>1, <3>2
  <2> HIDE DEF X, Y
  <2>2. c \in Bijection(X, Y)
    <3>1. c \in [X -> Y]
      BY <2>1
    <3>2. \A k, l \in X : c[k] = c[l] => k = l
      BY <1>1, <2>1
    <3>3. \A l \in Y : \E k \in X : c[k] = l
      BY <2>1
    <3> HIDE DEF c
    <3> QED BY <3>1, <3>2, <3>3, Fun_IsBij
  <2>3. IsFiniteSet(X)
    <3>1. IsFiniteSet(1..n)
      BY FirstNumbers
    <3> QED BY <2>1, <3>1, FS_Subset
  <2>4. ExistsBijection(X, Y)
    BY <2>2, Fun_ExistsBij
  <2>5. Cardinality(Y) = Cardinality(X)
    BY <2>3, <2>4, FS_Bijection
  <2> QED BY <2>5 DEF X, Y
<1> DEFINE R == {s[k] : k \in 1..n}
<1>4. /\ ToBag(u) = [x \in R |-> Cardinality(At(u, x))]
      /\ ToBag(s) = [x \in R |-> Cardinality(At(s, x))]
  <2>1. /\ ToBag(u) = [x \in {u[k] : k \in 1..n} |-> Cardinality({k \in 1..n : u[k] = x})]
        /\ ToBag(s) = [x \in {s[k] : k \in 1..n} |-> Cardinality({k \in 1..n : s[k] = x})]
    BY DEF ToBag, Range
  <2> QED BY <1>2, <2>1
<1> HIDE DEF At, R
<1> QED BY <1>3, <1>4

(* What a sequence has, by a number that is given to each place.           *)
Groups(order, n, v, T) ==
    [i \in DOMAIN Ordered(T) |-> Selected(order, {k \in 1..n : v[k] = Ordered(T)[i]})]

(* Grouped by a number, a sequence keeps its bag.                          *)
LEMMA Regroups ==
    ASSUME NEW S, NEW n \in Nat, NEW order \in Seq(S), Len(order) = n,
           NEW v \in [1..n -> Int], NEW T, T = {v[k] : k \in 1..n}
    PROVE  ToBag(FlattenSeq(Groups(order, n, v, T))) = ToBag(order)
<1> DEFINE of(i) == {k \in 1..n : v[k] = i}
<1>1. T \in SUBSET Int /\ IsFiniteSet(T) /\ \A k \in 1..n : v[k] \in T
  <2>1. v \in Surjection(1..n, T)
    BY DEF Surjection
  <2>2. IsFiniteSet(1..n)
    BY FirstNumbers
  <2> QED BY <2>1, <2>2, FS_Surjection
<1>2. ASSUME NEW i PROVE of(i) \in SUBSET (1..n) /\ of(i) \in SUBSET Int /\ IsFiniteSet(of(i))
  <2>1. of(i) \in SUBSET (1..n) /\ of(i) \in SUBSET Int /\ IsFiniteSet(1..n)
    BY FirstNumbers
  <2> QED BY <2>1, FS_Subset
<1> DEFINE tiers == Ordered(T)
<1>3. PICK m \in Nat : tiers \in Bijection(1..m, T) /\ DOMAIN tiers = 1..m
  BY <1>1, OrderedLists
<1>4. /\ \A t \in 1..m : tiers[t] \in T
      /\ \A t, w \in 1..m : tiers[t] = tiers[w] => t = w
      /\ \A i \in T : \E t \in 1..m : tiers[t] = i
  <2>1. PICK w \in Bijection(1..m, T) : w = tiers
    BY <1>3
  <2>2. /\ \A t \in 1..m : w[t] \in T
        /\ \A t, l \in 1..m : w[t] = w[l] => t = l
        /\ \A i \in T : \E t \in 1..m : w[t] = i
    BY ONLY w \in Bijection(1..m, T), BijectionIs
  <2> HIDE DEF tiers
  <2> QED BY <2>1, <2>2
<1> HIDE DEF tiers
<1>5. PICK ss, part, spot :
        /\ ss = [t \in 1..m |-> Selected(order, of(tiers[t]))]
        /\ part = [t \in 1..m |-> of(tiers[t])]
        /\ spot = [t \in 1..m |-> Ordered(of(tiers[t]))]
  OBVIOUS
<1>6. \A k \in 1..n : order[k] \in S
  OBVIOUS
<1>7. ASSUME NEW t \in 1..m
      PROVE  /\ part[t] \in SUBSET (1..n)
             /\ spot[t] \in Bijection(1..Len(ss[t]), part[t])
             /\ ss[t] \in Seq(S)
             /\ \A k \in 1..Len(ss[t]) : ss[t][k] = order[spot[t][k]]
  <2>0. PICK K : K = of(tiers[t])
    OBVIOUS
  <2>1. K \in SUBSET (1..n) /\ K \in SUBSET Int /\ IsFiniteSet(K)
    BY <1>2, <2>0
  <2>2. part[t] = K /\ ss[t] = Selected(order, K) /\ spot[t] = Ordered(K)
    BY <1>5, <2>0
  <2>3. PICK c \in Nat : c = Cardinality(K)
    BY <2>1, FS_CardinalityType
  <2>4. PICK f \in Bijection(1..c, K) : f = Ordered(K) /\ ss[t] = [k \in 1..c |-> order[f[k]]]
    BY <2>1, <2>2, <2>3, SelectedIs
  <2>5. \A k \in 1..c : f[k] \in K
    BY BijectionIs
  <2>6. ss[t] \in [1..c -> S]
    BY <1>6, <2>1, <2>4, <2>5
  <2>7. ss[t] \in Seq(S) /\ Len(ss[t]) = c
    BY <2>6
  <2> QED BY <2>1, <2>2, <2>4, <2>7
<1>8. PICK u : u = FlattenSeq(ss)
  OBVIOUS
<1>9. u \in Seq(S) /\ Spread(u, ss, m)
  <2>1. ss \in [1..m -> Seq(S)]
    <3>1. ss = [t \in 1..m |-> ss[t]]
      BY <1>5
    <3> QED BY <1>7, <3>1
  <2> QED BY <1>8, <2>1, FlattenSpreads
<1>10. Parted(n, order, ss, m, part, spot)
  <2>1. \A t \in 1..m : part[t] = of(tiers[t])
    BY <1>5
  <2>2. ASSUME NEW x \in 1..n PROVE \E t \in 1..m : x \in part[t]
    <3>1. PICK t \in 1..m : tiers[t] = v[x]
      BY <1>1, <1>4
    <3>2. x \in of(tiers[t])
      BY <3>1
    <3> QED BY <2>1, <3>2
  <2>3. \A i, j \in 1..m : \A x \in part[i] : x \in part[j] => i = j
    BY <1>4, <2>1
  <2> QED BY <1>7, <2>2, <2>3 DEF Parted
<1>11. Len(u) = n /\ \E b \in Bijection(1..n, 1..n) : Rejoined(n, order, u, ss, m, part, spot, b)
  BY <1>9, <1>10, Joins
<1>12. ToBag(u) = ToBag(order)
  <2>1. PICK b \in Bijection(1..n, 1..n) : \A k \in 1..n : u[k] = order[b[k]]
    BY <1>11 DEF Rejoined
  <2>2. DOMAIN u = 1..n /\ DOMAIN order = 1..n
    BY <1>9, <1>11, LenProperties
  <2> QED BY <2>1, <2>2, SameBag
<1> QED BY <1>3, <1>5, <1>8, <1>12 DEF tiers, Groups

(* So the stages split the attempts (groupByStep).                         *)
LEMMA StagesSplit ==
    ASSUME NEW kind, kind # "fill-first", NEW es \in Seq(Entries),
           NEW order, Arranged(kind, order, es)
    PROVE  ToBag(FlattenSeq(groupByStep(order, es))) = ToBag(order)
<1>1. PICK n \in Nat : n = Len(es) /\ DOMAIN es = 1..n /\ \A k \in 1..n : es[k] \in Entries
  <2>1. Len(es) \in Nat /\ DOMAIN es = 1..Len(es) /\ \A k \in 1..Len(es) : es[k] \in Entries
    BY LenProperties
  <2> QED BY <2>1
<1>2. order \in Seq(Candidates) /\ Len(order) = n /\ DOMAIN order = 1..n
  <2>1. order \in Seq(Candidates) /\ Len(order) = n
    BY <1>1 DEF Arranged
  <2> QED BY <2>1, LenProperties
<1>3. PICK F \in Bijection(1..n, 1..n) : \A i \in 1..n : Suits(kind, order[i], es[F[i]])
  BY <1>1 DEF Arranged
<1> DEFINE by(c) == {e.step : e \in {x \in ToSet(es) : Candidate(x) = c}}
           v == [k \in 1..n |-> Max(by(order[k]))]
<1>4. ASSUME NEW k \in 1..n PROVE Max(by(order[k])) \in Int
  <2>1. F[k] \in 1..n /\ es[F[k]] \in ToSet(es)
    BY <1>1, BijectionIs DEF ToSet
  <2>2. Candidate(es[F[k]]) = order[k]
    <3>1. order[k] \in Candidates /\ es[F[k]] \in Entries
      BY <1>1, <1>2, <2>1
    <3>2. /\ order[k].provider = es[F[k]].provider /\ order[k].model = es[F[k]].model
          /\ order[k].credential = 0
      BY <1>3 DEF Suits
    <3> QED BY <3>1, <3>2 DEF Candidate, Candidates
  <2>3. PICK B : B = by(order[k])
    OBVIOUS
  <2>4. B \in SUBSET Nat
    <3>1. ASSUME NEW e \in ToSet(es) PROVE e.step \in Nat
      <4>1. PICK i \in 1..n : e = es[i]
        BY <1>1 DEF ToSet
      <4> QED BY <1>1, <4>1 DEF Entries
    <3> QED BY <2>3, <3>1
  <2>5. B # {}
    BY <2>1, <2>2, <2>3
  <2>6. IsFiniteSet(B)
    <3>1. Steps(es) \in SUBSET Int /\ IsFiniteSet(Steps(es))
      BY <1>1, StepsAre
    <3>2. B \in SUBSET Steps(es)
      BY <2>3 DEF Steps
    <3> QED BY <3>1, <3>2, FS_Subset
  <2>7. Max(B) \in Nat
    BY <2>4, <2>5, <2>6, MaxOf
  <2> QED BY <2>3, <2>7
<1>5. v \in [1..n -> Int]
  BY <1>4
<1>6. PICK T : T = {v[k] : k \in 1..n}
  OBVIOUS
<1>7. {Max(by(c)) : c \in ToSet(order)} = T
  BY <1>2, <1>6 DEF ToSet
<1>8. groupByStep(order, es) = [i \in DOMAIN Ordered(T) |->
         Selected(order, {k \in 1..n : Max(by(order[k])) = Ordered(T)[i]})]
  BY <1>2, <1>7 DEF groupByStep
<1>9. PICK w : w = v
  OBVIOUS
<1>10. w \in [1..n -> Int] /\ T = {w[k] : k \in 1..n}
  BY <1>5, <1>6, <1>9
<1>11. \A k \in 1..n : w[k] = Max(by(order[k]))
  BY <1>9
<1> HIDE DEF v, by
<1>12. \A i : {k \in 1..n : Max(by(order[k])) = Ordered(T)[i]} = {k \in 1..n : w[k] = Ordered(T)[i]}
  BY <1>11
<1>13. groupByStep(order, es) = Groups(order, n, w, T)
  BY <1>8, <1>12 DEF Groups
<1>14. ToBag(FlattenSeq(Groups(order, n, w, T))) = ToBag(order)
  BY ONLY <1>1, <1>2, <1>10, Regroups
<1> QED BY <1>13, <1>14

-----------------------------------------------------------------------------
(* The invariant of Routing. The table holds combos, an editor about to    *)
(* write has one, a request about to order has entries, and one that is    *)
(* done has a plan that keeps its candidates.                              *)
Tabled ==
    /\ world \in Worlds
    /\ DOMAIN rows \subseteq Names
    /\ \A n \in DOMAIN rows : IsCombo(rows[n].combo)

Edited ==
    /\ edit = [x \in Editors |-> edit[x]]
    /\ \A x \in Editors :
         /\ edit[x].pc \in {"exists", "validate", "write"} => edit[x].what \in world.edits
         /\ edit[x].pc = "write" => /\ {"pc", "what"} \subseteq DOMAIN edit[x]
                                    /\ IsCombo(edit[x].what.combo)

Served(q) ==
    q.pc = "done" /\ q.plan # Absent =>
      /\ Strategic(q.plan)
      /\ q.plan.stages # <<>> =>
            ToBag(FlattenSeq(q.plan.stages)) = ToBag(q.plan.attempts)

Asked ==
    /\ req = [r \in Requests |-> req[r]]
    /\ \A r \in Requests :
         /\ req[r].pc = "list" => req[r].target \in Names /\ IsCombo(req[r].combo)
         /\ req[r].pc = "order" => req[r].entries \in Seq(Entries)
         /\ Served(req[r])

(* Those who have been first since all were are the positions just behind  *)
(* the cursor, and not all positions.                                      *)
Kept == /\ cursor = [roundRobin |-> cursor.roundRobin, fillFirst |-> cursor.fillFirst]
        /\ \A k \in DOMAIN cursor.roundRobin : cursor.roundRobin[k] \in Nat
        /\ \A k \in DOMAIN cursor.fillFirst : cursor.fillFirst[k] \in Nat

Turn(kept, rotation, k) == LET n == rotation.size IN
    /\ n \in Nat \ {0}
    /\ \E m \in 0..(n-1) : rotation.first = Behind(next(kept, k, n), m, n)

Turning == \A k \in DOMAIN round : Turn(cursor.roundRobin, round[k], k)

RoutingIInv == Tabled /\ Edited /\ Asked /\ Kept /\ Turning

LEMMA RoutingInitIInv == RoutingInit => RoutingIInv
<1> SUFFICES ASSUME RoutingInit PROVE RoutingIInv
  OBVIOUS
<1>1. Tabled
  BY WorldsAssumption DEF RoutingInit, Tabled
<1>2. Edited
  BY DEF RoutingInit, Edited, Idle
<1>3. Asked
  BY DEF RoutingInit, Asked, Served, Idle
<1>4. Kept
  BY DEF RoutingInit, Kept, NewCursor
<1>5. Turning
  BY DEF RoutingInit, Turning
<1> QED BY <1>1, <1>2, <1>3, <1>4, <1>5 DEF RoutingIInv

(* An editor's call moves on, and keeps what it was asked.                 *)
LEMMA GotoKeeps ==
    ASSUME Edited, NEW x \in Editors, NEW call, Goto(x, call), world' = world,
           call.pc \in {"exists", "validate", "write"} => call.what \in world.edits,
           call.pc = "write" => /\ {"pc", "what"} \subseteq DOMAIN call
                                /\ IsCombo(call.what.combo)
    PROVE  Edited'
<1>1. edit' = [edit EXCEPT ![x] = call]
  BY DEF Goto
<1> QED BY <1>1 DEF Edited

LEMMA GiveUpKeeps ==
    ASSUME Edited, NEW x \in Editors, GiveUp(x), world' = world
    PROVE  Edited'
  BY DEF Edited, GiveUp, Idle

(* The others see what they have missed, nothing else.                     *)
LEMMA MissedKeeps ==
    ASSUME Edited, NEW x \in Editors, NEW what, world' = world,
           edit' = Missed(x, what) \/ edit' = [Missed(x, what) EXCEPT ![x] = Idle]
    PROVE  Edited'
<1> DEFINE more(y) == IF y # x /\ edit[y].pc = "write"
                      THEN [edit[y] EXCEPT !.missed = @ \cup {what}] ELSE edit[y]
<1>1. ASSUME NEW y \in Editors PROVE edit'[y] = more(y) \/ edit'[y] = Idle
  BY DEF Missed
<1>2. ASSUME NEW y \in Editors
      PROVE  /\ more(y).pc = edit[y].pc
             /\ edit[y].pc \in {"exists", "validate", "write"} => more(y).what = edit[y].what
             /\ DOMAIN more(y) = DOMAIN edit[y]
  BY DEF Edited
<1>3. edit' = [y \in Editors |-> edit'[y]]
  BY DEF Missed
<1> HIDE DEF more
<1> QED BY <1>1, <1>2, <1>3 DEF Edited, Idle

LEMMA EditKeeps ==
    ASSUME RoutingIInv, NEW x \in Editors, Edit(x)
    PROVE  Tabled' /\ Edited' /\ UNCHANGED <<req, cursor, round>>
<1> USE DEF RoutingIInv
<1> DEFINE e == edit[x].what
<1>0. ASSUME UNCHANGED <<world, rows>> PROVE Tabled'
  BY <1>0 DEF Tabled
<1>1. CASE Ask(x)
  <2>1. PICK f \in world.edits : \E call \in {"save", "create", "update"} :
          Goto(x, [pc |-> "exists", call |-> call, what |-> f])
    BY <1>1 DEF Ask
  <2>2. UNCHANGED <<world, rows, req, cursor, round>>
    BY <1>1 DEF Ask, UnchangedByEdit
  <2>3. Edited'
    BY <2>1, <2>2, GotoKeeps
  <2> QED BY <1>0, <2>2, <2>3
<1>2. CASE Exists(x)
  <2>1. UNCHANGED <<world, rows, req, cursor, round>>
    BY <1>2 DEF Exists, UnchangedByEdit
  <2>2. e \in world.edits
    BY <1>2 DEF Exists, Edited
  <2>3. \/ Goto(x, [pc |-> "validate", what |-> e, insert |-> ~Stored(e.name)])
        \/ GiveUp(x)
    BY <1>2 DEF Exists
  <2>4. Edited'
    BY <2>1, <2>2, <2>3, GotoKeeps, GiveUpKeeps
  <2> QED BY <1>0, <2>1, <2>4
<1>3. CASE Validate(x)
  <2> DEFINE depth == ValidateGraph(e.name, e.combo, table)
             call  == [pc |-> "write", what |-> e, insert |-> edit[x].insert,
                       depth |-> depth, missed |-> {}]
  <2>1. UNCHANGED <<world, rows, req, cursor, round>>
    BY <1>3 DEF Validate, UnchangedByEdit
  <2>2. e \in world.edits
    BY <1>3 DEF Validate, Edited
  <2>3. \/ Goto(x, call) /\ depth # Refused
        \/ GiveUp(x)
    BY <1>3 DEF Validate
  <2>4. depth # Refused => IsCombo(e.combo)
    BY DEF ValidateGraph
  <2>5. call.pc = "write" /\ call.what = e /\ {"pc", "what"} \subseteq DOMAIN call
    OBVIOUS
  <2> HIDE DEF depth, call
  <2>6. Edited'
    BY <2>1, <2>2, <2>3, <2>4, <2>5, GotoKeeps, GiveUpKeeps
  <2> QED BY <1>0, <2>1, <2>6
<1>4. CASE WriteRow(x)
  <2>1. UNCHANGED <<world, req, cursor, round>>
    BY <1>4 DEF WriteRow
  <2>2. e \in world.edits /\ IsCombo(e.combo) /\ e.name \in Names
    BY <1>4, WorldsAssumption DEF WriteRow, Edited, Tabled
  <2>3. CASE edit[x].insert = Stored(e.name)
    <3>1. GiveUp(x) /\ UNCHANGED rows
      BY <1>4, <2>3 DEF WriteRow
    <3> QED BY <1>0, <2>1, <3>1, GiveUpKeeps
  <2>4. CASE edit[x].insert # Stored(e.name)
    <3>1. /\ rows' = [n \in DOMAIN rows \cup {e.name} |->
                        IF n = e.name
                        THEN [combo |-> e.combo, current |-> TRUE, depth |-> edit[x].depth]
                        ELSE rows[n]]
          /\ edit' = [Missed(x, "save") EXCEPT ![x] = Idle]
      BY <1>4, <2>4 DEF WriteRow
    <3>2. Tabled'
      BY <2>1, <2>2, <3>1 DEF Tabled
    <3> QED BY <2>1, <3>1, <3>2, MissedKeeps
  <2> QED BY <2>3, <2>4
<1>5. CASE StoreFails(x)
  <2>1. UNCHANGED <<world, rows, req, cursor, round>> /\ GiveUp(x)
    BY <1>5 DEF StoreFails, UnchangedByEdit
  <2> QED BY <1>0, <2>1, GiveUpKeeps
<1>6. CASE Delete(x)
  <2>1. UNCHANGED <<world, req, cursor, round>> /\ edit' = Missed(x, "delete")
    BY <1>6 DEF Delete
  <2>2. PICK n \in DOMAIN rows : rows' = [m \in DOMAIN rows \ {n} |-> rows[m]]
    BY <1>6 DEF Delete
  <2>3. Tabled'
    BY <2>1, <2>2 DEF Tabled
  <2> QED BY <2>1, <2>3, MissedKeeps
<1> QED BY <1>1, <1>2, <1>3, <1>4, <1>5, <1>6 DEF Edit

(* A request's call moves on; what it orders are the entries of a model or *)
(* of a combo.                                                             *)
LEMMA StepKeeps ==
    ASSUME Asked, NEW r \in Requests, NEW call, req' = [req EXCEPT ![r] = call],
           call.pc = "list" => call.target \in Names /\ IsCombo(call.combo),
           call.pc = "order" => call.entries \in Seq(Entries), Served(call)
    PROVE  Asked'
  BY DEF Asked

LEMMA ReplyKeeps ==
    ASSUME Asked, NEW r \in Requests, NEW plan, Reply(r, plan),
           Served([pc |-> "done", plan |-> plan])
    PROVE  Asked'
<1> DEFINE call == [pc |-> "done", plan |-> plan]
<1>1. req' = [req EXCEPT ![r] = call] /\ call.pc = "done"
  BY DEF Reply
<1> HIDE DEF call
<1> QED BY <1>1, StepKeeps DEF call

LEMMA RefusalKeeps ==
    ASSUME Asked, NEW r \in Requests, Reply(r, Absent)
    PROVE  Asked'
  BY ReplyKeeps DEF Served

(* A plan that its strategy has arranged keeps its candidates.             *)
LEMMA ArrangedIsStrategic ==
    ASSUME NEW kind, NEW es \in Seq(Entries), NEW order, Arranged(kind, order, es),
           NEW plan, plan.kind = kind, plan.kept = es, plan.attempts = order
    PROVE  Strategic(plan)
<1>1. PICK n \in Nat : n = Len(es) /\ DOMAIN es = 1..n
  BY LenProperties
<1>2. order \in Seq(Candidates) /\ DOMAIN order = 1..n
  <2>1. order \in Seq(Candidates) /\ Len(order) = n
    BY <1>1 DEF Arranged
  <2> QED BY <2>1, LenProperties
<1>3. PICK f \in Bijection(1..n, 1..n) :
         /\ \A i \in 1..n : Suits(kind, order[i], es[f[i]])
         /\ \A i, j \in 1..n : i < j => Sorts(kind, es[f[i]], es[f[j]])
  BY <1>1 DEF Arranged
<1>4. \A i \in 1..n :
        /\ order[i].provider = es[f[i]].provider /\ order[i].model = es[f[i]].model
        /\ IF kind = "fill-first" /\ es[f[i]].allowed # <<>>
           THEN order[i].credential \in ToSet(es[f[i]].allowed)
           ELSE order[i].credential = 0
  BY <1>3 DEF Suits
<1>5. kind \in {"priority", "fallback", "round-robin", "fusion", "pipeline"} =>
        \A i, j \in 1..n : i < j => es[f[i]].step <= es[f[j]].step
  BY ONLY <1>3 DEF Sorts
<1> QED BY ONLY <1>1, <1>2, <1>3, <1>4, <1>5, plan.kind = kind, plan.kept = es,
    plan.attempts = order DEF Strategic

(* What the preflight keeps are entries.                                   *)
LEMMA SelectedKeeps ==
    ASSUME NEW S, NEW s \in Seq(S), NEW keep \in SUBSET DOMAIN s
    PROVE  Selected(s, keep) \in Seq(S)
<1>1. PICK n \in Nat : DOMAIN s = 1..n /\ \A k \in 1..n : s[k] \in S
  BY LenProperties
<1>2. keep \in SUBSET Int /\ IsFiniteSet(keep)
  <2>1. IsFiniteSet(1..n)
    BY FirstNumbers
  <2> QED BY <1>1, <2>1, FS_Subset
<1>3. PICK c \in Nat : c = Cardinality(keep)
  BY <1>2, FS_CardinalityType
<1>4. PICK f \in Bijection(1..c, keep) : Selected(s, keep) = [k \in 1..c |-> s[f[k]]]
  BY <1>2, <1>3, SelectedIs
<1>5. \A k \in 1..c : s[f[k]] \in S
  <2>1. \A k \in 1..c : f[k] \in keep
    BY BijectionIs
  <2> QED BY <1>1, <2>1
<1> QED BY <1>4, <1>5

(* The plan of a request keeps its candidates, whatever preflight,         *)
(* strategy and cursor.                                                    *)
LEMMA OrderServes ==
    ASSUME RoutingIInv, NEW r \in Requests, Order(r)
    PROVE  Asked'
<1>1. PICK keep \in SUBSET DOMAIN req[r].entries :
        LET c      == req[r].combo
            kept   == Selected(req[r].entries, keep)
            order  == demote(Arrange(c.strategy, req[r].target, kept, cursor).order)
            stages == IF c.strategy \in {"fusion", "pipeline"}
                      THEN groupByStep(order, kept) ELSE <<>>
        IN  \/ Reply(r, Absent)
            \/ \E rounds : Reply(r, [kind |-> c.strategy, kept |-> kept, attempts |-> order,
                                     stages |-> stages, rounds |-> rounds])
  BY DEF Order
<1>2. PICK kind, kept, order, stages :
        /\ kind = req[r].combo.strategy
        /\ kept = Selected(req[r].entries, keep)
        /\ order = demote(Arrange(kind, req[r].target, kept, cursor).order)
        /\ stages = IF kind \in {"fusion", "pipeline"} THEN groupByStep(order, kept) ELSE <<>>
  OBVIOUS
<1>3. \/ Reply(r, Absent)
      \/ \E rounds : Reply(r, [kind |-> kind, kept |-> kept, attempts |-> order,
                               stages |-> stages, rounds |-> rounds])
  BY <1>1, <1>2
<1>4. kept \in Seq(Entries)
  <2>1. req[r].entries \in Seq(Entries)
    BY DEF Order, RoutingIInv, Asked
  <2> QED BY <1>2, <2>1, SelectedKeeps
<1>5. Arranged(kind, order, kept)
  <2>1. Arranged(kind, Arrange(kind, req[r].target, kept, cursor).order, kept)
    BY <1>4, Arranges DEF RoutingIInv, Kept
  <2> QED BY <1>2, <1>4, <2>1, Demotes
<1>6. stages # <<>> => ToBag(FlattenSeq(stages)) = ToBag(order)
  <2>1. CASE kind \in {"fusion", "pipeline"}
    BY <1>2, <1>4, <1>5, <2>1, StagesSplit
  <2> QED BY <1>2, <2>1
<1>7. ASSUME NEW rounds
      PROVE  Served([pc |-> "done", plan |-> [kind |-> kind, kept |-> kept, attempts |-> order,
                                              stages |-> stages, rounds |-> rounds]])
  <2> DEFINE plan == [kind |-> kind, kept |-> kept, attempts |-> order,
                      stages |-> stages, rounds |-> rounds]
  <2>1. /\ plan.kind = kind /\ plan.kept = kept /\ plan.attempts = order
        /\ plan.stages = stages
    OBVIOUS
  <2> HIDE DEF plan
  <2>2. PICK p : p = plan
    OBVIOUS
  <2>3. Strategic(p)
    BY <1>4, <1>5, <2>1, <2>2, ArrangedIsStrategic
  <2>4. Served([pc |-> "done", plan |-> p])
    BY <1>6, <2>1, <2>2, <2>3 DEF Served
  <2> QED BY <2>2, <2>4 DEF plan
<1>8. Asked
  BY DEF RoutingIInv
<1>9. CASE Reply(r, Absent)
  BY <1>8, <1>9, RefusalKeeps
<1>10. ASSUME NEW rounds, Reply(r, [kind |-> kind, kept |-> kept, attempts |-> order,
                                    stages |-> stages, rounds |-> rounds])
       PROVE  Asked'
  <2>1. PICK p : p = [kind |-> kind, kept |-> kept, attempts |-> order,
                      stages |-> stages, rounds |-> rounds]
    OBVIOUS
  <2>2. Reply(r, p) /\ Served([pc |-> "done", plan |-> p])
    BY <1>7, <1>10, <2>1
  <2> QED BY <1>8, <2>2, ReplyKeeps
<1> QED BY <1>3, <1>9, <1>10

LEMMA RouteKeeps ==
    ASSUME RoutingIInv, NEW r \in Requests, Route(r)
    PROVE  /\ Asked' /\ UNCHANGED <<world, rows, edit>>
           /\ UNCHANGED <<cursor, round>> \/ Order(r)
<1> USE DEF RoutingIInv
<1>1. CASE LookUp(r)
  <2>1. UNCHANGED <<world, rows, edit, cursor, round>>
    BY <1>1 DEF LookUp, UnchangedByRequest
  <2>2. PICK t \in world.targets :
          \/ Step(r, [pc |-> "get", target |-> t])
          \/ LET step == [kind |-> "model", ref |-> t, weight |-> 1, allowed |-> <<>>]
                 auto == [strategy |-> "auto", steps |-> <<step>>]
             IN  IF SpreadModel(1, step) = <<>> THEN Reply(r, Absent)
                 ELSE Step(r, [pc |-> "order", target |-> Absent, combo |-> auto,
                               entries |-> SpreadModel(1, step)])
    BY <1>1 DEF LookUp
  <2> DEFINE step == [kind |-> "model", ref |-> t, weight |-> 1, allowed |-> <<>>]
             auto == [strategy |-> "auto", steps |-> <<step>>]
             get  == [pc |-> "get", target |-> t]
             call == [pc |-> "order", target |-> Absent, combo |-> auto,
                      entries |-> SpreadModel(1, step)]
  <2>3. Step(r, get) \/ Reply(r, Absent) \/ Step(r, call)
    BY <2>2
  <2>4. get.pc = "get" /\ call.pc = "order" /\ call.entries = SpreadModel(1, step)
    OBVIOUS
  <2>5. SpreadModel(1, step) \in Seq(Entries)
    <3>1. step.weight \in Nat /\ step.allowed \in Seq(Nat) /\ 1 \in Nat
      OBVIOUS
    <3>2. PICK s : s = step
      OBVIOUS
    <3> HIDE DEF step
    <3> QED BY <3>1, <3>2, SpreadsModel
  <2> HIDE DEF get, call, step
  <2>6. CASE Step(r, get)
    BY <2>1, <2>4, <2>6, StepKeeps DEF Step, Served
  <2>7. CASE Step(r, call)
    BY <2>1, <2>4, <2>5, <2>7, StepKeeps DEF Step, Served
  <2> QED BY <2>1, <2>3, <2>6, <2>7, RefusalKeeps
<1>2. CASE Get(r)
  <2>1. UNCHANGED <<world, rows, edit, cursor, round>>
    BY <1>2 DEF Get, UnchangedByRequest
  <2> DEFINE call == [pc |-> "list", target |-> req[r].target,
                      combo |-> rows[req[r].target].combo]
  <2>2. (Readable(req[r].target) /\ Step(r, call)) \/ Reply(r, Absent)
    BY <1>2 DEF Get
  <2>3. CASE Readable(req[r].target) /\ Step(r, call)
    <3>1. req[r].target \in Names /\ IsCombo(rows[req[r].target].combo)
      BY <2>3 DEF Tabled, Readable, Stored
    <3>2. /\ call.pc = "list" /\ call.target = req[r].target
          /\ call.combo = rows[req[r].target].combo
      OBVIOUS
    <3> HIDE DEF call
    <3> QED BY <2>1, <2>3, <3>1, <3>2, StepKeeps DEF Step, Served
  <2> QED BY <2>1, <2>2, <2>3, RefusalKeeps
<1>3. CASE List(r)
  <2>1. UNCHANGED <<world, rows, edit, cursor, round>>
    BY <1>3 DEF List, UnchangedByRequest
  <2> DEFINE t    == req[r].target
             all  == [n \in DOMAIN rows \cup {t} |->
                        IF n = t THEN req[r].combo ELSE rows[n].combo]
             es   == Expand(all, t).entries
             call == [pc |-> "order", target |-> t, combo |-> req[r].combo, entries |-> es]
  <2>2. Step(r, call) \/ Reply(r, Absent)
    BY <1>3 DEF List
  <2>3. t \in Names /\ IsCombo(req[r].combo)
    BY <1>3 DEF List, Asked
  <2>4. Stocked(all) /\ t \in DOMAIN all
    BY <2>3 DEF Stocked, Tabled
  <2>5. es \in Seq(Entries)
    <3>1. PICK u, n : u = all /\ n = t
      OBVIOUS
    <3>2. Expand(u, n).entries \in Seq(Entries)
      BY <2>4, <3>1, ExpandEntries
    <3> QED BY <3>1, <3>2
  <2>6. call.pc = "order" /\ call.entries = es
    OBVIOUS
  <2> HIDE DEF call, es
  <2>7. CASE Step(r, call)
    BY <2>1, <2>5, <2>6, <2>7, StepKeeps DEF Step, Served
  <2> QED BY <2>1, <2>2, <2>7, RefusalKeeps
<1>4. CASE ReadFails(r)
  <2>1. UNCHANGED <<world, rows, edit, cursor, round>> /\ Reply(r, Absent)
    BY <1>4 DEF ReadFails, UnchangedByRequest
  <2> QED BY <2>1, RefusalKeeps
<1>5. CASE Order(r)
  <2>1. UNCHANGED <<world, rows, edit>>
    BY <1>5 DEF Order
  <2> QED BY <1>5, <2>1, OrderServes
<1>6. CASE Answered(r)
  <2>1. UNCHANGED <<world, rows, edit, cursor, round>> /\ req' = [req EXCEPT ![r] = Idle]
    BY <1>6 DEF Answered, UnchangedByRequest
  <2>2. Idle.pc = "idle"
    BY DEF Idle
  <2> QED BY <2>1, <2>2, StepKeeps DEF Served
<1> QED BY <1>1, <1>2, <1>3, <1>4, <1>5, <1>6 DEF Route

-----------------------------------------------------------------------------
(* A step of some entries has one at least, and finitely many.             *)
LEMMA SizeCounts ==
    ASSUME NEW n \in Nat, NEW kept, DOMAIN kept = 1..n, NEW i \in Steps(kept)
    PROVE  size(kept, i) \in Nat \ {0}
<1> DEFINE K == {k \in DOMAIN kept : kept[k].step = i}
<1>1. K # {}
  BY DEF Steps, ToSet
<1>2. IsFiniteSet(1..n)
  BY FS_Interval
<1>3. IsFiniteSet(K)
  <2>1. K \in SUBSET (1..n)
    OBVIOUS
  <2> HIDE DEF K
  <2> QED BY <1>2, <2>1, FS_Subset
<1> HIDE DEF K
<1>4. Cardinality(K) \in Nat /\ Cardinality(K) # 0
  BY <1>1, <1>3, FS_CardinalityType, FS_EmptySet
<1> QED BY <1>4 DEF size, ofStep, K

(* Of what the strategies make of the cursor, only round-robin's is told.  *)
LEMMA ArrangeTurns ==
    ASSUME Kept, NEW kind, NEW name, NEW entries \in Seq(Entries)
    PROVE  LET c == Arrange(kind, name, entries, cursor).cursor IN
           /\ c = [roundRobin |-> c.roundRobin, fillFirst |-> c.fillFirst]
           /\ \A k \in DOMAIN c.fillFirst : c.fillFirst[k] \in Nat
           /\ kind # "round-robin" => c.roundRobin = cursor.roundRobin
           /\ kind = "round-robin" =>
                c.roundRobin = turned(name, entries, cursor.roundRobin)
<1> DEFINE c == Arrange(kind, name, entries, cursor).cursor
<1>1. CASE kind = "round-robin"
  BY <1>1 DEF Arrange, roundRobin, Kept
<1>2. CASE kind = "fill-first"
  <2>1. c = fillFirst(entries, cursor).cursor
    BY <1>2 DEF Arrange
  <2>2. \E kept : c = [cursor EXCEPT !.fillFirst = kept]
    <3> DEFINE s == Sorted(entries, "step")
               f == CHOOSE g : Positions(cursor.fillFirst, s, Len(s), g)
    <3>1. fillFirst(entries, cursor).cursor = [cursor EXCEPT !.fillFirst = f[Len(s)]]
      BY FillFirstIs
    <3> HIDE DEF f, s, c
    <3> QED BY <2>1, <3>1
  <2>3. \A k \in DOMAIN c.fillFirst : c.fillFirst[k] \in Nat
    BY Arranges DEF Kept
  <2> HIDE DEF c
  <2>4. c = [roundRobin |-> c.roundRobin, fillFirst |-> c.fillFirst]
        /\ c.roundRobin = cursor.roundRobin
    BY <2>2 DEF Kept
  <2> QED BY <1>2, <2>3, <2>4 DEF c
<1>3. CASE kind # "round-robin" /\ kind # "fill-first"
  <2>1. c = cursor
    BY <1>3 DEF Arrange
  <2> QED BY <1>3, <2>1 DEF Kept
<1> QED BY <1>1, <1>2, <1>3

LEMMA TurnsOn ==
    ASSUME Kept, Turning, NEW l \in Nat, NEW kept, DOMAIN kept = 1..l, NEW name
    PROVE  LET rr == turned(name, kept, cursor.roundRobin)
               rd == firsts(name, kept)
           IN  /\ \A k \in DOMAIN rr : rr[k] \in Nat
               /\ \A k \in DOMAIN rd : Turn(rr, rd[k], k)
<1> DEFINE old  == cursor.roundRobin
           keys == {<<name, i>> : i \in Steps(kept)}
           rr   == turned(name, kept, old)
           rd   == firsts(name, kept)
<1>1. /\ DOMAIN rr = DOMAIN old \cup keys
      /\ \A k \in keys : rr[k] = advance(old, k, size(kept, k[2]))[k]
      /\ \A k \in DOMAIN old \ keys : rr[k] = old[k]
  BY DEF turned
<1>2. \A k \in DOMAIN old : old[k] \in Nat
  BY DEF Kept
<1>3. ASSUME NEW k \in keys
      PROVE  LET n == size(kept, k[2])
                 p == next(old, k, n)
                 q == IF p + 1 = n THEN 0 ELSE p + 1
             IN  /\ n \in Nat \ {0} /\ p \in 0..(n-1)
                 /\ k \in DOMAIN rr /\ rr[k] = q /\ next(rr, k, n) = q /\ q \in 0..(n-1)
  <2> DEFINE n == size(kept, k[2])
             p == next(old, k, n)
             q == IF p + 1 = n THEN 0 ELSE p + 1
  <2>1. PICK i \in Steps(kept) : k = <<name, i>>
    OBVIOUS
  <2>2. n \in Nat \ {0}
    BY <2>1, SizeCounts
  <2> HIDE DEF n
  <2>3. p \in 0..(n-1)
    BY <1>2, <2>2 DEF next
  <2>4. advance(old, k, n)[k] = (p + 1) % n
    BY DEF advance
  <2> HIDE DEF p
  <2>5. (p + 1) % n = q /\ q \in 0..(n-1)
    <3>1. (p + 1) % n = q
      BY ONLY <2>2, <2>3, WrapsAround
    <3>2. q \in 0..(n-1)
      BY <2>2, <2>3
    <3> QED BY <3>1, <3>2
  <2>6. k \in DOMAIN rr /\ rr[k] = q
    BY <1>1, <2>4, <2>5 DEF n
  <2> HIDE DEF q, rr
  <2>7. next(rr, k, n) = q
    BY <2>2, <2>5, <2>6 DEF next
  <2> QED BY <2>2, <2>3, <2>5, <2>6, <2>7 DEF n, p, q
<1>4. ASSUME NEW k \in DOMAIN rr PROVE rr[k] \in Nat
  <2> HIDE DEF keys, rr
  <2>1. CASE k \in keys
    <3> DEFINE n == size(kept, k[2])
               p == next(old, k, n)
               q == IF p + 1 = n THEN 0 ELSE p + 1
    <3>1. n \in Nat \ {0} /\ rr[k] = q /\ q \in 0..(n-1)
      BY <1>3, <2>1
    <3> HIDE DEF n, q
    <3> QED BY <3>1
  <2>2. CASE k \notin keys
    BY <1>1, <1>2, <1>4, <2>2
  <2> QED BY <2>1, <2>2
<1>5. ASSUME NEW k \in keys PROVE Turn(rr, rd[k], k)
  <2> DEFINE n  == size(kept, k[2])
             p  == next(old, k, n)
             q  == IF p + 1 = n THEN 0 ELSE p + 1
             so == IF k \in DOMAIN round /\ round[k].size = n THEN round[k].first ELSE {}
             new == so \cup {p}
  <2>1. /\ n \in Nat \ {0} /\ p \in 0..(n-1)
        /\ next(rr, k, n) = q /\ q \in 0..(n-1)
    BY <1>3
  <2>2. rd[k] = [size |-> n, first |-> IF Cardinality(new) = n THEN {} ELSE new]
    BY DEF firsts
  <2> HIDE DEF keys, rr, rd, n
  <2>3. PICK m \in 0..(n-1) : so = Behind(p, m, n)
    <3>1. CASE k \in DOMAIN round /\ round[k].size = n
      BY <2>1, <3>1 DEF Turning, Turn
    <3>2. CASE ~(k \in DOMAIN round /\ round[k].size = n)
      <4>1. Behind(p, 0, n) = {} /\ 0 \in 0..(n-1)
        <5> HIDE DEF p
        <5> QED BY <2>1 DEF Behind
      <4> QED BY <3>2, <4>1
    <3> QED BY <3>1, <3>2
  <2> HIDE DEF so, p
  <2>4. /\ new = Behind(q, m + 1, n) /\ Behind(q, 0, n) = {}
        /\ m + 1 = n => new = 0..(n-1)
    <3>1. /\ Behind(q, 0, n) = {}
          /\ Behind(p, m, n) \cup {p} = Behind(q, m + 1, n)
          /\ m + 1 = n => Behind(q, m + 1, n) = 0..(n-1)
      BY ONLY <2>1, m \in 0..(n-1), BehindMoves
    <3> QED BY <2>3, <3>1
  <2>5. m + 1 = n => Cardinality(new) = n
    <3>1. 0 \in Int /\ n - 1 \in Int /\ n - 1 - 0 + 1 = n /\ n - 1 >= 0
      BY <2>1
    <3>2. Cardinality(0..(n-1)) = n
      BY <3>1, FS_Interval
    <3> QED BY <2>4, <3>2
  <2> HIDE DEF new, q
  <2>6. CASE Cardinality(new) = n
    <3>1. rd[k].size = n /\ rd[k].first = Behind(next(rr, k, n), 0, n) /\ 0 \in 0..(n-1)
      BY <2>1, <2>2, <2>4, <2>6
    <3> QED BY <2>1, <3>1 DEF Turn
  <2>7. CASE Cardinality(new) # n
    <3>1. m + 1 \in 0..(n-1)
      BY <2>1, <2>5, <2>7
    <3>2. rd[k].size = n /\ rd[k].first = Behind(next(rr, k, n), m + 1, n)
      BY <2>1, <2>2, <2>4, <2>7
    <3> QED BY <2>1, <3>1, <3>2 DEF Turn
  <2> QED BY <2>6, <2>7
<1>6. ASSUME NEW k \in DOMAIN round \ keys PROVE Turn(rr, rd[k], k)
  <2>1. rd[k] = round[k]
    BY DEF firsts
  <2> HIDE DEF keys, rr, rd
  <2>2. \A n : next(rr, k, n) = next(old, k, n)
    BY <1>1 DEF next
  <2> QED BY <2>1, <2>2 DEF Turning, Turn
<1>7. DOMAIN rd = DOMAIN round \cup keys
  BY DEF firsts
<1> HIDE DEF keys, rr, rd
<1>8. \A k \in DOMAIN rd : Turn(rr, rd[k], k)
  BY <1>5, <1>6, <1>7
<1> QED BY <1>4, <1>8 DEF rr, rd

LEMMA OrderTurns ==
    ASSUME RoutingIInv, NEW r \in Requests, Order(r)
    PROVE  Kept' /\ Turning'
<1> USE DEF RoutingIInv
<1>1. PICK keep \in SUBSET DOMAIN req[r].entries :
        LET c    == req[r].combo
            kept == Selected(req[r].entries, keep)
        IN  /\ cursor' = Arrange(c.strategy, req[r].target, kept, cursor).cursor
            /\ round' = IF c.strategy = "round-robin" THEN firsts(req[r].target, kept)
                        ELSE round
  BY DEF Order
<1> DEFINE kept == Selected(req[r].entries, keep)
           kind == req[r].combo.strategy
           name == req[r].target
<1>2. kept \in Seq(Entries) /\ \E l \in Nat : DOMAIN kept = 1..l
  <2>1. req[r].entries \in Seq(Entries)
    BY DEF Order, Asked
  <2>2. PICK s \in Seq(Entries) : s = kept
    BY <2>1, SelectedKeeps
  <2>3. Len(s) \in Nat /\ DOMAIN s = 1..Len(s)
    BY LenProperties
  <2> QED BY <2>2, <2>3
<1>3. /\ cursor' = Arrange(kind, name, kept, cursor).cursor
      /\ round' = IF kind = "round-robin" THEN firsts(name, kept) ELSE round
  BY <1>1
<1> HIDE DEF kept, kind, name
<1>4. /\ cursor' = [roundRobin |-> cursor'.roundRobin, fillFirst |-> cursor'.fillFirst]
      /\ \A k \in DOMAIN cursor'.fillFirst : cursor'.fillFirst[k] \in Nat
      /\ kind # "round-robin" => cursor'.roundRobin = cursor.roundRobin
      /\ kind = "round-robin" =>
           cursor'.roundRobin = turned(name, kept, cursor.roundRobin)
  BY <1>2, <1>3, ArrangeTurns
<1>5. CASE kind = "round-robin"
  <2>1. /\ \A k \in DOMAIN cursor'.roundRobin : cursor'.roundRobin[k] \in Nat
        /\ \A k \in DOMAIN round' : Turn(cursor'.roundRobin, round'[k], k)
    BY <1>2, <1>3, <1>4, <1>5, TurnsOn
  <2> QED BY <1>4, <2>1 DEF Kept, Turning, Turn, next
<1>6. CASE kind # "round-robin"
  BY <1>3, <1>4, <1>6 DEF Kept, Turning, Turn, next
<1> QED BY <1>5, <1>6

(* The invariant of Routing, for any table, editors, requests and length   *)
(* of the chains of references.                                            *)
THEOREM RoutingInvariant == RoutingSpec => []RoutingIInv
<1>1. RoutingIInv /\ [RoutingNext]_routingVars => RoutingIInv'
  <2> SUFFICES ASSUME RoutingIInv, [RoutingNext]_routingVars PROVE RoutingIInv'
    OBVIOUS
  <2>1. ASSUME NEW x \in Editors, Edit(x) PROVE RoutingIInv'
    <3>1. Tabled' /\ Edited' /\ UNCHANGED <<req, cursor, round>>
      BY <2>1, EditKeeps
    <3> QED BY <3>1 DEF RoutingIInv, Asked, Kept, Turning, Turn, next
  <2>2. ASSUME NEW r \in Requests, Route(r) PROVE RoutingIInv'
    <3>1. /\ Asked' /\ UNCHANGED <<world, rows, edit>>
          /\ UNCHANGED <<cursor, round>> \/ Order(r)
      BY <2>2, RouteKeeps
    <3>2. Tabled' /\ Edited'
      BY <3>1 DEF RoutingIInv, Tabled, Edited
    <3>3. CASE UNCHANGED <<cursor, round>>
      BY <3>1, <3>2, <3>3 DEF RoutingIInv, Kept, Turning, Turn, next
    <3>4. CASE Order(r)
      BY <3>1, <3>2, <3>4, OrderTurns DEF RoutingIInv
    <3> QED BY <3>1, <3>3, <3>4
  <2>3. CASE UNCHANGED routingVars
    BY <2>3 DEF routingVars, RoutingIInv, Tabled, Edited, Asked, Kept, Turning, Turn, next
  <2> QED BY <2>1, <2>2, <2>3 DEF RoutingNext
<1> QED BY <1>1, RoutingInitIInv, PTL DEF RoutingSpec

(* A rotation is fair across concurrent requests and edits: as long as the *)
(* step keeps its number of candidates, whoever comes first has not been   *)
(* first since all the others were (nextRR, cursor.go).                    *)
THEOREM RotationStaysFair == RoutingSpec => []RotationIsFair
<1>1. RoutingIInv => RotationIsFair
  <2> SUFFICES ASSUME RoutingIInv, NEW k \in DOMAIN round
               PROVE  next(cursor.roundRobin, k, round[k].size) \notin round[k].first
    BY DEF RotationIsFair
  <2> DEFINE n == round[k].size
             p == next(cursor.roundRobin, k, n)
  <2>1. PICK m \in 0..(n-1) : n \in Nat \ {0} /\ round[k].first = Behind(p, m, n)
    BY DEF RoutingIInv, Turning, Turn
  <2>2. p \notin Behind(p, m, n)
    BY <2>1 DEF Behind
  <2> QED BY <2>1, <2>2
<1> QED BY <1>1, RoutingInvariant, PTL

-----------------------------------------------------------------------------
(* The depth of a combo (validate.go). Depth is a recursion over paths,    *)
(* which ends since a path that meets a combo again is refused: the names  *)
(* a path has not met become fewer.                                        *)
Rank(path) == IF path = <<>> THEN Cardinality(Names) + 1
              ELSE Cardinality(Names \ ToSet(Front(path)))

LEMMA PathsGrow ==
    ASSUME NEW path \in Seq(Names), NEW n \in Names
    PROVE  LET longer == Append(path, n) IN
           /\ longer \in Seq(Names) /\ longer # <<>> /\ Len(longer) = Len(path) + 1
           /\ Front(longer) = path /\ Last(longer) = n
           /\ longer[Len(path) + 1] = n /\ \A i \in 1..Len(path) : longer[i] = path[i]
           /\ ToSet(longer) = ToSet(path) \cup {n}
<1> DEFINE longer == Append(path, n)
<1>1. /\ longer \in Seq(Names) /\ Len(longer) = Len(path) + 1 /\ Len(path) \in Nat
      /\ longer[Len(path) + 1] = n /\ \A i \in 1..Len(path) : longer[i] = path[i]
  BY AppendProperties
<1>2. longer # <<>>
  BY <1>1
<1>3. Last(longer) = n
  BY <1>1 DEF Last
<1> HIDE DEF longer
<1>4. Front(longer) = path
  <2>1. /\ Front(longer) \in Seq(Names) /\ Len(Front(longer)) = Len(path)
        /\ \A i \in 1..Len(path) : Front(longer)[i] = longer[i]
    BY <1>1 DEF Front
  <2> QED BY <1>1, <2>1, SeqEqual
<1>5. ToSet(longer) = ToSet(path) \cup {n}
  <2>1. DOMAIN longer = 1 .. Len(path) + 1 /\ DOMAIN path = 1..Len(path)
    BY <1>1
  <2> QED BY <1>1, <2>1 DEF ToSet
<1> QED BY <1>1, <1>2, <1>3, <1>4, <1>5 DEF longer

LEMMA ToSetEnds ==
    ASSUME NEW path \in Seq(Names), path # <<>>
    PROVE  /\ Last(path) \in Names /\ Front(path) \in Seq(Names)
           /\ ToSet(path) = ToSet(Front(path)) \cup {Last(path)}
           /\ ToSet(Front(path)) \subseteq Names
           /\ path = Append(Front(path), Last(path)) /\ Len(Front(path)) = Len(path) - 1
<1>1. Len(path) \in Nat \ {0} /\ Last(path) \in Names
  BY DEF Last
<1>2. /\ Front(path) \in Seq(Names) /\ Len(Front(path)) = Len(path) - 1
      /\ \A i \in 1 .. Len(path) - 1 : Front(path)[i] = path[i]
  <2> DEFINE m == Len(path) - 1
  <2>1. m \in 0..Len(path) /\ 1 \in 1 .. Len(path) + 1 /\ m - 1 + 1 = m
    BY <1>1
  <2>2. Front(path) = SubSeq(path, 1, m)
    BY DEF Front
  <2> HIDE DEF m
  <2>3. /\ SubSeq(path, 1, m) \in Seq(Names)
        /\ Len(SubSeq(path, 1, m)) = m
        /\ \A i \in 1..m : SubSeq(path, 1, m)[i] = path[i]
    BY <1>1, <2>1, SubSeqProperties
  <2> QED BY <2>2, <2>3 DEF m
<1>3. path = Append(Front(path), Last(path))
  <2>1. /\ Append(Front(path), Last(path)) \in Seq(Names)
        /\ Len(Append(Front(path), Last(path))) = Len(path)
        /\ \A i \in 1 .. Len(path) - 1 : Append(Front(path), Last(path))[i] = path[i]
        /\ Append(Front(path), Last(path))[Len(path)] = Last(path)
    BY <1>1, <1>2, AppendProperties
  <2>2. \A i \in 1..Len(path) : Append(Front(path), Last(path))[i] = path[i]
    BY <1>1, <2>1 DEF Last
  <2> QED BY <2>1, <2>2, SeqEqual
<1>4. ToSet(path) = ToSet(Front(path)) \cup {Last(path)}
  <2>1. PICK a \in Seq(Names), z \in Names : a = Front(path) /\ z = Last(path)
    BY <1>1, <1>2
  <2>2. ToSet(Append(a, z)) = ToSet(a) \cup {z}
    BY PathsGrow
  <2> QED BY ONLY <1>3, <2>1, <2>2
<1>5. ToSet(Front(path)) \subseteq Names
  BY <1>2 DEF ToSet
<1> QED BY <1>1, <1>2, <1>3, <1>4, <1>5

LEMMA RankFalls ==
    ASSUME NEW path \in Seq(Names), NEW n \in Names,
           path = <<>> \/ Last(path) \notin ToSet(Front(path))
    PROVE  /\ Rank(path) \in Nat /\ Rank(Append(path, n)) \in Nat
           /\ Rank(path) = Rank(Append(path, n)) + 1
<1> DEFINE longer == Append(path, n)
<1>1. longer # <<>> /\ Front(longer) = path
  BY PathsGrow
<1> HIDE DEF longer
<1>2. IsFiniteSet(Names)
  BY CatalogAssumption
<1>3. IsFiniteSet(Names \ ToSet(path)) /\ IsFiniteSet(Names \ ToSet(Front(path)))
  BY <1>2, FS_Subset
<1>4. Rank(longer) = Cardinality(Names \ ToSet(path)) /\ Rank(longer) \in Nat
  BY <1>1, <1>3, FS_CardinalityType DEF Rank
<1>5. CASE path = <<>>
  <2>1. ToSet(path) = {} /\ Names \ ToSet(path) = Names
    BY <1>5 DEF ToSet
  <2>2. Rank(path) = Cardinality(Names) + 1 /\ Rank(longer) = Cardinality(Names)
    BY <1>4, <1>5, <2>1 DEF Rank
  <2> QED BY <1>4, <2>2 DEF longer
<1>6. CASE path # <<>>
  <2> DEFINE left == Names \ ToSet(Front(path))
  <2>1. Last(path) \in left /\ Names \ ToSet(path) = left \ {Last(path)}
    BY <1>6, ToSetEnds
  <2>2. Rank(path) = Cardinality(left) /\ IsFiniteSet(left)
    BY <1>3, <1>6 DEF Rank
  <2> HIDE DEF left
  <2>3. Cardinality(left \ {Last(path)}) = Cardinality(left) - 1 /\ Cardinality(left) \in Nat
    BY <2>1, <2>2, FS_RemoveElement, FS_CardinalityType
  <2>4. Rank(longer) = Rank(path) - 1 /\ Rank(path) \in Nat
    BY <1>4, <2>1, <2>2, <2>3 DEF left
  <2> QED BY <1>4, <2>4 DEF longer
<1> QED BY <1>5, <1>6

LEMMA RankIsNat == ASSUME NEW path \in Seq(Names) PROVE Rank(path) \in 0 .. Cardinality(Names) + 1
<1>1. IsFiniteSet(Names) /\ Cardinality(Names) \in Nat
  BY CatalogAssumption, FS_CardinalityType
<1>2. Names \ ToSet(Front(path)) \subseteq Names
  OBVIOUS
<1>3. /\ Cardinality(Names \ ToSet(Front(path))) \in Nat
      /\ Cardinality(Names \ ToSet(Front(path))) <= Cardinality(Names)
  BY <1>1, <1>2, FS_Subset, FS_CardinalityType
<1> QED BY <1>1, <1>3 DEF Rank

Deepens(t, f, path) == DepthBelow(t, path, [n \in DOMAIN t |-> f[Append(path, n)]])
Descends(t, f, l) ==
    f = [path \in Seq(Names) |-> IF Rank(path) <= l THEN Deepens(t, f, path) ELSE 0]

LEMMA DescendsFirst ==
    ASSUME NEW t, DOMAIN t \subseteq Names
    PROVE  \E f : Descends(t, f, 0)
<1> DEFINE f == [path \in Seq(Names) |-> IF Rank(path) <= 0 THEN Refused ELSE 0]
           h == [path \in Seq(Names) |-> IF Rank(path) <= 0 THEN Deepens(t, f, path) ELSE 0]
<1>1. ASSUME NEW path \in Seq(Names), Rank(path) <= 0 PROVE Deepens(t, f, path) = Refused
  <2>1. IsFiniteSet(Names) /\ Cardinality(Names) \in Nat
    BY CatalogAssumption, FS_CardinalityType
  <2>2. path # <<>> /\ Cardinality(Names \ ToSet(Front(path))) = 0
    <3>1. Rank(path) = 0
      BY <1>1, <2>1, RankIsNat
    <3> QED BY <2>1, <3>1 DEF Rank
  <2>3. Names \ ToSet(Front(path)) = {}
    BY <2>1, <2>2, FS_Subset, FS_EmptySet
  <2>4. Last(path) \in ToSet(Front(path))
    BY <2>2, <2>3, ToSetEnds
  <2> HIDE DEF f
  <2> QED BY <2>4 DEF Deepens, DepthBelow
<1>2. \A path \in Seq(Names) : f[path] = h[path]
  BY <1>1
<1>3. f = h
  BY <1>2
<1> HIDE DEF f
<1> QED BY <1>3 DEF Descends

LEMMA DescendsFurther ==
    ASSUME NEW t, DOMAIN t \subseteq Names, NEW l \in Nat, NEW f, Descends(t, f, l)
    PROVE  \E g : Descends(t, g, l + 1)
<1> DEFINE g == [path \in Seq(Names) |->
                    IF Rank(path) <= l + 1 THEN Deepens(t, f, path) ELSE 0]
           h == [path \in Seq(Names) |->
                    IF Rank(path) <= l + 1 THEN Deepens(t, g, path) ELSE 0]
<1>1. \A path \in Seq(Names) :
        f[path] = IF Rank(path) <= l THEN Deepens(t, f, path) ELSE 0
  BY DEF Descends
<1>2. \A path \in Seq(Names) :
        g[path] = IF Rank(path) <= l + 1 THEN Deepens(t, f, path) ELSE 0
  OBVIOUS
<1>3. ASSUME NEW path \in Seq(Names), Rank(path) <= l + 1
      PROVE  Deepens(t, f, path) = Deepens(t, g, path)
  <2> HIDE DEF g
  <2>1. CASE Last(path) \in ToSet(Front(path))
    BY <2>1 DEF Deepens, DepthBelow
  <2>2. CASE Last(path) \notin ToSet(Front(path))
    <3>1. ASSUME NEW n \in DOMAIN t PROVE f[Append(path, n)] = g[Append(path, n)]
      <4>1. n \in Names /\ Append(path, n) \in Seq(Names)
        BY PathsGrow
      <4>2. Rank(Append(path, n)) <= l /\ Rank(Append(path, n)) <= l + 1
        <5>1. /\ Rank(path) \in Nat /\ Rank(Append(path, n)) \in Nat
              /\ Rank(path) = Rank(Append(path, n)) + 1
          BY <2>2, <4>1, RankFalls
        <5> QED BY <1>3, <5>1
      <4> QED BY <1>1, <1>2, <4>1, <4>2
    <3>2. [n \in DOMAIN t |-> f[Append(path, n)]] = [n \in DOMAIN t |-> g[Append(path, n)]]
      BY <3>1
    <3> QED BY <3>2 DEF Deepens
  <2> QED BY <2>1, <2>2
<1>4. g = h
  <2>1. \A path \in Seq(Names) : g[path] = h[path]
    BY <1>3
  <2> QED BY <2>1
<1> HIDE DEF g
<1> QED BY <1>4 DEF Descends

(* So there is the function by which Depth is defined.                     *)
Deep(t, f) == \A path \in Seq(Names) : f[path] = Deepens(t, f, path)

LEMMA DepthIs ==
    ASSUME NEW t, DOMAIN t \subseteq Names
    PROVE  \E f : Deep(t, f) /\ \A name : Depth(t, name) = f[<<name>>]
<1> DEFINE Missing == {l \in Nat : ~\E f : Descends(t, f, l)}
           Whole(g) == g = [path \in Seq(Names) |->
                         DepthBelow(t, path, [n \in DOMAIN t |-> g[Append(path, n)]])]
           f == CHOOSE g : Whole(g)
<1>1. Missing = {}
  <2>1. SUFFICES ASSUME Missing # {} PROVE FALSE
    OBVIOUS
  <2>2. PICK l \in Missing : \A k \in Missing : l <= k
    <3>1. Missing \in SUBSET Nat
      OBVIOUS
    <3> HIDE DEF Missing
    <3> QED BY <2>1, <3>1, Least
  <2>3. l \in Nat /\ l # 0
    BY DescendsFirst
  <2>4. l - 1 \in Nat /\ ~(l <= l - 1) /\ l - 1 + 1 = l
    BY <2>3
  <2>5. PICK g : Descends(t, g, l - 1)
    BY <2>2, <2>4
  <2>6. \E h : Descends(t, h, l)
    BY <2>4, <2>5, DescendsFurther
  <2> QED BY <2>6
<1>2. \E g : Whole(g)
  <2> DEFINE top == Cardinality(Names) + 1
  <2>1. top \in Nat /\ \A path \in Seq(Names) : Rank(path) <= top
    <3>1. Cardinality(Names) \in Nat
      BY CatalogAssumption, FS_CardinalityType
    <3> QED BY <3>1, RankIsNat
  <2> HIDE DEF top
  <2>2. PICK g : Descends(t, g, top)
    BY <1>1, <2>1
  <2>3. g = [path \in Seq(Names) |-> Deepens(t, g, path)]
    BY <2>1, <2>2 DEF Descends
  <2> QED BY <2>3 DEF Deepens
<1>3. Whole(f)
  BY <1>2
<1>4. \A name : Depth(t, name) = f[<<name>>]
  BY DEF Depth
<1> HIDE DEF f
<1>5. Deep(t, f)
  BY <1>3 DEF Deep, Deepens
<1> QED BY <1>4, <1>5

Depths(t, f, path) == {0} \cup {f[Append(path, r)] + 1 : r \in References(t[Last(path)])}

(* What a depth that is not refused says of the combos referred to.        *)
LEMMA DepthStep ==
    ASSUME NEW t, DOMAIN t \subseteq Names, NEW f, Deep(t, f),
           NEW path \in Seq(Names), path # <<>>, f[path] # Refused
    PROVE  LET refs == References(t[Last(path)]) IN
           /\ Last(path) \notin ToSet(Front(path))
           /\ \A r \in refs : r \in DOMAIN t /\ f[Append(path, r)] # Refused
           /\ f[path] = Max(Depths(t, f, path))
<1> DEFINE refs  == References(t[Last(path)])
           below == [n \in DOMAIN t |-> f[Append(path, n)]]
<1>1. f[path] = DepthBelow(t, path, below)
  BY DEF Deep, Deepens
<1> HIDE DEF below
<1>2. /\ Last(path) \notin ToSet(Front(path))
      /\ \A r \in refs : r \in DOMAIN t /\ below[r] # Refused
      /\ f[path] = Max({0} \cup {below[r] + 1 : r \in refs})
  BY <1>1 DEF DepthBelow
<1>3. \A r \in refs : below[r] = f[Append(path, r)]
  BY <1>2 DEF below
<1>4. {below[r] + 1 : r \in refs} = {f[Append(path, r)] + 1 : r \in refs}
  <2> HIDE DEF refs
  <2> QED BY <1>3
<1> QED BY <1>2, <1>3, <1>4 DEF Depths

LEMMA DepthTyped ==
    ASSUME NEW t, DOMAIN t \subseteq Names, NEW f, Deep(t, f),
           NEW path \in Seq(Names), path # <<>>, f[path] # Refused
    PROVE  LET refs == References(t[Last(path)]) IN
           /\ f[path] \in Nat /\ f[path] < Rank(path)
           /\ \A r \in refs : f[Append(path, r)] \in Nat /\ f[Append(path, r)] + 1 <= f[path]
           /\ f[path] # 0 => \E r \in refs : f[path] = f[Append(path, r)] + 1
<1> DEFINE Typed(p) == LET refs == References(t[Last(p)]) IN
                /\ f[p] \in Nat /\ f[p] < Rank(p)
                /\ \A r \in refs : f[Append(p, r)] \in Nat /\ f[Append(p, r)] + 1 <= f[p]
                /\ f[p] # 0 => \E r \in refs : f[p] = f[Append(p, r)] + 1
           Odd == {k \in Nat : \E p \in Seq(Names) :
                      p # <<>> /\ f[p] # Refused /\ Rank(p) = k /\ ~Typed(p)}
<1>1. Odd = {}
  <2>1. SUFFICES ASSUME Odd # {} PROVE FALSE
    OBVIOUS
  <2>2. PICK k \in Odd : \A j \in Odd : k <= j
    <3>1. Odd \in SUBSET Nat
      OBVIOUS
    <3> HIDE DEF Odd
    <3> QED BY <2>1, <3>1, Least
  <2>3. PICK p \in Seq(Names) : p # <<>> /\ f[p] # Refused /\ Rank(p) = k /\ ~Typed(p)
    BY <2>2
  <2> DEFINE refs == References(t[Last(p)])
             all  == Depths(t, f, p)
  <2>4. /\ Last(p) \notin ToSet(Front(p))
        /\ \A r \in refs : r \in DOMAIN t /\ f[Append(p, r)] # Refused
        /\ f[p] = Max(Depths(t, f, p))
    <3> HIDE DEF Typed, Odd
    <3>1. f[p] # Refused /\ p \in Seq(Names) /\ p # <<>>
      BY <2>3
    <3> QED BY <3>1, DepthStep
  <2>5. ASSUME NEW r \in refs
        PROVE  /\ f[Append(p, r)] \in Nat /\ f[Append(p, r)] < Rank(Append(p, r))
               /\ Rank(p) \in Nat /\ Rank(Append(p, r)) \in Nat
               /\ Rank(p) = Rank(Append(p, r)) + 1
    <3>1. r \in Names /\ Append(p, r) \in Seq(Names) /\ Append(p, r) # <<>>
      <4>1. r \in Names
        BY <2>4
      <4> QED BY <4>1, PathsGrow
    <3>2. /\ Rank(p) \in Nat /\ Rank(Append(p, r)) \in Nat
          /\ Rank(p) = Rank(Append(p, r)) + 1
      BY <2>4, <3>1, RankFalls
    <3>3. k - 1 \notin Odd /\ k - 1 \in Nat /\ Rank(Append(p, r)) = k - 1
      <4>1. k \in Nat
        OBVIOUS
      <4>2. k - 1 \in Nat /\ Rank(Append(p, r)) = k - 1 /\ ~(k <= k - 1)
        BY <2>3, <3>2, <4>1
      <4> HIDE DEF Odd
      <4> QED BY <2>2, <4>2
    <3>4. Typed(Append(p, r))
      BY <2>4, <3>1, <3>3
    <3> QED BY <3>2, <3>4
  <2>6. refs \subseteq Names /\ IsFiniteSet(refs)
    <3>1. refs \subseteq Names
      BY <2>4
    <3> HIDE DEF refs
    <3> QED BY <3>1, CatalogAssumption, FS_Subset
  <2>7. all \subseteq Nat /\ all # {} /\ IsFiniteSet(all)
    <3> DEFINE kids == {f[Append(p, r)] + 1 : r \in refs}
    <3> HIDE DEF refs
    <3>1. IsFiniteSet(kids)
      <4> DEFINE g == [r \in refs |-> f[Append(p, r)] + 1]
      <4>1. g \in Surjection(refs, kids)
        BY DEF Surjection
      <4> HIDE DEF g, kids
      <4> QED BY <2>6, <4>1, FS_Surjection
    <3>2. IsFiniteSet({0} \cup kids)
      BY <3>1, FS_Singleton, FS_Union
    <3>3. kids \subseteq Nat
      BY <2>5
    <3> QED BY <3>2, <3>3 DEF Depths, kids, refs
  <2>8. Max(all) \in all /\ \A y \in all : y <= Max(all)
    <3> HIDE DEF all
    <3> QED BY <2>7, MaxOf
  <2>9. Rank(p) \in Nat /\ Rank(p) # 0
    <3>1. Last(p) \in Names /\ Front(p) \in Seq(Names) /\ p = Append(Front(p), Last(p))
      BY <2>3, ToSetEnds
    <3>2. Last(p) \in Names \ ToSet(Front(p)) /\ IsFiniteSet(Names \ ToSet(Front(p)))
      BY <2>4, <3>1, CatalogAssumption, FS_Subset
    <3>3. Rank(p) = Cardinality(Names \ ToSet(Front(p)))
      BY <2>3 DEF Rank
    <3> QED BY <3>2, <3>3, FS_CardinalityType, FS_EmptySet
  <2>10. f[p] \in Nat /\ f[p] < Rank(p)
    <3>1. CASE f[p] = 0
      BY <2>9, <3>1
    <3>2. CASE \E r \in refs : f[p] = f[Append(p, r)] + 1
      <4>1. PICK r \in refs : f[p] = f[Append(p, r)] + 1
        BY <3>2
      <4> HIDE DEF refs
      <4> QED BY <2>5, <4>1
    <3> QED BY <2>4, <2>8, <3>1, <3>2 DEF Depths
  <2>11. \A r \in refs : f[Append(p, r)] \in Nat /\ f[Append(p, r)] + 1 <= f[p]
    <3>1. \A r \in refs : f[Append(p, r)] + 1 \in all
      BY DEF Depths
    <3> HIDE DEF refs
    <3> QED BY <2>4, <2>5, <2>8, <3>1
  <2>12. f[p] # 0 => \E r \in refs : f[p] = f[Append(p, r)] + 1
    BY <2>4, <2>8 DEF Depths
  <2> HIDE DEF refs, all
  <2>13. Typed(p)
    BY <2>10, <2>11, <2>12 DEF refs
  <2> QED BY <2>3, <2>13
<1>2. Rank(path) \in Nat
  <2>1. Cardinality(Names) \in Nat
    BY CatalogAssumption, FS_CardinalityType
  <2> QED BY <2>1, RankIsNat
<1>3. Typed(path)
  BY <1>1, <1>2
<1> QED BY <1>3

-----------------------------------------------------------------------------
(* Cycles. A combo can be stored over a table without closing one when the *)
(* combos it leads to, itself not among them, lead to no others: combos    *)
(* that are deleted meanwhile change nothing about that.                   *)
Sure(name, c, t) ==
    \E R \in SUBSET Names :
       /\ name \notin R
       /\ References(c) \subseteq R
       /\ \A r \in R \cap DOMAIN t : References(t[r]) \subseteq R

With(t, name, c) == [n \in DOMAIN t \cup {name} |-> IF n = name THEN c ELSE t[n]]

LEMMA SureAddsNoCycle ==
    ASSUME NEW t, NEW name, NEW c, Acyclic(t), Sure(name, c, t)
    PROVE  Acyclic(With(t, name, c))
<1> DEFINE u == With(t, name, c)
<1>1. PICK R \in SUBSET Names :
        /\ name \notin R /\ References(c) \subseteq R
        /\ \A r \in R \cap DOMAIN t : References(t[r]) \subseteq R
  BY DEF Sure
<1>2. /\ DOMAIN u = DOMAIN t \cup {name} /\ u[name] = c
      /\ \A n \in DOMAIN t : n # name => u[n] = t[n]
  BY DEF With
<1> HIDE DEF u
<1>3. ASSUME NEW S \in SUBSET DOMAIN u, S # {}
      PROVE  \E n \in S : References(u[n]) \cap S = {}
  <2>1. CASE name \notin S
    <3>1. S \in SUBSET DOMAIN t
      BY <1>2, <2>1
    <3>2. PICK n \in S : References(t[n]) \cap S = {}
      BY <1>3, <3>1 DEF Acyclic
    <3> QED BY <1>2, <2>1, <3>1, <3>2
  <2>2. CASE name \in S /\ S \cap R = {}
    BY <1>1, <1>2, <2>2
  <2>3. CASE S \cap R # {}
    <3>1. S \cap R \in SUBSET DOMAIN t
      BY <1>1, <1>2
    <3>2. PICK n \in S \cap R : References(t[n]) \cap (S \cap R) = {}
      BY <2>3, <3>1 DEF Acyclic
    <3>3. u[n] = t[n] /\ References(t[n]) \subseteq R
      BY <1>1, <1>2, <3>1
    <3> QED BY <3>2, <3>3
  <2> QED BY <2>1, <2>2, <2>3
<1> QED BY <1>3 DEF Acyclic, u

LEMMA DepthSure ==
    ASSUME NEW t, DOMAIN t \subseteq Names, NEW name \in Names, NEW c,
           Depth(With(t, name, c), name) # Refused
    PROVE  Sure(name, c, t)
<1> DEFINE u == With(t, name, c)
<1>1. /\ DOMAIN u = DOMAIN t \cup {name} /\ u[name] = c
      /\ \A n \in DOMAIN t : n # name => u[n] = t[n]
  BY DEF With
<1> HIDE DEF u
<1>2. PICK f : Deep(u, f) /\ Depth(u, name) = f[<<name>>]
  BY <1>1, DepthIs
<1>3. DOMAIN u \subseteq Names
  BY <1>1
<1> DEFINE On(path) == /\ path # <<>> /\ path[1] = name /\ f[path] # Refused
           R == {r \in Names : \E path \in Seq(Names) :
                    On(path) /\ Len(path) > 1 /\ Last(path) = r}
<1>4. ASSUME NEW path \in Seq(Names), On(path), NEW r \in References(u[Last(path)])
      PROVE  r \in R
  <2>1. r \in DOMAIN u /\ f[Append(path, r)] # Refused
    BY <1>2, <1>3, <1>4, DepthStep
  <2>2. /\ r \in Names /\ Append(path, r) \in Seq(Names)
        /\ Append(path, r) # <<>> /\ Last(Append(path, r)) = r
        /\ Len(Append(path, r)) = Len(path) + 1 /\ Append(path, r)[1] = path[1]
    <3>1. Len(path) \in Nat \ {0}
      BY <1>4
    <3>2. 1 \in 1..Len(path)
      BY <3>1
    <3> QED BY <1>3, <2>1, <3>2, PathsGrow
  <2>3. Len(Append(path, r)) > 1
    BY <1>4, <2>2
  <2> QED BY <1>4, <2>1, <2>2, <2>3
<1>5. References(c) \subseteq R
  <2>1. /\ <<name>> \in Seq(Names) /\ <<name>> # <<>> /\ <<name>>[1] = name
        /\ Last(<<name>>) = name
    BY DEF Last
  <2>2. On(<<name>>)
    BY <1>2, <2>1 DEF u
  <2> HIDE DEF On, R
  <2> QED BY <1>1, <1>4, <2>1, <2>2
<1>6. name \notin R
  <2>1. SUFFICES ASSUME NEW path \in Seq(Names), On(path), Len(path) > 1,
                        Last(path) = name
                 PROVE  FALSE
    OBVIOUS
  <2>2. Last(path) \notin ToSet(Front(path))
    BY <1>2, <1>3, <2>1, DepthStep
  <2>3. path = Append(Front(path), Last(path)) /\ Len(Front(path)) = Len(path) - 1
        /\ Front(path) \in Seq(Names) /\ Last(path) \in Names
    BY <2>1, ToSetEnds
  <2>4. 1 \in 1..Len(Front(path)) /\ path[1] = Front(path)[1]
    <3>1. 1 \in 1..Len(Front(path))
      BY <2>1, <2>3
    <3> QED BY <2>3, <3>1, PathsGrow
  <2>5. path[1] \in ToSet(Front(path))
    BY <2>3, <2>4 DEF ToSet
  <2> QED BY <2>1, <2>2, <2>5
<1>7. ASSUME NEW r \in R \cap DOMAIN t PROVE References(t[r]) \subseteq R
  <2>1. PICK path \in Seq(Names) : On(path) /\ Len(path) > 1 /\ Last(path) = r
    OBVIOUS
  <2>2. u[r] = t[r]
    <3> HIDE DEF R
    <3> QED BY <1>1, <1>6
  <2> HIDE DEF On, R
  <2> QED BY <1>4, <2>1, <2>2
<1> HIDE DEF R
<1>8. R \in SUBSET Names
  BY DEF R
<1> QED BY <1>5, <1>6, <1>7, <1>8 DEF Sure

-----------------------------------------------------------------------------
(* Chains of references.                                                   *)
LEMMA BoundedIs ==
    ASSUME NEW S, NEW len \in Nat, NEW p
    PROVE  p \in BoundedSeq(S, len) <=> p \in Seq(S) /\ Len(p) <= len
<1>1. ASSUME p \in BoundedSeq(S, len) PROVE p \in Seq(S) /\ Len(p) <= len
  <2>1. PICK m \in 0..len : p \in [1..m -> S]
    BY <1>1 DEF BoundedSeq, SeqOf
  <2> QED BY <2>1
<1>2. ASSUME p \in Seq(S), Len(p) <= len PROVE p \in BoundedSeq(S, len)
  <2>1. Len(p) \in 0..len /\ p \in [1..Len(p) -> S]
    BY <1>2
  <2> QED BY <2>1 DEF BoundedSeq, SeqOf
<1> QED BY <1>1, <1>2

(* The first i of a chain.                                                 *)
LEMMA FirstsOf ==
    ASSUME NEW p \in Seq(Names), NEW i \in 1..Len(p)
    PROVE  LET q == SubSeq(p, 1, i) IN
           /\ q \in Seq(Names) /\ q # <<>> /\ Len(q) = i /\ Last(q) = p[i]
           /\ \A j \in 1..i : q[j] = p[j]
           /\ i = 1 => q = <<p[1]>>
           /\ i < Len(p) => SubSeq(p, 1, i + 1) = Append(q, p[i + 1])
           /\ i = Len(p) => q = p
<1> DEFINE q == SubSeq(p, 1, i)
<1>1. i \in Int /\ 1 \in Int /\ 1 <= i /\ i - 1 + 1 = i /\ \A j \in 1..i : p[j] \in Names
  OBVIOUS
<1>2. q \in Seq(Names) /\ Len(q) = i /\ \A j \in 1..i : q[j] = p[j]
  <2>1. /\ q \in Seq(Names) /\ Len(q) = i - 1 + 1
        /\ \A j \in 1 .. i - 1 + 1 : q[j] = p[1 + j - 1]
    BY <1>1, SubSeqProperties
  <2> HIDE DEF q
  <2>2. \A j \in 1..i : 1 + j - 1 = j
    OBVIOUS
  <2> QED BY <1>1, <2>1, <2>2
<1>3. ASSUME i < Len(p) PROVE SubSeq(p, 1, i + 1) = Append(q, p[i + 1])
  <2> DEFINE w == SubSeq(p, 1, i + 1)
  <2>1. i + 1 \in 1..Len(p) /\ p[i + 1] \in Names /\ i + 1 - 1 + 1 = i + 1
    BY <1>3
  <2>2. w \in Seq(Names) /\ Len(w) = i + 1 /\ \A j \in 1 .. i + 1 : w[j] = p[1 + j - 1]
    BY <2>1, SubSeqProperties
  <2>3. /\ Append(q, p[i + 1]) \in Seq(Names) /\ Len(Append(q, p[i + 1])) = i + 1
        /\ \A j \in 1..i : Append(q, p[i + 1])[j] = q[j]
        /\ Append(q, p[i + 1])[i + 1] = p[i + 1]
    BY <1>2, <2>1, AppendProperties
  <2> HIDE DEF w, q
  <2>4. ASSUME NEW j \in 1 .. i + 1 PROVE w[j] = Append(q, p[i + 1])[j]
    <3>1. 1 + j - 1 = j /\ (j = i + 1 \/ j \in 1..i)
      OBVIOUS
    <3> QED BY <1>2, <2>2, <2>3, <3>1
  <2>5. w = Append(q, p[i + 1])
    BY <2>2, <2>3, <2>4, SeqEqual
  <2> QED BY <2>5 DEF w
<1> HIDE DEF q
<1>4. q # <<>> /\ Last(q) = p[i]
  BY <1>1, <1>2 DEF Last
<1>5. i = 1 => q = <<p[1]>>
  BY <1>1, <1>2, SeqEqual
<1>6. i = Len(p) => q = p
  BY <1>1, <1>2, SeqEqual
<1> QED BY <1>2, <1>3, <1>4, <1>5, <1>6 DEF q

LEMMA ChainIs ==
    ASSUME NEW n, NEW len \in Nat, NEW p
    PROVE  p \in Chains(n, len) <=>
             /\ p \in Seq(Names) /\ Len(p) <= len
             /\ p # <<>> /\ p[1] = n
             /\ \A i \in 1 .. Len(p) - 1 :
                  p[i] \in DOMAIN table /\ p[i + 1] \in References(table[p[i]])
  BY BoundedIs DEF Chains

(* Each chain from a combo goes along combos of ever smaller depth.        *)
LEMMA ChainsSink ==
    ASSUME DOMAIN table \subseteq Names, NEW f, Deep(table, f), NEW n, NEW len \in Nat,
           f[<<n>>] # Refused, NEW p \in Chains(n, len)
    PROVE  f[p] # Refused /\ Len(p) - 1 <= f[<<n>>]
<1> DEFINE d == f[<<n>>]
           q(i) == SubSeq(p, 1, i)
           Sunk(i) == f[q(i)] # Refused /\ f[q(i)] + i - 1 <= d
           Odd == {i \in 1..Len(p) : ~Sunk(i)}
<1>1. /\ p \in Seq(Names) /\ Len(p) \in Nat \ {0} /\ p[1] = n /\ p # <<>>
      /\ \A i \in 1 .. Len(p) - 1 :
           p[i] \in DOMAIN table /\ p[i + 1] \in References(table[p[i]])
  BY ChainIs
<1>2. ASSUME NEW i \in 1..Len(p)
      PROVE  /\ q(i) \in Seq(Names) /\ q(i) # <<>> /\ Last(q(i)) = p[i]
             /\ i = 1 => q(i) = <<n>>
             /\ i < Len(p) => q(i + 1) = Append(q(i), p[i + 1])
             /\ i = Len(p) => q(i) = p
  BY <1>1, FirstsOf
<1> HIDE DEF q
<1>3. <<n>> = q(1) /\ 1 \in 1..Len(p)
  <2>1. 1 \in 1..Len(p)
    BY <1>1
  <2> QED BY <1>2, <2>1
<1>4. d \in Nat
  BY <1>2, <1>3, DepthTyped
<1>5. Odd = {}
  <2>1. SUFFICES ASSUME Odd # {} PROVE FALSE
    OBVIOUS
  <2>2. PICK i \in Odd : \A j \in Odd : i <= j
    <3>1. Odd \in SUBSET Nat
      OBVIOUS
    <3> HIDE DEF Odd
    <3> QED BY <2>1, <3>1, Least
  <2>3. i # 1
    BY <1>3, <1>4
  <2>4. i \in 1..Len(p) /\ i - 1 \in 1 .. Len(p) - 1 /\ i - 1 + 1 = i
    BY <1>1, <2>3
  <2>5. i - 1 \in 1..Len(p) /\ i - 1 < Len(p) /\ ~(i <= i - 1)
    BY <1>1, <2>4
  <2>6. Sunk(i - 1)
    BY <2>2, <2>5
  <2>7. p[i] \in References(table[p[i - 1]])
    BY <1>1, <2>4
  <2>8. /\ q(i - 1) \in Seq(Names) /\ q(i - 1) # <<>> /\ Last(q(i - 1)) = p[i - 1]
        /\ q(i) = Append(q(i - 1), p[i])
    BY <1>2, <2>4, <2>5
  <2>9. f[q(i)] # Refused
    BY <2>6, <2>7, <2>8, DepthStep
  <2>10. f[q(i - 1)] \in Nat /\ f[q(i)] \in Nat /\ f[q(i)] + 1 <= f[q(i - 1)]
    BY <2>6, <2>7, <2>8, DepthTyped
  <2>11. f[q(i)] + i - 1 <= d
    <3>1. f[q(i - 1)] + (i - 1) - 1 <= d
      BY <2>6
    <3> HIDE DEF d
    <3> QED BY <1>4, <2>4, <2>10, <3>1
  <2> QED BY <2>2, <2>9, <2>11
<1>6. Len(p) \in 1..Len(p) /\ q(Len(p)) = p
  <2>1. Len(p) \in 1..Len(p)
    BY <1>1
  <2> QED BY <1>2, <2>1
<1>7. f[p] # Refused /\ f[p] + Len(p) - 1 <= d
  BY <1>5, <1>6
<1>8. f[p] \in Nat
  BY <1>1, <1>7, DepthTyped
<1> HIDE DEF d
<1>9. Len(p) - 1 <= d
  BY <1>1, <1>4, <1>7, <1>8
<1> QED BY <1>7, <1>9 DEF d

(* And one of them goes through every depth down to 0.                     *)
LEMMA ChainSinksSlowly ==
    ASSUME DOMAIN table \subseteq Names, NEW f, Deep(table, f), NEW n \in DOMAIN table,
           f[<<n>>] # Refused
    PROVE  f[<<n>>] \in Nat /\ \E p \in Chains(n, f[<<n>>] + 1) : Len(p) = f[<<n>>] + 1
<1> DEFINE d == f[<<n>>]
           Slow(k) == \E p \in Chains(n, k + 1) :
                         Len(p) = k + 1 /\ f[p] = d - k /\ Last(p) \in DOMAIN table
           Odd == {k \in 0..d : ~Slow(k)}
<1>1. <<n>> \in Seq(Names) /\ <<n>> # <<>> /\ Len(<<n>>) = 1 /\ Last(<<n>>) = n
      /\ <<n>>[1] = n
  BY DEF Last
<1>2. d \in Nat
  BY <1>1, DepthTyped
<1> HIDE DEF d
<1>3. Odd = {}
  <2>1. SUFFICES ASSUME Odd # {} PROVE FALSE
    OBVIOUS
  <2>2. PICK k \in Odd : \A j \in Odd : k <= j
    <3>1. Odd \in SUBSET Nat
      BY <1>2
    <3> HIDE DEF Odd
    <3> QED BY <2>1, <3>1, Least
  <2>3. k # 0
    <3>1. <<n>> \in Chains(n, 0 + 1)
      <4>1. 0 + 1 \in Nat /\ Len(<<n>>) <= 0 + 1 /\ 1 .. Len(<<n>>) - 1 = {}
        BY <1>1
      <4> QED BY <1>1, <4>1, ChainIs
    <3>2. f[<<n>>] = d - 0 /\ 0 + 1 = 1
      BY <1>2 DEF d
    <3> QED BY <1>1, <2>2, <3>1, <3>2
  <2>4. k \in 0..d /\ k - 1 \in 0..d /\ ~(k <= k - 1) /\ k - 1 + 1 = k
    BY <1>2, <2>2, <2>3
  <2>5. PICK p \in Chains(n, k) : Len(p) = k /\ f[p] = d - (k - 1) /\ Last(p) \in DOMAIN table
    <3>1. Slow(k - 1)
      BY <2>2, <2>4
    <3> QED BY <2>4, <3>1
  <2>6. /\ p \in Seq(Names) /\ p # <<>> /\ p[1] = n
        /\ \A i \in 1 .. Len(p) - 1 :
             p[i] \in DOMAIN table /\ p[i + 1] \in References(table[p[i]])
    BY <2>4, ChainIs
  <2>7. f[p] # Refused /\ f[p] # 0
    BY <1>2, <2>4, <2>5 DEF Refused
  <2>8. PICK r \in References(table[Last(p)]) : f[p] = f[Append(p, r)] + 1
    BY <2>6, <2>7, DepthTyped
  <2>9. /\ r \in DOMAIN table /\ f[Append(p, r)] # Refused
        /\ f[Append(p, r)] \in Nat
    BY <2>6, <2>7, <2>8, DepthStep, DepthTyped
  <2> DEFINE w == Append(p, r)
  <2>10. /\ w \in Seq(Names) /\ w # <<>> /\ Len(w) = k + 1 /\ Last(w) = r
         /\ \A i \in 1..k : w[i] = p[i]
         /\ w[k + 1] = r
    BY <2>5, <2>6, <2>9, PathsGrow
  <2>11. w[1] = n
    BY <2>3, <2>4, <2>6, <2>10
  <2>12. ASSUME NEW i \in 1 .. Len(w) - 1
         PROVE  w[i] \in DOMAIN table /\ w[i + 1] \in References(table[w[i]])
    <3> HIDE DEF w
    <3>1. i \in 1..k /\ w[i] = p[i]
      BY <2>4, <2>10
    <3>2. CASE i = k
      BY <2>5, <2>8, <2>10, <3>1, <3>2 DEF Last
    <3>3. CASE i # k
      <4>1. i \in 1 .. Len(p) - 1 /\ i + 1 \in 1..k
        BY <2>4, <2>5, <3>1, <3>3
      <4> QED BY <2>6, <2>10, <3>1, <4>1
    <3> QED BY <3>2, <3>3
  <2>13. w \in Chains(n, k + 1)
    <3> HIDE DEF w
    <3>1. PICK l \in Nat : l = k + 1
      BY <1>2, <2>4
    <3>2. w \in Seq(Names) /\ w # <<>> /\ w[1] = n /\ Len(w) <= l
      BY <2>10, <2>11, <3>1
    <3>3. w \in Chains(n, l)
      BY ONLY <2>12, <3>2, l \in Nat, ChainIs
    <3> QED BY <3>1, <3>3
  <2>14. f[w] = d - k
    BY <1>2, <2>4, <2>5, <2>8, <2>9
  <2> HIDE DEF w
  <2>15. Slow(k)
    BY <2>9, <2>10, <2>13, <2>14
  <2> QED BY <2>2, <2>15
<1>4. d \in 0..d
  BY <1>2
<1>5. \E p \in Chains(n, d + 1) : Len(p) = d + 1
  BY <1>3, <1>4
<1> QED BY <1>2, <1>5 DEF d

LEMMA DepthIsLongest ==
    ASSUME DOMAIN table \subseteq Names, NEW n \in DOMAIN table, Depth(table, n) # Refused
    PROVE  Depth(table, n) = Max({Len(p) - 1 : p \in Chains(n, Cardinality(Names) + 1)})
<1>1. PICK f : Deep(table, f) /\ Depth(table, n) = f[<<n>>]
  BY DepthIs
<1> DEFINE d == f[<<n>>]
           top == Cardinality(Names) + 1
           lens == {Len(p) - 1 : p \in Chains(n, top)}
<1>2. IsFiniteSet(Names) /\ Cardinality(Names) \in Nat
  BY CatalogAssumption, FS_CardinalityType
<1>3. d \in Nat /\ d < Cardinality(Names) + 1
  <2>1. <<n>> \in Seq(Names) /\ <<n>> # <<>>
    OBVIOUS
  <2>2. d \in Nat /\ d < Rank(<<n>>) /\ Rank(<<n>>) \in 0..top
    BY <1>1, <2>1, DepthTyped, RankIsNat
  <2> HIDE DEF d
  <2> QED BY <1>2, <2>2
<1>4. d \in lens
  <2>1. PICK p \in Chains(n, d + 1) : Len(p) = d + 1
    BY <1>1, ChainSinksSlowly
  <2>2. p \in Chains(n, top)
    <3> HIDE DEF d
    <3>1. d + 1 \in Nat /\ top \in Nat /\ Len(p) <= top
      BY <1>2, <1>3, <2>1
    <3> HIDE DEF top
    <3> QED BY <3>1, ChainIs
  <2>3. Len(p) - 1 = d
    <3> HIDE DEF d
    <3> QED BY <1>3, <2>1
  <2> QED BY <2>2, <2>3
<1>5. lens \in SUBSET Nat /\ \A l \in lens : l <= d
  <2>1. ASSUME NEW p \in Chains(n, top) PROVE Len(p) - 1 \in Nat /\ Len(p) - 1 <= d
    <3>1. top \in Nat
      BY <1>2
    <3>2. Len(p) \in Nat \ {0}
      BY <3>1, ChainIs
    <3>3. Len(p) - 1 <= d
      BY <1>1, <3>1, ChainsSink
    <3> QED BY <3>2, <3>3
  <2> HIDE DEF d, top
  <2> QED BY <2>1
<1> HIDE DEF d, lens
<1>6. Max(lens) = d
  BY <1>4, <1>5, MaxIs
<1> QED BY <1>1, <1>6 DEF d, lens

-----------------------------------------------------------------------------
(* The guards on routing (expand.go) let pass what validation did.         *)
Open(t) == \A n \in DOMAIN t : \A s \in ToSet(t[n].steps) :
               s.kind = "provider-wildcard" => s.ref \in Providers

LEMMA RefusedIs ==
    ASSUME NEW t, Stocked(t), Open(t), NEW g, Wide(t, g), NEW chain \in Ending(t)
    PROVE  g[chain].refused <=>
             \/ TooDeep(chain)
             \/ Last(chain) \in ToSet(Front(chain))
             \/ \E r \in References(t[Last(chain)]) :
                   r \notin DOMAIN t \/ g[Append(chain, r)].refused
<1> DEFINE below == [n \in DOMAIN t |-> g[Append(chain, n)]]
           steps == t[Last(chain)].steps
           refs  == References(t[Last(chain)])
           fails(s) == \/ s.kind = "provider-wildcard" /\ s.ref \notin Providers
                       \/ s.kind = "combo-ref"
                          /\ (s.ref \notin DOMAIN t \/ below[s.ref].refused)
<1>1. g[chain] = ExpandChain(t, chain, below)
  BY DEF Wide, Expands, Ending
<1>2. g[chain].refused <=> \/ TooDeep(chain)
                           \/ Last(chain) \in ToSet(Front(chain))
                           \/ \E s \in ToSet(steps) : fails(s)
  <2> DEFINE barred == \/ TooDeep(chain)
                       \/ Last(chain) \in ToSet(Front(chain))
                       \/ \E s \in ToSet(steps) : fails(s)
  <2>1. \E es : g[chain] = IF barred THEN [refused |-> TRUE, entries |-> <<>>]
                           ELSE [refused |-> FALSE, entries |-> es]
    <3> HIDE DEF below
    <3> QED BY <1>1 DEF ExpandChain
  <2> HIDE DEF barred
  <2>2. g[chain].refused <=> barred
    BY <2>1
  <2> QED BY <2>2 DEF barred
<1>3. (\E s \in ToSet(steps) : fails(s)) <=>
        \E r \in refs : r \notin DOMAIN t \/ below[r].refused
  <2>1. \A s \in ToSet(steps) : s.kind = "provider-wildcard" => s.ref \in Providers
    BY DEF Open, Ending
  <2> HIDE DEF below
  <2> QED BY <2>1 DEF References
<1>4. \A r \in DOMAIN t : below[r] = g[Append(chain, r)]
  OBVIOUS
<1> HIDE DEF below, steps, refs, fails
<1>5. (\E s \in ToSet(steps) : fails(s)) <=>
        \E r \in refs : r \notin DOMAIN t \/ g[Append(chain, r)].refused
  BY <1>3, <1>4
<1> QED BY <1>2, <1>5 DEF refs

LEMMA ExpandGoes ==
    ASSUME NEW t, Stocked(t), Open(t), NEW n \in DOMAIN t,
           Depth(t, n) # Refused, Depth(t, n) <= MaxDepth
    PROVE  ~Expand(t, n).refused
<1>1. PICK f : Deep(t, f) /\ Depth(t, n) = f[<<n>>]
  BY DepthIs DEF Stocked
<1>2. PICK g : Wide(t, g) /\ Expand(t, n) = g[<<n>>]
  BY ExpandIs
<1> DEFINE Fine(chain) == f[chain] # Refused /\ f[chain] + Len(chain) - 1 <= MaxDepth
           Odd == {k \in Nat : \E chain \in Ending(t) :
                     Fine(chain) /\ f[chain] = k /\ g[chain].refused}
<1>3. MaxDepth \in Nat /\ DOMAIN t \subseteq Names
  BY CatalogAssumption DEF Stocked
<1>4. Odd = {}
  <2>1. SUFFICES ASSUME Odd # {} PROVE FALSE
    OBVIOUS
  <2>2. PICK k \in Odd : \A j \in Odd : k <= j
    <3>1. Odd \in SUBSET Nat
      OBVIOUS
    <3> HIDE DEF Odd
    <3> QED BY <2>1, <3>1, Least
  <2>3. PICK chain \in Ending(t) : Fine(chain) /\ f[chain] = k /\ g[chain].refused
    BY <2>2
  <2>4. chain \in Seq(Names) /\ chain # <<>> /\ Len(chain) \in Nat /\ Last(chain) \in DOMAIN t
    BY DEF Ending
  <2>5. /\ Last(chain) \notin ToSet(Front(chain))
        /\ \A r \in References(t[Last(chain)]) :
             r \in DOMAIN t /\ f[Append(chain, r)] # Refused
    BY <1>1, <1>3, <2>3, <2>4, DepthStep
  <2>6. /\ f[chain] \in Nat
        /\ \A r \in References(t[Last(chain)]) :
             f[Append(chain, r)] \in Nat /\ f[Append(chain, r)] + 1 <= f[chain]
    BY <1>1, <1>3, <2>3, <2>4, DepthTyped
  <2>7. ~TooDeep(chain)
    BY <1>3, <2>3, <2>4, <2>6 DEF TooDeep
  <2>8. PICK r \in References(t[Last(chain)]) :
          r \in DOMAIN t /\ g[Append(chain, r)].refused
    <3> HIDE DEF Fine, Odd
    <3> QED BY <1>2, <2>3, <2>5, <2>7, RefusedIs
  <2>9. Append(chain, r) \in Ending(t) /\ Len(Append(chain, r)) = Len(chain) + 1
    BY <2>4, <2>8, ChainsGrow
  <2>10. Fine(Append(chain, r))
    BY <1>3, <2>3, <2>4, <2>5, <2>6, <2>9
  <2>11. f[Append(chain, r)] \in Odd /\ f[Append(chain, r)] < k
    <3>1. f[Append(chain, r)] < k
      BY <2>3, <2>6, <2>8
    <3> HIDE DEF Fine
    <3> QED BY <2>6, <2>8, <2>9, <2>10, <3>1
  <2> QED BY <2>2, <2>3, <2>6, <2>11
<1>5. <<n>> \in Ending(t) /\ <<n>> # <<>> /\ <<n>> \in Seq(Names) /\ Len(<<n>>) = 1
  BY <1>3 DEF Ending, Last
<1>6. f[<<n>>] \in Nat
  BY <1>1, <1>3, <1>5, DepthTyped
<1>7. Fine(<<n>>)
  BY <1>1, <1>3, <1>5, <1>6
<1> QED BY <1>1, <1>2, <1>4, <1>5, <1>6, <1>7

-----------------------------------------------------------------------------
(* The invariant of the table under edits. What is stored names what is    *)
(* known; an editor about to write holds a combo that closes no cycle      *)
(* unless another was saved since it was validated, and that has the depth *)
(* to be stored unless anything has changed since.                         *)
Known(c) == /\ References(c) \subseteq Names
            /\ \A s \in ToSet(c.steps) : s.kind = "provider-wildcard" => s.ref \in Providers

KnownRows == \A n \in DOMAIN rows : Known(rows[n].combo)

Vet(t, e, depth, missed) ==
    /\ Known(e.combo)
    /\ "save" \notin missed => Sure(e.name, e.combo, t)
    /\ missed = {} => depth # Refused /\ depth = ValidateGraph(e.name, e.combo, t)

Vetted ==
    \A x \in Editors : edit[x].pc = "write" =>
        /\ edit[x] = [pc |-> "write", what |-> edit[x].what, insert |-> edit[x].insert,
                      depth |-> edit[x].depth, missed |-> edit[x].missed]
        /\ Vet(table, edit[x].what, edit[x].depth, edit[x].missed)

RacedOrAcyclic == ~raced => Acyclic(table)

SavedDeep ==
    \A n \in sound : /\ n \in DOMAIN rows
                     /\ rows[n].depth = Depth(table, n)
                     /\ rows[n].depth # Refused /\ rows[n].depth <= MaxDepth

TableIInv == KnownRows /\ Vetted /\ RacedOrAcyclic /\ SavedDeep

LEMMA TableInit == RoutingInit => TableIInv
<1> SUFFICES ASSUME RoutingInit PROVE TableIInv
  OBVIOUS
<1>1. /\ \A n \in DOMAIN table : table[n] = rows[n].combo
      /\ DOMAIN table = DOMAIN rows /\ table = [n \in DOMAIN rows |-> rows[n].combo]
  BY DEF table
<1>2. world \in Worlds /\ rows = world.rows
  BY DEF RoutingInit
<1>3. Acyclic(table) /\ \A n \in DOMAIN table : Known(table[n])
  <2>1. /\ Acyclic(table)
        /\ \A n \in DOMAIN table :
              /\ References(table[n]) \subseteq Names
              /\ \A s \in ToSet(table[n].steps) :
                    s.kind = "provider-wildcard" => s.ref \in Providers
    BY <1>1, <1>2, SavedAssumption
  <2> QED BY <2>1 DEF Known
<1>4. KnownRows
  BY <1>1, <1>3 DEF KnownRows
<1>5. Vetted
  BY DEF RoutingInit, Vetted, Idle
<1>6. RacedOrAcyclic /\ SavedDeep
  BY <1>3 DEF RoutingInit, RacedOrAcyclic, SavedDeep
<1> QED BY <1>4, <1>5, <1>6 DEF TableIInv

(* Nothing but the call of an editor has changed, and it is not writing.   *)
LEMMA CallKeeps ==
    ASSUME TableIInv, Edited, NEW x \in Editors, UNCHANGED <<rows, raced, sound>>,
           \A y \in Editors \ {x} : edit'[y] = edit[y],
           edit'[x].pc = "write" => edit'[x] = edit[x]
    PROVE  TableIInv'
<1>1. table' = table
  BY DEF table
<1>2. KnownRows' /\ RacedOrAcyclic' /\ SavedDeep'
  BY <1>1 DEF TableIInv, KnownRows, RacedOrAcyclic, SavedDeep
<1>3. \A y \in Editors : edit'[y].pc = "write" => edit'[y] = edit[y]
  OBVIOUS
<1>4. Vetted'
  BY <1>1, <1>3 DEF TableIInv, Vetted, Vet
<1> QED BY <1>2, <1>4 DEF TableIInv

LEMMA ValidGraph ==
    ASSUME NEW name \in Names, NEW c, NEW t, DOMAIN t \subseteq Names,
           ValidateGraph(name, c, t) # Refused
    PROVE  /\ Known(c) /\ Sure(name, c, t)
           /\ ValidateGraph(name, c, t) = Depth(With(t, name, c), name)
           /\ ValidateGraph(name, c, t) <= MaxDepth
<1> DEFINE depth == Depth(With(t, name, c), name)
           fine  == /\ IsCombo(c)
                    /\ Allowlisted(c)
                    /\ References(c) \subseteq DOMAIN t \ {name}
                    /\ WithinCaps(c, depth)
<1>1. ValidateGraph(name, c, t) = IF fine THEN depth ELSE Refused
  BY DEF ValidateGraph, With
<1> HIDE DEF depth
<1>2. fine /\ ValidateGraph(name, c, t) = depth
  BY <1>1
<1>3. depth <= MaxDepth
  BY <1>2 DEF WithinCaps
<1>4. Known(c)
  BY <1>2 DEF Known, Allowlisted
<1>5. Sure(name, c, t)
  BY <1>2, DepthSure DEF depth
<1> QED BY <1>2, <1>3, <1>4, <1>5 DEF depth

LEMMA EditKeepsTable ==
    ASSUME RoutingIInv, TableIInv, NEW x \in Editors, Edit(x)
    PROVE  TableIInv'
<1> DEFINE e == edit[x].what
<1>0. /\ edit = [y \in Editors |-> edit[y]]
      /\ DOMAIN rows \subseteq Names
      /\ edit[x].pc \in {"exists", "validate", "write"} => e.name \in Names
      /\ Edited
  BY WorldsAssumption DEF RoutingIInv, Edited, Tabled
<1>7. DOMAIN table = DOMAIN rows /\ \A n \in DOMAIN rows : table[n] = rows[n].combo
  BY DEF table
<1>8. ASSUME NEW call, Goto(x, call), call.pc # "write", UNCHANGED <<rows, raced, sound>>
      PROVE  TableIInv'
  <2>1. /\ \A y \in Editors \ {x} : edit'[y] = edit[y]
        /\ edit'[x] = call
    BY <1>0, <1>8 DEF Goto
  <2> QED BY <1>0, <1>8, <2>1, CallKeeps
<1>9. ASSUME GiveUp(x), UNCHANGED <<rows, raced, sound>> PROVE TableIInv'
  <2>1. Goto(x, Idle) /\ Idle.pc # "write"
    BY <1>9 DEF GiveUp, Goto, Idle
  <2> QED BY <1>8, <1>9, <2>1
<1>1. CASE Ask(x)
  <2>1. UNCHANGED <<rows, raced, sound>>
    BY <1>1 DEF Ask, UnchangedByEdit
  <2>2. PICK call : Goto(x, call) /\ call.pc = "exists"
    BY <1>1 DEF Ask
  <2> QED BY <1>8, <2>1, <2>2
<1>2. CASE Exists(x)
  <2>1. UNCHANGED <<rows, raced, sound>>
    BY <1>2 DEF Exists, UnchangedByEdit
  <2> DEFINE call == [pc |-> "validate", what |-> e, insert |-> ~Stored(e.name)]
  <2>2. Goto(x, call) \/ GiveUp(x)
    BY <1>2 DEF Exists
  <2>3. call.pc # "write"
    OBVIOUS
  <2> HIDE DEF call
  <2> QED BY <1>8, <1>9, <2>1, <2>2, <2>3
<1>3. CASE Validate(x)
  <2>1. UNCHANGED <<rows, raced, sound>>
    BY <1>3 DEF Validate, UnchangedByEdit
  <2> DEFINE depth == ValidateGraph(e.name, e.combo, table)
             call  == [pc |-> "write", what |-> e, insert |-> edit[x].insert,
                       depth |-> depth, missed |-> {}]
  <2>2. (Goto(x, call) /\ depth # Refused) \/ GiveUp(x)
    BY <1>3 DEF Validate
  <2>3. CASE Goto(x, call) /\ depth # Refused
    <3>1. e.name \in Names
      BY <1>0, <1>3 DEF Validate
    <3>2. Known(e.combo) /\ Sure(e.name, e.combo, table)
      BY <1>0, <1>7, <2>3, <3>1, ValidGraph
    <3>3. Vet(table, e, depth, {})
      BY <2>3, <3>2 DEF Vet
    <3>4. /\ \A y \in Editors \ {x} : edit'[y] = edit[y]
          /\ edit'[x] = call
      BY <1>0, <2>3 DEF Goto
    <3>5. /\ call.what = e /\ call.depth = depth /\ call.missed = {}
          /\ call = [pc |-> "write", what |-> call.what, insert |-> call.insert,
                     depth |-> call.depth, missed |-> call.missed]
      OBVIOUS
    <3> HIDE DEF call, depth, e
    <3>6. table' = table
      BY <2>1 DEF table
    <3>7. KnownRows' /\ RacedOrAcyclic' /\ SavedDeep'
      BY <2>1, <3>6 DEF TableIInv, KnownRows, RacedOrAcyclic, SavedDeep
    <3>8. \A y \in Editors : edit'[y].pc = "write" => (edit'[y] = edit[y] \/ edit'[y] = call)
      BY <3>4
    <3>9. Vetted'
      BY <3>3, <3>5, <3>6, <3>8 DEF TableIInv, Vetted, Vet
    <3> QED BY <3>7, <3>9 DEF TableIInv
  <2> QED BY <1>9, <2>1, <2>2, <2>3
<1>4. CASE WriteRow(x)
  <2>0. e.name \in Names /\ edit[x].pc = "write"
    BY <1>0, <1>4 DEF WriteRow
  <2>1. CASE edit[x].insert = Stored(e.name)
    <3>1. GiveUp(x) /\ UNCHANGED <<rows, raced, sound>>
      BY <1>4, <2>1 DEF WriteRow
    <3> QED BY <1>9, <3>1
  <2>2. CASE edit[x].insert # Stored(e.name)
    <3> DEFINE row == [combo |-> e.combo, current |-> TRUE, depth |-> edit[x].depth]
               unseen == edit[x].missed
    <3>1. /\ rows' = [n \in DOMAIN rows \cup {e.name} |->
                         IF n = e.name THEN row ELSE rows[n]]
          /\ edit' = [Missed(x, "save") EXCEPT ![x] = Idle]
          /\ raced' = (raced \/ "save" \in unseen)
          /\ sound' = IF unseen = {} THEN {e.name} ELSE {}
      BY <1>4, <2>2 DEF WriteRow
    <3>2. Vet(table, e, edit[x].depth, unseen)
      BY <2>0 DEF TableIInv, Vetted
    <3>3. row.combo = e.combo /\ row.depth = edit[x].depth
      OBVIOUS
    <3> HIDE DEF row
    <3>4. table' = With(table, e.name, e.combo)
      BY <1>7, <3>1, <3>3 DEF With, table
    <3>5. KnownRows'
      BY <3>1, <3>2, <3>3 DEF TableIInv, KnownRows, Vet
    <3>6. RacedOrAcyclic'
      BY <3>1, <3>2, <3>4, SureAddsNoCycle DEF TableIInv, RacedOrAcyclic, Vet
    <3>7. SavedDeep'
      <4>1. CASE unseen = {}
        <5>1. /\ edit[x].depth # Refused /\ edit[x].depth <= MaxDepth
              /\ edit[x].depth = Depth(With(table, e.name, e.combo), e.name)
          BY <1>0, <1>7, <2>0, <3>2, <4>1, ValidGraph DEF Vet
        <5>2. /\ sound' = {e.name} /\ e.name \in DOMAIN rows'
              /\ rows'[e.name].depth = edit[x].depth
          BY <3>1, <3>3, <4>1
        <5> QED BY <3>4, <5>1, <5>2 DEF SavedDeep
      <4>2. CASE unseen # {}
        BY <3>1, <4>2 DEF SavedDeep
      <4> QED BY <4>1, <4>2
    <3>8. Vetted'
      <4>1. SUFFICES ASSUME NEW y \in Editors, edit'[y].pc = "write"
                     PROVE  /\ edit'[y] = [pc |-> "write", what |-> edit'[y].what,
                                 insert |-> edit'[y].insert, depth |-> edit'[y].depth,
                                 missed |-> edit'[y].missed]
                            /\ Vet(table', edit'[y].what, edit'[y].depth, edit'[y].missed)
        BY DEF Vetted
      <4>2. y # x /\ edit[y].pc = "write"
            /\ edit'[y] = [edit[y] EXCEPT !.missed = @ \cup {"save"}]
        BY <3>1, <4>1, <1>0 DEF Missed, Idle
      <4>3. /\ edit[y] = [pc |-> "write", what |-> edit[y].what, insert |-> edit[y].insert,
                          depth |-> edit[y].depth, missed |-> edit[y].missed]
            /\ Known(edit[y].what.combo)
        BY <4>2 DEF TableIInv, Vetted, Vet
      <4>4. edit'[y] = [pc |-> "write", what |-> edit[y].what, insert |-> edit[y].insert,
                        depth |-> edit[y].depth, missed |-> edit[y].missed \cup {"save"}]
        BY <4>2, <4>3
      <4> QED BY <4>3, <4>4 DEF Vet
    <3> QED BY <3>5, <3>6, <3>7, <3>8 DEF TableIInv
  <2> QED BY <2>1, <2>2
<1>5. CASE StoreFails(x)
  <2>1. UNCHANGED <<rows, raced, sound>> /\ GiveUp(x)
    BY <1>5 DEF StoreFails, UnchangedByEdit
  <2> QED BY <1>9, <2>1
<1>6. CASE Delete(x)
  <2>1. UNCHANGED raced /\ edit' = Missed(x, "delete") /\ sound' = {}
    BY <1>6 DEF Delete
  <2>2. PICK n \in DOMAIN rows : rows' = [m \in DOMAIN rows \ {n} |-> rows[m]]
    BY <1>6 DEF Delete
  <2>3. /\ DOMAIN table' \subseteq DOMAIN table
        /\ \A m \in DOMAIN table' : table'[m] = table[m]
    BY <1>7, <2>2 DEF table
  <2>4. KnownRows' /\ SavedDeep'
    BY <2>1, <2>2 DEF TableIInv, KnownRows, SavedDeep
  <2>5. RacedOrAcyclic'
    <3>1. Acyclic(table) => Acyclic(table')
      BY <2>3 DEF Acyclic
    <3> QED BY <2>1, <3>1 DEF TableIInv, RacedOrAcyclic
  <2>6. ASSUME NEW name, NEW c, Sure(name, c, table) PROVE Sure(name, c, table')
    BY <2>3, <2>6 DEF Sure
  <2>7. Vetted'
    <3>1. SUFFICES ASSUME NEW y \in Editors, edit'[y].pc = "write"
                   PROVE  /\ edit'[y] = [pc |-> "write", what |-> edit'[y].what,
                               insert |-> edit'[y].insert, depth |-> edit'[y].depth,
                               missed |-> edit'[y].missed]
                          /\ Vet(table', edit'[y].what, edit'[y].depth, edit'[y].missed)
      BY DEF Vetted
    <3>2. edit[y].pc = "write" /\ edit'[y] = [edit[y] EXCEPT !.missed = @ \cup {"delete"}]
      BY <1>6, <2>1, <3>1, <1>0 DEF Missed, Delete
    <3>3. /\ edit[y] = [pc |-> "write", what |-> edit[y].what, insert |-> edit[y].insert,
                        depth |-> edit[y].depth, missed |-> edit[y].missed]
          /\ Vet(table, edit[y].what, edit[y].depth, edit[y].missed)
      BY <3>2 DEF TableIInv, Vetted
    <3>4. edit'[y] = [pc |-> "write", what |-> edit[y].what, insert |-> edit[y].insert,
                      depth |-> edit[y].depth, missed |-> edit[y].missed \cup {"delete"}]
      BY <3>2, <3>3
    <3> QED BY <2>6, <3>3, <3>4 DEF Vet
  <2> QED BY <2>4, <2>5, <2>7 DEF TableIInv
<1> QED BY <1>1, <1>2, <1>3, <1>4, <1>5, <1>6 DEF Edit

(* The invariant of the table under edits, for any editors, requests and   *)
(* start tables that were saved without a race.                            *)
THEOREM TableInvariant == RoutingSpec => []TableIInv
<1>1. RoutingIInv /\ TableIInv /\ [RoutingNext]_routingVars => TableIInv'
  <2> SUFFICES ASSUME RoutingIInv, TableIInv, [RoutingNext]_routingVars PROVE TableIInv'
    OBVIOUS
  <2>1. ASSUME NEW x \in Editors, Edit(x) PROVE TableIInv'
    BY <2>1, EditKeepsTable
  <2>2. ASSUME UNCHANGED <<rows, edit, raced, sound>> PROVE TableIInv'
    <3>1. table' = table
      BY <2>2 DEF table
    <3> QED BY <2>2, <3>1 DEF TableIInv, KnownRows, Vetted, Vet, RacedOrAcyclic, SavedDeep
  <2>3. ASSUME NEW r \in Requests, Route(r) PROVE UNCHANGED <<rows, edit, raced, sound>>
    BY <2>3 DEF Route, LookUp, Get, List, ReadFails, Order, Answered, UnchangedByRequest
  <2>4. CASE UNCHANGED routingVars
    BY <2>2, <2>4 DEF routingVars
  <2> QED BY <2>1, <2>2, <2>3, <2>4 DEF RoutingNext
<1> QED BY <1>1, TableInit, RoutingInvariant, PTL DEF RoutingSpec

(* What is stored can be routed: the references close a cycle only if a    *)
(* save was written over an unseen save, and a combo that was just saved   *)
(* is not refused and has its longest chain as its depth (Save,            *)
(* combo_store.go:95-117).                                                 *)
THEOREM TableStaysSound == RoutingSpec => []TableSound
<1>1. RoutingIInv /\ TableIInv => TableSound
  <2> SUFFICES ASSUME RoutingIInv, TableIInv PROVE TableSound
    OBVIOUS
  <2>1. /\ DOMAIN table = DOMAIN rows /\ \A n \in DOMAIN rows : table[n] = rows[n].combo
        /\ DOMAIN table \subseteq Names
    BY DEF table, RoutingIInv, Tabled
  <2>2. CyclesNeedARace
    <3> DEFINE len == Cardinality(Names) + 1
    <3>1. len \in Nat
      BY CatalogAssumption, FS_CardinalityType
    <3> HIDE DEF len
    <3>2. SUFFICES ASSUME ~raced, NEW n \in DOMAIN rows, NEW p \in Chains(n, len),
                          Len(p) > 1, Last(p) = n
                   PROVE  FALSE
      BY DEF CyclesNeedARace, len
    <3>3. /\ p \in Seq(Names) /\ p # <<>> /\ p[1] = n
          /\ \A i \in 1 .. Len(p) - 1 :
               p[i] \in DOMAIN table /\ p[i + 1] \in References(table[p[i]])
      BY <3>1, ChainIs
    <3> DEFINE S == {p[i] : i \in 1 .. Len(p) - 1}
    <3>4. S \in SUBSET DOMAIN table /\ S # {}
      <4>1. 1 \in 1 .. Len(p) - 1
        BY <3>2, <3>3
      <4> QED BY <3>3, <4>1
    <3>5. PICK i \in 1 .. Len(p) - 1 : References(table[p[i]]) \cap S = {}
      <4>1. Acyclic(table)
        BY <3>2 DEF TableIInv, RacedOrAcyclic
      <4>2. \E m \in S : References(table[m]) \cap S = {}
        <5> HIDE DEF S
        <5> QED BY <3>4, <4>1 DEF Acyclic
      <4> QED BY <4>2
    <3>6. p[i + 1] \in References(table[p[i]])
      BY <3>3
    <3>7. p[i + 1] \in S
      <4>1. CASE i = Len(p) - 1
        <5>1. i + 1 = Len(p) /\ 1 \in 1 .. Len(p) - 1
          BY <3>2, <3>3, <4>1
        <5>2. p[i + 1] = p[1]
          BY <3>2, <3>3, <5>1 DEF Last
        <5> QED BY <5>1, <5>2
      <4>2. CASE i # Len(p) - 1
        <5>1. i + 1 \in 1 .. Len(p) - 1
          BY <3>3, <4>2
        <5> QED BY <5>1
      <4> QED BY <4>1, <4>2
    <3> QED BY <3>5, <3>6, <3>7
  <2>3. SavedComboRoutes
    <3>1. SUFFICES ASSUME NEW n \in sound
                   PROVE  /\ ~Expand(table, n).refused
                          /\ rows[n].depth = Max({Len(p) - 1 :
                                p \in Chains(n, Cardinality(Names) + 1)})
      BY DEF SavedComboRoutes
    <3>2. /\ n \in DOMAIN table /\ rows[n].depth = Depth(table, n)
          /\ Depth(table, n) # Refused /\ Depth(table, n) <= MaxDepth
      BY <2>1 DEF TableIInv, SavedDeep
    <3>3. Stocked(table) /\ Open(table)
      BY <2>1 DEF Stocked, Open, RoutingIInv, Tabled, TableIInv, KnownRows, Known
    <3>4. ~Expand(table, n).refused
      BY <3>2, <3>3, ExpandGoes
    <3>5. Depth(table, n) = Max({Len(p) - 1 : p \in Chains(n, Cardinality(Names) + 1)})
      BY <2>1, <3>2, DepthIsLongest
    <3> QED BY <3>2, <3>4, <3>5
  <2> QED BY <2>2, <2>3 DEF TableSound
<1> QED BY <1>1, RoutingInvariant, TableInvariant, PTL

-----------------------------------------------------------------------------
(* What a combo is expanded into (expand.go), chain by chain. What holds   *)
(* of a chain just if it holds of a chain one longer, or of itself, holds  *)
(* of it just if it holds itself of some chain that goes on from it.       *)
GoesOn(q, p) == Len(q) >= Len(p) /\ \A i \in 1..Len(p) : q[i] = p[i]

(* Every chain from n goes on from the chain of n alone.                   *)
LEMMA ChainBegins ==
    ASSUME NEW n, NEW len \in Nat, NEW p \in Chains(n, len), NEW i \in 1..Len(p)
    PROVE  /\ SubSeq(p, 1, i) \in Chains(n, len)
           /\ Len(SubSeq(p, 1, i)) = i /\ Last(SubSeq(p, 1, i)) = p[i]
           /\ \A j \in 1..i : SubSeq(p, 1, i)[j] = p[j]
           /\ i < Len(p) => /\ SubSeq(p, 1, i + 1) = Append(SubSeq(p, 1, i), p[i + 1])
                            /\ p[i] \in DOMAIN table
                            /\ p[i + 1] \in References(table[p[i]])
           /\ i = Len(p) => SubSeq(p, 1, i) = p
<1> DEFINE q == SubSeq(p, 1, i)
<1>1. /\ p \in Seq(Names) /\ Len(p) \in Nat /\ Len(p) <= len /\ p[1] = n
      /\ \A j \in 1 .. Len(p) - 1 :
           p[j] \in DOMAIN table /\ p[j + 1] \in References(table[p[j]])
  BY ChainIs
<1>2. /\ q \in Seq(Names) /\ q # <<>> /\ Len(q) = i /\ Last(q) = p[i]
      /\ \A j \in 1..i : q[j] = p[j]
      /\ i < Len(p) => SubSeq(p, 1, i + 1) = Append(q, p[i + 1])
      /\ i = Len(p) => q = p
  BY <1>1, FirstsOf
<1> HIDE DEF q
<1>3. q \in Chains(n, len)
  <2>1. 1 \in 1..i /\ i <= len /\ i \in Nat
    BY <1>1
  <2>2. ASSUME NEW j \in 1 .. Len(q) - 1
        PROVE  q[j] \in DOMAIN table /\ q[j + 1] \in References(table[q[j]])
    <3>1. j \in 1..i /\ j + 1 \in 1..i /\ j \in 1 .. Len(p) - 1
      BY <1>1, <1>2
    <3> QED BY <1>1, <1>2, <3>1
  <2> QED BY <1>1, <1>2, <2>1, <2>2, ChainIs
<1>4. i < Len(p) => i \in 1 .. Len(p) - 1
  BY <1>1
<1> QED BY <1>1, <1>2, <1>3, <1>4 DEF q

(* What goes on from a chain, and is longer, goes on from it by one of its *)
(* references.                                                             *)
LEMMA ChainGoesOn ==
    ASSUME NEW n, NEW len \in Nat, NEW p \in Chains(n, len), Len(p) < len,
           Last(p) \in DOMAIN table, NEW r \in References(table[Last(p)]), r \in Names
    PROVE  /\ Append(p, r) \in Chains(n, len) /\ Last(Append(p, r)) = r
           /\ Len(Append(p, r)) = Len(p) + 1 /\ GoesOn(Append(p, r), p)
<1> DEFINE w == Append(p, r)
<1>1. /\ p \in Seq(Names) /\ Len(p) \in Nat /\ p[1] = n /\ p # <<>>
      /\ \A j \in 1 .. Len(p) - 1 :
           p[j] \in DOMAIN table /\ p[j + 1] \in References(table[p[j]])
  BY ChainIs
<1>2. /\ w \in Seq(Names) /\ w # <<>> /\ Len(w) = Len(p) + 1 /\ Last(w) = r
      /\ w[Len(p) + 1] = r /\ \A i \in 1..Len(p) : w[i] = p[i]
  BY <1>1, PathsGrow
<1> HIDE DEF w
<1>3. 1 \in 1..Len(p) /\ Len(p) + 1 <= len /\ p[Len(p)] = Last(p)
  BY <1>1 DEF Last
<1>4. ASSUME NEW j \in 1 .. Len(w) - 1
      PROVE  w[j] \in DOMAIN table /\ w[j + 1] \in References(table[w[j]])
  <2>1. CASE j = Len(p)
    BY <1>2, <1>3, <2>1
  <2>2. CASE j # Len(p)
    <3>1. j \in 1..Len(p) /\ j + 1 \in 1..Len(p) /\ j \in 1 .. Len(p) - 1
      BY <1>1, <1>2, <2>2
    <3> QED BY <1>1, <1>2, <3>1
  <2> QED BY <2>1, <2>2
<1>5. w \in Chains(n, len)
  BY <1>1, <1>2, <1>3, <1>4, ChainIs
<1>6. GoesOn(w, p)
  BY <1>1, <1>2 DEF GoesOn
<1> QED BY <1>2, <1>5, <1>6 DEF w

(* What a chain has by itself or from one that is longer by a reference.   *)
Inherited(n, len, H, B) ==
    \A p \in Chains(n, len) :
       p \in H <=> \/ p \in B
                   \/ /\ Len(p) < len /\ Last(p) \in DOMAIN table
                      /\ \E r \in References(table[Last(p)]) : Append(p, r) \in H

(* The principle, by induction on how much longer a chain may get.         *)
LEMMA ChainsReach ==
    ASSUME \A m \in DOMAIN table : References(table[m]) \subseteq Names,
           NEW n, NEW len \in Nat, NEW H, NEW B,
           Inherited(n, len, H, B)
    PROVE  \A p \in Chains(n, len) :
              p \in H <=> \E q \in Chains(n, len) : q \in B /\ GoesOn(q, p)
<1> DEFINE C == Chains(n, len)
<1> USE DEF Inherited
<1>0. ASSUME NEW p \in C PROVE p \in Seq(Names) /\ Len(p) \in Nat \ {0} /\ Len(p) <= len
  BY ChainIs
<1>1. ASSUME NEW p \in C, NEW q \in C, q \in B, GoesOn(q, p) PROVE p \in H
  <2> DEFINE l == Len(q) - Len(p)
             w(k) == SubSeq(q, 1, Len(q) - k)
             Odd == {k \in 0..l : w(k) \notin H}
  <2>1. Len(p) \in Nat \ {0} /\ Len(q) \in Nat \ {0} /\ l \in Nat /\ Len(q) <= len
    BY <1>0, <1>1 DEF GoesOn
  <2>2. Odd = {}
    <3>1. SUFFICES ASSUME Odd # {} PROVE FALSE
      OBVIOUS
    <3>2. PICK k \in Odd : \A j \in Odd : k <= j
      <4>1. Odd \in SUBSET Nat
        BY <2>1
      <4> HIDE DEF Odd
      <4> QED BY <3>1, <4>1, Least
    <3>3. k \in 0..l /\ Len(q) - k \in 1..Len(q)
      BY <2>1
    <3>4. k # 0
      <4>1. Len(q) \in 1..Len(q) /\ Len(q) - 0 = Len(q)
        BY <2>1
      <4>2. q \in H
        BY <1>1
      <4>3. w(0) = q
        BY <4>1, ChainBegins
      <4> QED BY <3>2, <4>2, <4>3
    <3>5. /\ k - 1 \in 0..l /\ ~(k <= k - 1) /\ Len(q) - k < Len(q) /\ Len(q) - k < len
          /\ Len(q) - k + 1 = Len(q) - (k - 1)
      BY <2>1, <3>3, <3>4
    <3>6. w(k - 1) \in H
      BY <3>2, <3>5
    <3>7. /\ w(k) \in C /\ Len(w(k)) = Len(q) - k /\ Last(w(k)) = q[Len(q) - k]
          /\ w(k - 1) = Append(w(k), q[Len(q) - k + 1])
          /\ q[Len(q) - k] \in DOMAIN table
          /\ q[Len(q) - k + 1] \in References(table[q[Len(q) - k]])
      BY <3>3, <3>5, ChainBegins
    <3>8. w(k) \in H
      <4> HIDE DEF w
      <4> QED BY <3>5, <3>6, <3>7
    <3> QED BY <3>2, <3>8
  <2>3. l \in 0..l /\ Len(q) - l = Len(p) /\ Len(p) \in 1..Len(q)
    BY <2>1
  <2>4. SubSeq(q, 1, Len(p)) = p
    <3>1. /\ SubSeq(q, 1, Len(p)) \in C /\ Len(SubSeq(q, 1, Len(p))) = Len(p)
          /\ \A j \in 1..Len(p) : SubSeq(q, 1, Len(p))[j] = q[j]
      BY <2>3, ChainBegins
    <3>2. \A j \in 1..Len(p) : SubSeq(q, 1, Len(p))[j] = p[j]
      BY <1>1, <3>1 DEF GoesOn
    <3> QED BY <1>0, <3>1, <3>2, SeqEqual
  <2> QED BY <2>2, <2>3, <2>4
<1>2. ASSUME NEW p \in C, p \in H PROVE \E q \in C : q \in B /\ GoesOn(q, p)
  <2> DEFINE Good(q) == \E z \in C : z \in B /\ GoesOn(z, q)
             Odd == {k \in Nat : \E q \in C : q \in H /\ ~Good(q) /\ Len(q) + k = len}
  <2>1. Odd = {}
    <3>1. SUFFICES ASSUME Odd # {} PROVE FALSE
      OBVIOUS
    <3>2. PICK k \in Odd : \A j \in Odd : k <= j
      <4>1. Odd \in SUBSET Nat
        OBVIOUS
      <4> HIDE DEF Odd
      <4> QED BY <3>1, <4>1, Least
    <3>3. PICK q \in C : q \in H /\ ~Good(q) /\ Len(q) + k = len
      BY <3>2
    <3>4. GoesOn(q, q) /\ Len(q) \in Nat
      BY <1>0 DEF GoesOn
    <3>5. q \notin B
      BY <3>3, <3>4
    <3>6. /\ Len(q) < len /\ Last(q) \in DOMAIN table
          /\ \E r \in References(table[Last(q)]) : Append(q, r) \in H
      BY <3>3, <3>5
    <3>7. PICK r \in References(table[Last(q)]) : Append(q, r) \in H
      BY <3>6
    <3>8. /\ Append(q, r) \in C /\ Len(Append(q, r)) = Len(q) + 1 /\ GoesOn(Append(q, r), q)
      BY <3>6, ChainGoesOn
    <3>9. ~Good(Append(q, r))
      <4>1. SUFFICES ASSUME NEW z \in C, z \in B, GoesOn(z, Append(q, r)) PROVE FALSE
        OBVIOUS
      <4>2. GoesOn(z, q)
        <5>1. Len(z) \in Nat
          BY <1>0
        <5> QED BY <3>4, <3>8, <4>1, <5>1 DEF GoesOn
      <4> QED BY <3>3, <4>1, <4>2
    <3>10. k - 1 \in Nat /\ ~(k <= k - 1) /\ Len(Append(q, r)) + (k - 1) = len
      BY <3>2, <3>3, <3>4, <3>6, <3>8
    <3>11. k - 1 \in Odd
      <4> HIDE DEF Good
      <4> QED BY <3>7, <3>8, <3>9, <3>10
    <3> HIDE DEF Odd
    <3> QED BY <3>2, <3>10, <3>11
  <2>2. len - Len(p) \in Nat /\ Len(p) + (len - Len(p)) = len
    BY <1>0
  <2>3. Good(p)
    <3> HIDE DEF Good
    <3> QED BY <1>2, <2>1, <2>2
  <2> QED BY <2>3
<1> QED BY <1>1, <1>2

(* What a step reaches, in terms of the chains one longer.                 *)
LEMMA ReachedIs ==
    ASSUME NEW t, NEW n \in DOMAIN t, IsCombo(t[n]), NEW below, NEW c
    PROVE  LET steps == t[n].steps IN
           (\E i \in DOMAIN steps : c \in Reached(steps[i], below)) <=>
              \/ \E s \in ToSet(steps) : c \in Named(s)
              \/ \E r \in References(t[n]) : c \in Targets(below[r].entries)
<1> DEFINE steps == t[n].steps
<1>1. \A i \in DOMAIN steps : steps[i] \in ToSet(steps)
  BY DEF ToSet
<1>2. \A s \in ToSet(steps) : \E i \in DOMAIN steps : s = steps[i]
  BY DEF ToSet
<1>3. \A s : s.kind = "combo-ref" => Named(s) = {}
  BY DEF Named
<1>4. \A s \in ToSet(steps) : s.kind = "combo-ref" => s.ref \in References(t[n])
  BY DEF References
<1>5. \A r \in References(t[n]) : \E s \in ToSet(steps) : s.kind = "combo-ref" /\ s.ref = r
  BY DEF References
<1> HIDE DEF steps
<1>6. ASSUME NEW i \in DOMAIN steps, c \in Reached(steps[i], below)
      PROVE  \/ \E s \in ToSet(steps) : c \in Named(s)
             \/ \E r \in References(t[n]) : c \in Targets(below[r].entries)
  BY <1>1, <1>4, <1>6 DEF Reached
<1>7. ASSUME NEW s \in ToSet(steps), c \in Named(s)
      PROVE  \E i \in DOMAIN steps : c \in Reached(steps[i], below)
  <2>1. PICK i \in DOMAIN steps : s = steps[i]
    BY <1>2
  <2>2. s.kind # "combo-ref"
    BY <1>3, <1>7
  <2> QED BY <1>7, <2>1, <2>2 DEF Reached
<1>8. ASSUME NEW r \in References(t[n]), c \in Targets(below[r].entries)
      PROVE  \E i \in DOMAIN steps : c \in Reached(steps[i], below)
  <2>1. PICK s \in ToSet(steps) : s.kind = "combo-ref" /\ s.ref = r
    BY <1>5
  <2>2. PICK i \in DOMAIN steps : s = steps[i]
    BY <1>2
  <2> QED BY <1>8, <2>1, <2>2 DEF Reached
<1> QED BY <1>6, <1>7, <1>8 DEF steps

(* What a chain is refused for by itself.                                  *)
Bad(p) == \/ Last(p) \notin DOMAIN table
          \/ Len(p) = MaxDepth + 2
          \/ \E i \in 1 .. Len(p) - 1 : p[i] = Last(p)

(* A chain is refused just if some chain that goes on from it is bad.      *)
LEMMA RefusedReach ==
    ASSUME Stocked(table), Open(table),
           \A m \in DOMAIN table : References(table[m]) \subseteq Names,
           NEW g, Wide(table, g), NEW n
    PROVE  LET C == Chains(n, MaxDepth + 2) IN
           \A p \in C : (Last(p) \notin DOMAIN table \/ g[p].refused)
                          <=> \E q \in C : Bad(q) /\ GoesOn(q, p)
<1> DEFINE len == MaxDepth + 2
           C == Chains(n, len)
           H == {p \in C : Last(p) \notin DOMAIN table \/ g[p].refused}
           B == {p \in C : Bad(p)}
<1>1. MaxDepth \in Nat /\ len \in Nat
  BY CatalogAssumption
<1>2. ASSUME NEW p \in C
      PROVE  p \in H <=> \/ p \in B
                         \/ /\ Len(p) < len /\ Last(p) \in DOMAIN table
                            /\ \E r \in References(table[Last(p)]) : Append(p, r) \in H
  <2>1. p \in Seq(Names) /\ p # <<>> /\ Len(p) <= len /\ Len(p) \in Nat \ {0}
    <3> HIDE DEF len
    <3> QED BY <1>1, ChainIs
  <2>2. CASE Last(p) \notin DOMAIN table
    BY <2>2 DEF Bad
  <2>3. CASE Last(p) \in DOMAIN table
    <3> DEFINE refs == References(table[Last(p)])
    <3>1. p \in Ending(table)
      BY <2>1, <2>3 DEF Ending
    <3>2. TooDeep(p) <=> Len(p) = len
      BY <1>1, <2>1 DEF TooDeep
    <3>3. Last(p) \in ToSet(Front(p)) <=> \E i \in 1 .. Len(p) - 1 : p[i] = Last(p)
      <4>1. /\ Front(p) \in Seq(Names) /\ Len(Front(p)) = Len(p) - 1
            /\ p = Append(Front(p), Last(p)) /\ Last(p) \in Names
        BY <2>1, ToSetEnds
      <4>2. \A i \in 1 .. Len(p) - 1 : p[i] = Front(p)[i]
        BY <4>1, PathsGrow
      <4>3. DOMAIN Front(p) = 1 .. Len(p) - 1
        BY <4>1
      <4> QED BY <4>2, <4>3 DEF ToSet
    <3>4. Bad(p) <=> TooDeep(p) \/ Last(p) \in ToSet(Front(p))
      BY <2>3, <3>2, <3>3 DEF Bad
    <3>5. g[p].refused <=> \/ Bad(p)
                           \/ \E r \in refs : r \notin DOMAIN table \/ g[Append(p, r)].refused
      BY <3>1, <3>4, RefusedIs
    <3>6. ASSUME Len(p) < len, NEW r \in refs
          PROVE  Append(p, r) \in H <=> r \notin DOMAIN table \/ g[Append(p, r)].refused
      <4>1. r \in Names
        BY <2>3
      <4>2. Append(p, r) \in C /\ Last(Append(p, r)) = r
        <5> HIDE DEF len
        <5> QED BY <1>1, <2>3, <3>6, <4>1, ChainGoesOn
      <4> QED BY <4>2
    <3>7. ~(Len(p) < len) => Bad(p)
      BY <1>1, <2>1 DEF Bad
    <3> HIDE DEF len, C
    <3>8. (p \in H <=> g[p].refused) /\ (p \in B <=> Bad(p))
      BY <2>3
    <3> HIDE DEF H, B
    <3> QED BY <2>3, <3>5, <3>6, <3>7, <3>8
  <2> QED BY <2>2, <2>3
<1> HIDE DEF H, B, len
<1>3. \A p \in C : p \in H <=> \E q \in C : q \in B /\ GoesOn(q, p)
  <2>1. Inherited(n, len, H, B)
    BY <1>2 DEF Inherited
  <2> QED BY <1>1, <2>1, ChainsReach
<1> QED BY <1>3 DEF H, B, len

(* One that is not has the targets that the combos at the ends of those    *)
(* chains name.                                                            *)
LEMMA TargetsReach ==
    ASSUME Stocked(table), Open(table),
           \A m \in DOMAIN table : References(table[m]) \subseteq Names,
           NEW g, Wide(table, g), NEW n, NEW c,
           \A q \in Chains(n, MaxDepth + 2) : ~Bad(q)
    PROVE  LET C == Chains(n, MaxDepth + 2) IN
           \A p \in C : c \in Targets(g[p].entries)
                          <=> \E q \in C : /\ \E s \in ToSet(table[Last(q)].steps) : c \in Named(s)
                                           /\ GoesOn(q, p)
<1> DEFINE len == MaxDepth + 2
           C == Chains(n, len)
           H == {p \in C : c \in Targets(g[p].entries)}
           B == {p \in C : \E s \in ToSet(table[Last(p)].steps) : c \in Named(s)}
<1>1. MaxDepth \in Nat /\ len \in Nat
  BY CatalogAssumption
<1>2. ASSUME NEW p \in C
      PROVE  p \in H <=> \/ p \in B
                         \/ /\ Len(p) < len /\ Last(p) \in DOMAIN table
                            /\ \E r \in References(table[Last(p)]) : Append(p, r) \in H
  <2> DEFINE steps == table[Last(p)].steps
             refs  == References(table[Last(p)])
             below == [m \in DOMAIN table |-> g[Append(p, m)]]
  <2>1. p \in Seq(Names) /\ p # <<>> /\ Len(p) <= len /\ Len(p) \in Nat \ {0}
    <3> HIDE DEF len
    <3> QED BY <1>1, ChainIs
  <2>2. Last(p) \in DOMAIN table /\ Len(p) < len
    BY <1>1, <2>1 DEF Bad
  <2>3. p \in Ending(table)
    BY <2>1, <2>2 DEF Ending
  <2>4. ~g[p].refused
    BY RefusedReach
  <2>5. Offers(g[p].entries) = UNION {{i} \X Reached(steps[i], below) : i \in DOMAIN steps}
    <3>1. Offers(g[p].entries) = Gathered(table, g, p)
      BY <2>3, <2>4, WideEntries
    <3> QED BY <3>1 DEF Gathered
  <2>6. c \in Targets(g[p].entries) <=> \E i \in DOMAIN steps : c \in Reached(steps[i], below)
    <3>1. Targets(g[p].entries) = {o[2] : o \in Offers(g[p].entries)}
      BY OffersTarget
    <3> HIDE DEF steps, below
    <3>2. (\E o \in Offers(g[p].entries) : o[2] = c)
             <=> \E i \in DOMAIN steps : c \in Reached(steps[i], below)
      <4>1. ASSUME NEW o \in Offers(g[p].entries), o[2] = c
            PROVE  \E i \in DOMAIN steps : c \in Reached(steps[i], below)
        <5>1. PICK i \in DOMAIN steps : o \in {i} \X Reached(steps[i], below)
          BY <2>5, <4>1
        <5> QED BY <4>1, <5>1
      <4>2. ASSUME NEW i \in DOMAIN steps, c \in Reached(steps[i], below)
            PROVE  \E o \in Offers(g[p].entries) : o[2] = c
        <5>1. <<i, c>> \in {i} \X Reached(steps[i], below)
          BY <4>2
        <5>2. <<i, c>> \in Offers(g[p].entries)
          BY <2>5, <5>1
        <5> QED BY <5>2
      <4> QED BY <4>1, <4>2
    <3> QED BY <3>1, <3>2
  <2>7. (\E i \in DOMAIN steps : c \in Reached(steps[i], below)) <=>
           \/ \E s \in ToSet(steps) : c \in Named(s)
           \/ \E r \in refs : c \in Targets(below[r].entries)
    <3>1. IsCombo(table[Last(p)])
      BY <2>2 DEF Stocked
    <3> HIDE DEF below
    <3> QED BY <2>2, <3>1, ReachedIs
  <2>8. ASSUME NEW r \in refs
        PROVE  c \in Targets(below[r].entries) <=> Append(p, r) \in H
    <3>1. r \in Names
      BY <2>2
    <3>2. Append(p, r) \in C /\ Last(Append(p, r)) = r
      <4> HIDE DEF len
      <4> QED BY <1>1, <2>2, <3>1, ChainGoesOn
    <3>3. r \in DOMAIN table
      BY <3>2 DEF Bad
    <3>4. below[r] = g[Append(p, r)]
      BY <3>3
    <3> QED BY <3>2, <3>4
  <2>9. (p \in H <=> c \in Targets(g[p].entries))
        /\ (p \in B <=> \E s \in ToSet(steps) : c \in Named(s))
    BY Zenon
  <2> HIDE DEF H, B, steps, below
  <2> QED BY <2>2, <2>6, <2>7, <2>8, <2>9
<1> HIDE DEF H, B, len
<1>3. \A p \in C : p \in H <=> \E q \in C : q \in B /\ GoesOn(q, p)
  <2>1. Inherited(n, len, H, B)
    BY <1>2 DEF Inherited
  <2> QED BY <1>1, <2>1, ChainsReach
<1> QED BY <1>3 DEF H, B, len

(* expand does what it should on every table that edits leave behind.      *)
LEMMA ExpandsAll == RoutingIInv /\ TableIInv => ExpandsEveryChain
<1> SUFFICES ASSUME RoutingIInv, TableIInv, NEW n \in DOMAIN rows
             PROVE  LET x == Expand(table, n)
                        chains == Chains(n, MaxDepth + 2)
                        bad(p) == \/ Last(p) \notin DOMAIN table
                                  \/ Len(p) = MaxDepth + 2
                                  \/ \E i \in 1 .. Len(p) - 1 : p[i] = Last(p)
                        below(i) == LET s == table[n].steps[i]
                                    IN  IF s.kind # "combo-ref" THEN {<<s>>}
                                        ELSE {table[Last(p)].steps : p \in
                                                {q \in chains : Len(q) > 1 /\ q[2] = s.ref}}
                        named(s) == {pair \in Catalog :
                                        \/ s.kind = "model" /\ pair[2] = s.ref
                                        \/ s.kind = "provider-wildcard" /\ pair[1] = s.ref}
                    IN  /\ x.refused <=> \E p \in chains : bad(p)
                        /\ ~x.refused =>
                              {<<e.step, <<e.provider, e.model>>>> : e \in ToSet(x.entries)}
                              = UNION {{i} \X UNION {named(s) : s \in UNION
                                            {ToSet(ss) : ss \in below(i)}} :
                                       i \in DOMAIN table[n].steps}
  BY DEF ExpandsEveryChain
<1> DEFINE len == MaxDepth + 2
           C   == Chains(n, len)
           steps == table[n].steps
           x == Expand(table, n)
           ends(i) == LET s == steps[i]
                      IN  IF s.kind # "combo-ref" THEN {<<s>>}
                          ELSE {table[Last(p)].steps : p \in
                                  {q \in C : Len(q) > 1 /\ q[2] = s.ref}}
           all(i) == UNION {Named(s) : s \in UNION {ToSet(ss) : ss \in ends(i)}}
<1>1. /\ DOMAIN table = DOMAIN rows /\ \A m \in DOMAIN rows : table[m] = rows[m].combo
      /\ DOMAIN table \subseteq Names /\ n \in DOMAIN table
  BY DEF table, RoutingIInv, Tabled
<1>2. Stocked(table) /\ Open(table) /\ \A m \in DOMAIN table : References(table[m]) \subseteq Names
  BY <1>1 DEF Stocked, Open, RoutingIInv, Tabled, TableIInv, KnownRows, Known
<1>3. MaxDepth \in Nat /\ len \in Nat
  BY CatalogAssumption
<1> DEFINE one == <<n>>
<1>4. PICK g : Wide(table, g) /\ x = g[one]
  BY <1>2, ExpandIs
<1> HIDE DEF x
<1>5. /\ one \in Seq(Names) /\ one # <<>> /\ Len(one) = 1 /\ Last(one) = n
      /\ one[1] = n
  BY <1>1 DEF Last
<1> HIDE DEF one
<1>6. one \in C /\ one \in Ending(table)
  <2>1. Len(one) <= len /\ 1 .. Len(one) - 1 = {}
    BY <1>3, <1>5
  <2> HIDE DEF len
  <2> QED BY <1>1, <1>3, <1>5, <2>1, ChainIs DEF Ending
<1>7. \A q \in C : q \in Seq(Names) /\ Len(q) \in Nat \ {0} /\ GoesOn(q, one)
  <2> HIDE DEF len
  <2>1. ASSUME NEW q \in C PROVE q \in Seq(Names) /\ Len(q) \in Nat \ {0} /\ q[1] = n
    BY <1>3, ChainIs
  <2> QED BY <1>5, <2>1 DEF GoesOn
<1>8. x.refused <=> \E q \in C : Bad(q)
  <2>1. (Last(one) \notin DOMAIN table \/ g[one].refused)
           <=> \E q \in C : Bad(q) /\ GoesOn(q, one)
    BY <1>2, <1>4, <1>6, RefusedReach
  <2> QED BY <1>1, <1>4, <1>5, <1>7, <2>1
<1>9. ASSUME ~x.refused PROVE Offers(x.entries) = UNION {{i} \X all(i) : i \in DOMAIN steps}
  <2> DEFINE below == [m \in DOMAIN table |-> g[Append(one, m)]]
  <2>1. Offers(x.entries) = UNION {{i} \X Reached(steps[i], below) : i \in DOMAIN steps}
    <3>1. PICK r \in Ending(table) : r = one
      BY <1>6
    <3>2. ~g[r].refused
      BY <1>4, <1>9, <3>1
    <3>3. Offers(g[r].entries) = Gathered(table, g, r)
      BY <1>2, <1>4, <3>2, WideEntries
    <3> QED BY <1>4, <1>5, <3>1, <3>3 DEF Gathered
  <2>2. ASSUME NEW i \in DOMAIN steps, NEW c PROVE c \in Reached(steps[i], below) <=> c \in all(i)
    <3> DEFINE s == steps[i]
    <3>1. CASE s.kind # "combo-ref"
      <4>1. ends(i) = {<<s>>} /\ ToSet(<<s>>) = {s}
        BY <3>1 DEF ToSet
      <4>2. Reached(s, below) = Named(s)
        BY <3>1 DEF Reached
      <4> HIDE DEF ends, below, s
      <4>3. all(i) = Named(s)
        BY <4>1
      <4> QED BY <4>2, <4>3 DEF s
    <3>2. CASE s.kind = "combo-ref"
      <4>1. s \in ToSet(steps) /\ s.ref \in References(table[n]) /\ s.ref \in Names
        <5>1. s \in ToSet(steps)
          BY DEF ToSet
        <5>2. s.ref \in References(table[n])
          BY <3>2, <5>1 DEF References
        <5> QED BY <1>1, <1>2, <5>1, <5>2
      <4>2. PICK r \in Names : r = s.ref /\ r \in References(table[n])
        BY <4>1
      <4> DEFINE two == Append(one, r)
                 names(q) == \E z \in ToSet(table[Last(q)].steps) : c \in Named(z)
      <4>3. two \in C /\ Last(two) = r /\ Len(two) = 2 /\ two[1] = n /\ two[2] = r
        <5>1. Len(one) < len
          BY <1>3, <1>5
        <5>2. two \in C /\ Last(two) = r
          <6>1. /\ Last(one) \in DOMAIN table /\ r \in References(table[Last(one)])
                /\ r \in Names /\ one \in C
            BY <1>1, <1>5, <1>6, <4>2
          <6> HIDE DEF len
          <6> QED BY <1>2, <1>3, <5>1, <6>1, ChainGoesOn
        <5>3. Len(two) = 2 /\ two[1] = n /\ two[2] = r
          <6>1. one \in Seq(Names) /\ r \in Names
            BY <1>5
          <6>2. Len(two) = Len(one) + 1 /\ two[Len(one) + 1] = r
            BY <6>1, PathsGrow
          <6>3. \A z \in 1..Len(one) : two[z] = one[z]
            BY <6>1, PathsGrow
          <6> HIDE DEF two
          <6> QED BY <1>5, <6>2, <6>3
        <5> QED BY <5>2, <5>3
      <4>4. r \in DOMAIN table /\ \A q \in C : ~Bad(q)
        BY <1>8, <1>9, <4>3 DEF Bad
      <4>5. Reached(s, below) = Targets(g[two].entries)
        BY <3>2, <4>2, <4>4 DEF Reached
      <4> HIDE DEF two
      <4>6. c \in Targets(g[two].entries) <=> \E q \in C : names(q) /\ GoesOn(q, two)
        BY <1>2, <1>4, <4>3, <4>4, TargetsReach
      <4>7. ASSUME NEW q \in C PROVE GoesOn(q, two) <=> Len(q) > 1 /\ q[2] = r
        <5>1. q[1] = n /\ Len(q) \in Nat
          BY <1>5, <1>7 DEF GoesOn
        <5> QED BY <4>3, <5>1 DEF GoesOn
      <4>8. c \in all(i) <=> \E q \in C : Len(q) > 1 /\ q[2] = r /\ names(q)
        <5>1. ends(i) = {table[Last(p)].steps : p \in {q \in C : Len(q) > 1 /\ q[2] = r}}
          BY <3>2, <4>2
        <5> HIDE DEF ends, C
        <5> QED BY <5>1
      <4> HIDE DEF all, below, names, C
      <4> QED BY <4>5, <4>6, <4>7, <4>8
    <3> HIDE DEF all, below
    <3> QED BY <3>1, <3>2
  <2> HIDE DEF all, below, steps
  <2>3. \A i \in DOMAIN steps : Reached(steps[i], below) = all(i)
    BY <2>2
  <2> DEFINE reach(i) == Reached(steps[i], below)
  <2>4. \A i \in DOMAIN steps : reach(i) = all(i)
    BY <2>3
  <2> HIDE DEF reach
  <2>5. UNION {{i} \X reach(i) : i \in DOMAIN steps} = UNION {{i} \X all(i) : i \in DOMAIN steps}
    BY <2>4
  <2> QED BY <2>1, <2>5 DEF reach
<1> QED BY <1>8, <1>9 DEF Bad, Offers, Named, x

(* What is routed is what is stored, for any table that edits leave        *)
(* behind, any catalog and caps, and any requests that share the cursor:   *)
(* expansion refuses exactly the combos with a bad chain and otherwise     *)
(* yields what the combos below name, and no strategy drops, repeats or    *)
(* misplaces a candidate (Resolve, resolver.go:84-180).                    *)
THEOREM PlansStayFaithful == RoutingSpec => []PlansFaithful
<1>1. RoutingIInv => PlansKeepCandidates
  BY DEF RoutingIInv, Asked, Served, PlansKeepCandidates
<1>2. RoutingIInv /\ TableIInv => PlansFaithful
  BY <1>1, ExpandsAll DEF PlansFaithful
<1> QED BY <1>2, RoutingInvariant, TableInvariant, PTL
=============================================================================
