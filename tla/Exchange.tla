----------------------------- MODULE Exchange -----------------------------
(***************************************************************************)
(* One HTTP exchange: the gateway's handler (src/internal/gateway) or, for *)
(* other routes, the observer (src/internal/pipeline/observer.go), around  *)
(* the gate chain (pipeline/chain.go), the Router and the Dispatcher, and  *)
(* the accounting of a streamed answer (dispatcher/stream.go) over the     *)
(* decoder of EventStream.                                                 *)
(*                                                                         *)
(* The Router and the Dispatcher are choices here: Dispatcher models their *)
(* attempts.  Exchanges share only what other modules model (circuits,     *)
(* quota, the memory queue), so one exchange is enough.                    *)
(***************************************************************************)
EXTENDS EventStream

CONSTANTS
    PreGates,       \* the number of pre-request gates
    WantsBody,      \* whether a gate consumes the request body
    ChunkDecisions  \* what the chain may decide about a chunk

ASSUME GatesAssumption ==
    /\ PreGates \in Nat
    /\ WantsBody \in BOOLEAN
    /\ ChunkDecisions \subseteq {"pass", "replace", "drop", "fail"}
    /\ None \notin 0 .. PreGates

VARIABLES
    at,         \* where the handler is
    route,      \* what was asked for
    gate,       \* the next pre-request gate
    working,    \* GateInput.Body: the client's (0), or gate i's
    modified,   \* whether a gate has modified the request
    body,       \* WireRequest.Body: what goes upstream
    edited,     \* history: the last body that a gate has published
    runs,       \* history: how often PreRequest and PostResponse have run
    opened,     \* the Dispatcher has returned a stream
    frames,     \* what the handler has written
    tokens,     \* wrappingStream.tokens
    spent,      \* history: the usage in the last event taken that had one
    relayedEnd, \* doneRelayed
    ledger      \* usage records: [aborted, tokens]

request == <<route, gate, working, modified, body, edited>>
vars == <<at, request, runs, opened, frames, tokens, spent, relayedEnd, ledger,
          stream>>

Bodies == 0 .. PreGates
Frames == {"status", "plain", "synthetic", "refusal", "failure", "chunk",
           "sentinel", "done", "error"}

TypeOK ==
    /\ StreamTypeOK
    /\ at \in {"idle", "gates", "serve", "resolve", "call", "recv", "got",
               "close", "over"}
    /\ route \in {None, "chat", "models", "manage"}
    /\ gate \in 1 .. PreGates + 1
    /\ working \in Bodies \cup {None}
    /\ {body, edited} \subseteq Bodies
    /\ {modified, opened, relayedEnd} \subseteq BOOLEAN
    /\ runs \in [pre : Nat, post : Nat]
    /\ frames \in Seq(Frames)
    /\ {tokens, spent} \subseteq Nat
    /\ ledger \in Seq([aborted : BOOLEAN, tokens : Nat])

Init ==
    /\ StreamInit
    /\ at = "idle" /\ route = None
    /\ gate = 1 /\ working = None /\ modified = FALSE
    /\ body = 0 /\ edited = 0
    /\ runs = [pre |-> 0, post |-> 0]
    /\ opened = FALSE
    /\ frames = <<>>
    /\ tokens = 0 /\ spent = 0
    /\ relayedEnd = FALSE
    /\ ledger = <<>>

accounting == <<opened, tokens, spent, relayedEnd, ledger>>

(* A response that is written at once, by a handler that then returns.     *)
Answer(f) ==
    /\ at' = "over"
    /\ frames' = Append(frames, f)

(* Writes of a stream.                                                     *)
Write(fs) == frames' = frames \o fs

ranPre  == runs' = [runs EXCEPT !.pre = @ + 1]
ranPost == runs' = [runs EXCEPT !.post = @ + 1]

-----------------------------------------------------------------------------
(* Arrival.  The observer passes everything outside /v1/ straight through, *)
(* and leaves chat completions to the gateway, which runs the chain itself.*)

Malformed ==
    /\ at = "idle"
    /\ route' = "chat"
    /\ Answer("refusal")
    /\ UNCHANGED <<gate, working, modified, body, edited, runs, accounting,
                   stream>>

(* Mutant: the observer does not skip the gateway's route.                 *)
Chat_Observed ==
    /\ at = "idle"
    /\ at' = "gates"
    /\ route' = "chat"
    /\ working' = IF WantsBody THEN 0 ELSE None
    /\ runs' = [runs EXCEPT !.pre = @ + 2]
    /\ UNCHANGED <<gate, modified, body, edited, frames, accounting,
                   stream>>

Chat ==
    /\ at = "idle"
    /\ at' = "gates"
    /\ route' = "chat"
    /\ working' = IF WantsBody THEN 0 ELSE None
    /\ ranPre
    /\ UNCHANGED <<gate, modified, body, edited, frames, accounting,
                   stream>>

Observed ==
    /\ at = "idle"
    /\ at' = "gates"
    /\ route' = "models"
    /\ ranPre
    /\ UNCHANGED <<gate, working, modified, body, edited, frames,
                   accounting, stream>>

PassedThrough ==
    /\ at = "idle"
    /\ at' = "serve"
    /\ route' = "manage"
    /\ UNCHANGED <<gate, working, modified, body, edited, runs, frames,
                   accounting, stream>>

-----------------------------------------------------------------------------
(* Chain.PreRequest, gate by gate.  A gate of either failure policy may do *)
(* each of these: one that is FailOpen still ends the exchange when it     *)
(* blocks without a response or returns an unknown decision.               *)

AtGate == at = "gates" /\ gate <= PreGates

(* Continue, or the error of a FailOpen gate.                              *)
GateContinues ==
    /\ AtGate
    /\ gate' = gate + 1
    /\ UNCHANGED <<at, route, working, modified, body, edited, runs, frames,
                   accounting, stream>>

(* Mutant: the chain forgets that the request was modified.                *)
GateModifies_Lost ==
    /\ AtGate
    /\ \/ working' = gate /\ edited' = gate
       \/ UNCHANGED <<working, edited>>
    /\ gate' = gate + 1
    /\ UNCHANGED <<at, route, modified, body, runs, frames, accounting,
                   stream>>

(* Modify: a new body, or headers only.                                    *)
GateModifies ==
    /\ AtGate
    /\ \/ working' = gate /\ edited' = gate
       \/ UNCHANGED <<working, edited>>
    /\ modified' = TRUE
    /\ gate' = gate + 1
    /\ UNCHANGED <<at, route, body, runs, frames, accounting, stream>>

(* Block with a synthetic response.                                        *)
GateAnswers ==
    /\ AtGate
    /\ Answer("synthetic")
    /\ UNCHANGED <<request, runs, accounting, stream>>

(* The error of a FailClosed gate, a breach of the contract, or a Reroute, *)
(* which this build refuses.                                               *)
GateRefuses ==
    /\ AtGate
    /\ Answer("refusal")
    /\ UNCHANGED <<request, runs, accounting, stream>>

(* The chain is through.  The gateway applies a modified body; the         *)
(* observer drops it.                                                      *)
ChainPassed ==
    /\ at = "gates"
    /\ gate > PreGates
    /\ at' = IF route = "chat" THEN "resolve" ELSE "serve"
    /\ body' = IF route = "chat" /\ modified /\ working # None
               THEN working ELSE body
    /\ UNCHANGED <<route, gate, working, modified, edited, runs, frames,
                   accounting, stream>>

(* Another handler answers; the observer then runs PostResponse.           *)
Serve ==
    /\ at = "serve"
    /\ Answer("plain")
    /\ IF route = "models" THEN ranPost ELSE UNCHANGED runs
    /\ UNCHANGED <<request, accounting, stream>>

-----------------------------------------------------------------------------
(* Routing and dispatch.                                                   *)

Unresolved ==
    /\ at = "resolve"
    /\ Answer("refusal")
    /\ UNCHANGED <<request, runs, accounting, stream>>

Resolve ==
    /\ at = "resolve"
    /\ at' = "call"
    /\ UNCHANGED <<request, runs, frames, accounting, stream>>

CallFails ==
    /\ at = "call"
    /\ Answer("failure")
    /\ ranPost
    /\ UNCHANGED <<request, accounting, stream>>

Do ==
    /\ at = "call"
    /\ Answer("plain")
    /\ ranPost
    /\ \E n \in 0 .. 1 : ledger' = <<[aborted |-> FALSE, tokens |-> n]>>
    /\ UNCHANGED <<request, opened, tokens, spent, relayedEnd, stream>>

DoStream ==
    /\ at = "call"
    /\ at' = "recv"
    /\ opened' = TRUE
    /\ Write(<<"status">>)
    /\ UNCHANGED <<request, runs, tokens, spent, relayedEnd, ledger, stream>>

-----------------------------------------------------------------------------
(* The relay loop of Handler.stream over wrappingStream.                   *)

CallRecv ==
    /\ at = "recv"
    /\ at' = "got"
    /\ EnterRecv
    /\ UNCHANGED <<request, runs, opened, frames, tokens, spent,
                   relayedEnd, ledger>>

(* The decoder at work; a usage block is worth its place in the stream.    *)
Decode ==
    /\ at = "got"
    /\ Recv
    /\ spent' = IF wire' # wire /\ got' = "usage" THEN sent - Len(wire')
                ELSE spent
    /\ UNCHANGED <<at, request, runs, opened, frames, tokens,
                   relayedEnd, ledger>>

usage(clean) == [aborted |-> ~clean, tokens |-> tokens]

(* Mutant: finalise is not guarded by the Once.                            *)
finalise_Twice(clean) == ledger' = Append(ledger, usage(clean))

finalise(clean) ==
    ledger' = IF ledger = <<>> THEN <<usage(clean)>> ELSE ledger

(* Recv returned an error: the usage is recorded, and the client is told.  *)
StreamEnds ==
    /\ at = "got" /\ recv = "ret"
    /\ terminal # None
    /\ finalise(got = "EOF")
    /\ IF got # "EOF"     THEN Write(<<"error">>)
       ELSE IF relayedEnd THEN Write(<<>>)
       ELSE Write(<<"done">>)
    /\ at' = "close"
    /\ recv' = "out"
    /\ UNCHANGED <<request, runs, opened, tokens, spent, relayedEnd, guarded,
                   dialect, peer, gone, got, terminal, closed, idleFired,
                   released, watch>>

(* Mutant: a sentinel in a chunk is not noticed.                           *)
seenEnd_Never(frame) == relayedEnd

seenEnd(frame) == relayedEnd \/ frame = "sentinel"

(* What the client gets of a chunk: a gate may replace it by anything.     *)
Relayed(d) ==
    IF d = "replace" THEN {"chunk", "sentinel"}
    ELSE IF got = "named" THEN {"sentinel"}
    ELSE {"chunk"}

(* Recv returned a chunk: it is counted, then the chunk gates decide.      *)
ChunkArrives ==
    /\ at = "got" /\ recv = "ret"
    /\ terminal = None
    /\ tokens' = IF got = "usage" THEN sent - Len(wire) ELSE tokens
    /\ \E d \in ChunkDecisions :
         \/ /\ d = "fail"
            /\ Write(<<"error">>)
            /\ at' = "close"
            /\ UNCHANGED relayedEnd
         \/ /\ d = "drop"
            /\ at' = "recv"
            /\ UNCHANGED <<frames, relayedEnd>>
         \/ /\ d \in {"pass", "replace"}
            /\ \E frame \in Relayed(d) :
                 /\ Write(<<frame>>)
                 /\ relayedEnd' = seenEnd(frame)
            /\ at' = "recv"
    /\ recv' = "out"
    /\ UNCHANGED <<request, runs, opened, spent, ledger, guarded, dialect,
                   peer, gone, got, terminal, closed, idleFired, released,
                   watch>>

(* The deferred Close of the stream, then PostResponse.                    *)
Finish ==
    /\ at = "close"
    /\ Close
    /\ finalise(FALSE)
    /\ ranPost
    /\ at' = "over"
    /\ UNCHANGED <<request, opened, frames, tokens, spent, relayedEnd>>

-----------------------------------------------------------------------------
(* The environment.                                                        *)

Upstream ==
    /\ opened /\ at # "over"
    /\ \/ \E k \in Kinds : SendEvent(k)
       \/ \E e \in {"eof", "died", "lost"} : EndAnswer(e)
    /\ UNCHANGED <<at, request, runs, frames, accounting>>

IdleWatch ==
    /\ Watcher
    /\ UNCHANGED <<at, request, runs, frames, accounting>>

(* The client goes away; its context reaches the upstream call.            *)
Leave ==
    /\ at \notin {"idle", "over"}
    /\ ~gone
    /\ gone' = TRUE
    /\ UNCHANGED <<at, request, runs, frames, accounting, guarded,
                   dialect, peer, decoder>>

Arrive == Malformed \/ Chat \/ Observed \/ PassedThrough

Handle ==
    \/ GateContinues \/ GateModifies \/ GateAnswers \/ GateRefuses
    \/ ChainPassed \/ Serve
    \/ Unresolved \/ Resolve \/ CallFails \/ Do \/ DoStream
    \/ CallRecv \/ Decode \/ StreamEnds \/ ChunkArrives \/ Finish

Next == Arrive \/ Handle \/ IdleWatch \/ Upstream \/ Leave

Spec == Init /\ [][Next]_vars

(***************************************************************************)
(* The handler's goroutine and the watcher's run, and the idle timer runs  *)
(* out when time passes.  Nothing is assumed of the upstream: the client   *)
(* of a provider has no Timeout (egress/policy.go), so a buffered body or  *)
(* an error's body that stalls holds the call until the client leaves,     *)
(* when the context ends the read.  A client that stays is assumed to take *)
(* what is written to it: the server has no WriteTimeout (app.go:313).     *)
(***************************************************************************)
Stalled == at = "call" /\ ~gone

FairSpec == Spec /\ WF_vars(Handle /\ ~Stalled) /\ WF_vars(IdleWatch)

-----------------------------------------------------------------------------
Over == at = "over"

(* However a stream ends (its end, an error, a timeout, a client that      *)
(* leaves, a gate that fails), its usage is recorded once, as aborted      *)
(* unless the upstream's end was reached, and with the last usage that was *)
(* taken off the wire (ADR-0011 par. 5; finalise, dispatcher/stream.go).   *)
AccountedOnce ==
    Over /\ opened =>
        ledger = <<[aborted |-> terminal # "EOF", tokens |-> spent]>>

Told(f) == {i \in DOMAIN frames : frames[i] = f}

(* The gateway writes one terminal of its own (the sentinel or an error),  *)
(* as its last frame, and none only when the stream ends cleanly after a   *)
(* sentinel was relayed as a chunk (gateway.go:271-284).  It never sends a *)
(* second sentinel, but an error, like further chunks, does follow a       *)
(* relayed one: the openai decoder takes a [DONE] for the end only in an   *)
(* event without a name (stream.go:136), so the client then sees two       *)
(* terminals.                                                              *)
OneTerminal ==
    LET own == Told("done") \cup Told("error")
    IN  /\ own \subseteq {Len(frames)}
        /\ Told("done") # {} => Told("sentinel") = {}
        /\ Over /\ opened =>
             ((own = {}) <=> (terminal = "EOF" /\ Told("sentinel") # {}))

(* The client is told an error exactly when the operator's ledger has the  *)
(* usage as aborted, a sentinel relayed before it or not.                  *)
ToldAlike ==
    Over /\ opened => (Told("error") # {}) = ledger[1].aborted

(* The terminal outcome is the cause: a timeout is the watcher's, which    *)
(* fired, or the connection's; the client is blamed only if it left; and   *)
(* the peer is called unavailable only if it died or sent a line too long  *)
(* for the scanner, a peer that is alive (readError, stream.go:262-277;    *)
(* executor.go:46-48, 370-392).                                            *)
BlamesTheCause ==
    /\ terminal = "timeout"     => idleFired \/ upstream = "lost"
    /\ terminal = "cancelled"   => gone
    /\ terminal = "unavailable" => upstream = "died" \/ Overlong
    /\ terminal = "badFrame"    => dialect = "cloudcode"

(* The watcher does not outlive the read it guards, and the body of every  *)
(* stream is released (armIdleWatch, closeBody).                           *)
NothingLeaks ==
    /\ recv \in {"out", "top", "ret"} => watch = "off"
    /\ Over /\ opened => released

(* The exchange reached the Dispatcher, or the observed handler.           *)
Dispatched == opened \/ ledger # <<>> \/ Told("failure") # {}
Observes   == route = "models" /\ Told("plain") # {}

(* An exchange passes the chain at most once, whichever of the observer    *)
(* and the gateway drives it, and never for management.  PostResponse runs *)
(* once if the exchange reached the Dispatcher, which may have failed it,  *)
(* or the observed handler, and not at all if it was refused or answered   *)
(* before (app.go:1519-1530, observer.go:65-78, gateway.go:230-258).       *)
ChainOnce ==
    /\ runs.pre <= 1
    /\ route = "manage" => runs.pre = 0
    /\ runs.post <= 1
    /\ Over => ((runs.post = 1) <=> (Dispatched \/ Observes))

(* What goes upstream is what the last modifying gate published (F4: the   *)
(* chain once lost it, chain.go:177-180).                                  *)
EditsReachUpstream == at \in {"resolve", "call", "recv"} => body = edited

(* An exchange ends if its client leaves; one that stays waits for nothing *)
(* but the call of an upstream and the events of an open stream; and these *)
(* end with an idle timeout whatever the upstream does, and without one    *)
(* once the upstream ends.  (An upstream that sends events for ever is     *)
(* left out by MaxEvents: each event arms the watcher anew.)               *)
Ended ==
    /\ at # "idle" ~> Over \/ Stalled \/ opened
    /\ (at # "idle" /\ gone) ~> Over
    /\ (opened /\ (guarded \/ upstream # "open")) ~> Over

(* Together: the client is told the end of its exchange once, and truly    *)
(* (gateway.go:220-300).                                                   *)
EndToldTruly == OneTerminal /\ ToldAlike
=============================================================================
