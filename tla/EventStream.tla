---------------------------- MODULE EventStream ----------------------------
(***************************************************************************)
(* The decoder of one upstream event stream: sseStream of the two executor *)
(* families (src/internal/executors/stream.go and executors/cloudcode).    *)
(* The consumer's goroutine is in Recv, which blocks in the scanner with   *)
(* no lock held; the idle watcher is a goroutine that lives for one event  *)
(* read and closes the body when the read takes too long.                  *)
(*                                                                         *)
(* An event is its kind.  Lines, fields and payloads are left out: what a  *)
(* line-by-line read may meet between two lines it may also meet between   *)
(* two events.                                                             *)
(***************************************************************************)
EXTENDS Naturals, Sequences

CONSTANTS
    Kinds,      \* the events an upstream sends
    MaxEvents,  \* bound on their number
    Guards,     \* whether the provider has an idle timeout
    Dialects,   \* the executor families
    None

(* text    a chunk                                                         *)
(* usage   a chunk with a usage block                                      *)
(* named   the sentinel [DONE] as the data of a named event                *)
(* garbled a frame that cannot be translated                               *)
(* comment a keep-alive                                                    *)
(* done    the sentinel [DONE]                                             *)
(* huge    an event with a line that the scanner's buffer cannot hold      *)
ASSUME KindsAssumption ==
    Kinds \subseteq {"text", "usage", "named", "garbled", "comment", "done",
                     "huge"}
ASSUME BoundAssumption == MaxEvents \in Nat
ASSUME SettingsAssumption ==
    Guards \subseteq BOOLEAN /\ Dialects \subseteq {"openai", "cloudcode"}

(* What Recv returns when it returns an error; "unavailable" is any other  *)
(* failure of the read.  "aborted" is the error of reading a body that we closed.  *)
Errors == {"timeout", "cancelled", "unavailable", "badFrame"}
Ends   == Errors \cup {"EOF"}

ASSUME NoneAssumption == None \notin Kinds \cup Ends \cup {"aborted"}

VARIABLES
    guarded,    \* idleTimeout > 0
    dialect,    \* the family of the executor
    wire,       \* events sent and not yet scanned
    sent,       \* how many were sent
    upstream,   \* whether the upstream goes on
    gone,       \* the stream's context is cancelled
    recv,       \* where the consumer's goroutine is in Recv
    got,        \* what the current Recv has in hand
    terminal,   \* the recorded terminal outcome
    closed,     \* closeBody has run
    idleFired,  \* the watcher has run out of patience
    released,   \* body.Close has returned
    watch       \* the watcher

peer    == <<wire, sent, upstream>>
decoder == <<recv, got, terminal, closed, idleFired, released, watch>>
stream  == <<guarded, dialect, peer, gone, decoder>>

StreamTypeOK ==
    /\ guarded \in BOOLEAN /\ dialect \in {"openai", "cloudcode"}
    /\ wire \in Seq(Kinds) /\ sent \in 0 .. MaxEvents
    /\ upstream \in {"open", "eof", "died", "lost"}
    /\ gone \in BOOLEAN
    /\ recv \in {"out", "top", "scan", "classify", "stop", "join", "ret"}
    /\ got \in Kinds \cup Ends \cup {"aborted", None}
    /\ terminal \in Ends \cup {None}
    /\ {closed, idleFired, released} \subseteq BOOLEAN
    /\ watch \in {"off", "armed", "fired", "closing", "stopped"}

StreamInit ==
    /\ guarded \in Guards /\ dialect \in Dialects
    /\ wire = <<>> /\ sent = 0 /\ upstream = "open"
    /\ gone = FALSE
    /\ recv = "out" /\ got = None /\ terminal = None
    /\ closed = FALSE /\ idleFired = FALSE /\ released = FALSE
    /\ watch = "off"

-----------------------------------------------------------------------------
(* record: the first terminal outcome stays.                               *)
recorded(e) == IF terminal = None THEN e ELSE terminal

(* The consumer calls Recv.                                                *)
EnterRecv ==
    /\ recv = "out"
    /\ recv' = IF terminal = None THEN "top" ELSE "ret"
    /\ got' = terminal
    /\ UNCHANGED <<guarded, dialect, peer, gone, terminal, closed, idleFired,
                   released, watch>>

(* The head of Recv's loop: give up if the context is done, or arm the     *)
(* watcher and go to read.                                                 *)
BeginRead ==
    /\ recv = "top"
    /\ \/ /\ gone
          /\ terminal' = recorded("cancelled")
          /\ got' = terminal'
          /\ recv' = "ret"
          /\ UNCHANGED watch
       \/ /\ ~gone
          /\ recv' = "scan"
          /\ watch' = IF guarded THEN "armed" ELSE watch
          /\ UNCHANGED <<got, terminal>>
    /\ UNCHANGED <<guarded, dialect, peer, gone, closed, idleFired, released>>

(* The next event has a line of more than maxSSEEventBytes.                *)
Overlong == wire # <<>> /\ Head(wire) = "huge"

(* The scanner completes an event; even with the body closed, one it had   *)
(* buffered.  The CloudCode decoder reads on past a comment.               *)
TakeEvent ==
    /\ recv = "scan"
    /\ wire # <<>> /\ ~Overlong
    /\ wire' = Tail(wire)
    /\ got' = Head(wire)
    /\ recv' = IF dialect = "cloudcode" /\ Head(wire) = "comment"
               THEN "scan" ELSE "stop"
    /\ UNCHANGED <<guarded, dialect, sent, upstream, gone, terminal, closed,
                   idleFired, released, watch>>

ReachEnd ==
    /\ recv = "scan"
    /\ wire = <<>> /\ upstream = "eof"
    /\ got' = "EOF"
    /\ recv' = "stop"
    /\ UNCHANGED <<guarded, dialect, peer, gone, terminal, closed, idleFired,
                   released, watch>>

(* The context is found done between two lines of the event.               *)
GiveUpScan ==
    /\ recv = "scan"
    /\ gone
    /\ got' = "cancelled"
    /\ recv' = "stop"
    /\ UNCHANGED <<guarded, dialect, peer, gone, terminal, closed, idleFired,
                   released, watch>>

(* The scanner fails: the context is done, the body is closed, the peer    *)
(* died, the connection timed out, or a line is too long (ErrTooLong, for  *)
(* which transportError has no case of its own).                           *)
ScanFails ==
    /\ recv = "scan"
    /\ \/ gone /\ got' = "cancelled"
       \/ released /\ got' = "aborted"
       \/ upstream = "died" /\ got' = "unavailable"
       \/ upstream = "lost" /\ got' = "timeout"
       \/ Overlong /\ got' = "unavailable"
    /\ recv' = "classify"
    /\ UNCHANGED <<guarded, dialect, peer, gone, terminal, closed, idleFired,
                   released, watch>>

(* Mutant: our own close is blamed on the peer.                            *)
classified_Raw == IF got = "aborted" THEN "unavailable" ELSE got

(* readError, under the mutex: an abort of our own is not the peer's.      *)
classified ==
    IF idleFired THEN "timeout" ELSE IF closed THEN "cancelled" ELSE got

Classify ==
    /\ recv = "classify"
    /\ got' = classified
    /\ recv' = "stop"
    /\ UNCHANGED <<guarded, dialect, peer, gone, terminal, closed, idleFired,
                   released, watch>>

(* stop(): the timer is stopped, the watcher told, then waited for.        *)
StopWatch ==
    /\ recv = "stop"
    /\ recv' = "join"
    /\ UNCHANGED <<guarded, dialect, peer, gone, got, terminal, closed,
                   idleFired, released, watch>>

(* How an event ends the stream, if it does.                               *)
ending(e) ==
    IF e \in Ends THEN e
    ELSE IF e = "done" THEN "EOF"
    ELSE IF dialect = "cloudcode" /\ e = "named"   THEN "EOF"
    ELSE IF dialect = "cloudcode" /\ e = "garbled" THEN "badFrame"
    ELSE None

(* Back in Recv: a comment is skipped, the end or an error is recorded and *)
(* returned, a chunk is returned.                                          *)
Return ==
    /\ recv' = IF got = "comment" THEN "top" ELSE "ret"
    /\ terminal' = IF ending(got) = None THEN terminal ELSE recorded(ending(got))
    /\ got' = IF ending(got) = None THEN got ELSE terminal'

(* Mutant: stop() does not wait for the watcher.                           *)
Joined_NoWait ==
    /\ recv = "join"
    /\ Return
    /\ UNCHANGED <<guarded, dialect, peer, gone, closed, idleFired, released,
                   watch>>

Joined ==
    /\ recv = "join"
    /\ watch \in {"off", "stopped"}
    /\ watch' = "off"
    /\ Return
    /\ UNCHANGED <<guarded, dialect, peer, gone, closed, idleFired, released>>

-----------------------------------------------------------------------------
(* The watcher: the timer runs out during the read, closeBody marks and    *)
(* closes the body; or it is dismissed.                                    *)

(* Mutant: Recv holds the mutex while it scans.                            *)
Fire_Locked ==
    /\ watch = "armed"
    /\ recv \in {"classify", "stop"}
    /\ idleFired' = TRUE
    /\ watch' = "fired"
    /\ UNCHANGED <<guarded, dialect, peer, gone, recv, got, terminal, closed,
                   released>>

Fire ==
    /\ watch = "armed"
    /\ recv \in {"scan", "classify", "stop"}
    /\ idleFired' = TRUE
    /\ watch' = "fired"
    /\ UNCHANGED <<guarded, dialect, peer, gone, recv, got, terminal, closed,
                   released>>

MarkClosed ==
    /\ watch = "fired"
    /\ closed' = TRUE
    /\ watch' = "closing"
    /\ UNCHANGED <<guarded, dialect, peer, gone, recv, got, terminal,
                   idleFired, released>>

CloseBody ==
    /\ watch = "closing"
    /\ released' = TRUE
    /\ watch' = "stopped"
    /\ UNCHANGED <<guarded, dialect, peer, gone, recv, got, terminal, closed,
                   idleFired>>

Dismissed ==
    /\ watch = "armed"
    /\ recv = "join"
    /\ watch' = "stopped"
    /\ UNCHANGED <<guarded, dialect, peer, gone, recv, got, terminal, closed,
                   idleFired, released>>

(* The consumer calls Close, outside Recv.                                 *)
Close ==
    /\ closed' = TRUE
    /\ released' = TRUE
    /\ UNCHANGED <<guarded, dialect, peer, gone, recv, got, terminal,
                   idleFired, watch>>

-----------------------------------------------------------------------------
(* The upstream sends an event, ends its answer, breaks off, or is lost to *)
(* a timeout of the connection.                                            *)

SendEvent(k) ==
    /\ upstream = "open" /\ ~released
    /\ sent < MaxEvents
    /\ wire' = Append(wire, k)
    /\ sent' = sent + 1
    /\ UNCHANGED <<guarded, dialect, upstream, gone, decoder>>

EndAnswer(e) ==
    /\ upstream = "open"
    /\ upstream' = e
    /\ UNCHANGED <<guarded, dialect, wire, sent, gone, decoder>>

Recv == \/ BeginRead \/ TakeEvent \/ ReachEnd \/ GiveUpScan \/ ScanFails
        \/ Classify \/ StopWatch \/ Joined

Watcher == Fire \/ MarkClosed \/ CloseBody \/ Dismissed
=============================================================================
