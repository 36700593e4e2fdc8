------------------------------- MODULE Circuit -------------------------------
(***************************************************************************)
(* One circuit of the breaker (src/internal/breaker/breaker.go, keyState)  *)
(* and the pure state changes that the methods of Breaker apply to it      *)
(* under the key's own mutex.  Breaker and Dispatcher are built from these *)
(* operators.                                                              *)
(*                                                                         *)
(* Time is relative: "wait" is openUntil minus the clock, never below 0,   *)
(* so !openUntil.After(now) is wait = 0.  The code reads openUntil only    *)
(* while the status is Open, which makes the two representations agree.    *)
(* terminalReason is left out: nothing but the display reads it.           *)
(***************************************************************************)
EXTENDS Integers

CONSTANTS
    CredentialThreshold,    \* Config.CredentialThreshold
    Base,                   \* Config.Base, in ticks
    MaxCooldown,            \* Config.Max, in ticks
    FailureBound            \* the failure counter saturates here (see below)

(***************************************************************************)
(* WithConfig replaces every non-positive setting by its default.  The     *)
(* counter is unbounded in the code, where only two of its features are    *)
(* ever read: whether it reached the threshold, and the backoff, which is  *)
(* constant once it reached Config.Max.  Saturation at FailureBound keeps  *)
(* the first; the MC modules choose it large enough for the second.        *)
(***************************************************************************)
ASSUME ConfigAssumption ==
    /\ CredentialThreshold \in Nat \ {0}
    /\ Base \in Nat \ {0}
    /\ MaxCooldown \in Nat \ {0}
    /\ FailureBound \in Nat
    /\ FailureBound >= CredentialThreshold

Statuses == {"Closed", "Open", "HalfOpen", "Terminal"}

Scopes == {"Request", "Credential", "Provider"}

Circuits == [status   : Statuses,
             failures : 0 .. FailureBound,
             wait     : Nat,
             probe    : BOOLEAN]

(* The typed result of one attempt.  "terminal" is TerminalReason # "".    *)
Outcomes == [success    : BOOLEAN,
             scope      : Scopes,
             retryable  : BOOLEAN,
             retryAfter : Nat,
             terminal   : BOOLEAN]

Success == [success |-> TRUE, scope |-> "Request", retryable |-> FALSE,
            retryAfter |-> 0, terminal |-> FALSE]

(* The zero keyState: what keyOf creates, a success restores and Clear     *)
(* writes.                                                                 *)
Fresh == [status |-> "Closed", failures |-> 0, wait |-> 0, probe |-> FALSE]

(***************************************************************************)
(* Every method first applies the lazy Open -> HalfOpen transition.        *)
(***************************************************************************)
transitionLocked(ks) ==
    IF ks.status = "Open" /\ ks.wait = 0
    THEN [ks EXCEPT !.status = "HalfOpen", !.probe = FALSE]
    ELSE ks

(* Whether a circuit lets one more attempt through, and what it becomes    *)
(* when it does: in HalfOpen the caller takes the single probe slot.       *)
admits(ks) == \/ ks.status = "Closed"
              \/ ks.status = "HalfOpen" /\ ~ks.probe

reserveLocked(ks) ==
    IF ks.status = "HalfOpen" THEN [ks EXCEPT !.probe = TRUE] ELSE ks

releaseProbe(ks) ==
    IF ks.status = "HalfOpen" THEN [ks EXCEPT !.probe = FALSE] ELSE ks

(***************************************************************************)
(* RecordKey.  The cooldown of a retryable failure is its RetryAfter,      *)
(* exactly, or the exponential backoff with jitter in [0.5x, 1.0x].        *)
(***************************************************************************)
exponential(failures) ==
    LET d == IF Base * 2 ^ (failures - 1) > MaxCooldown
             THEN MaxCooldown
             ELSE Base * 2 ^ (failures - 1)
    IN  {w \in 1 .. MaxCooldown : w <= d /\ d <= 2 * w}

cooldowns(o, failures) ==
    IF o.retryAfter > 0 THEN {o.retryAfter} ELSE exponential(failures)

(* A failure the key ignores: any failure scoped to the request, and a     *)
(* deterministic (non-retryable) provider failure.                         *)
ignored(o) == /\ ~o.success
              /\ \/ o.scope = "Request"
                 \/ o.scope = "Provider" /\ ~o.retryable /\ ~o.terminal

failed(ks) ==
    [ks EXCEPT !.failures = IF @ < FailureBound THEN @ + 1 ELSE @]

promoted(ks) ==
    [ks EXCEPT !.status = "Terminal", !.wait = 0, !.probe = FALSE]

strike(ks) ==
    IF failed(ks).failures >= CredentialThreshold
    THEN promoted(failed(ks))
    ELSE failed(ks)

(* Mutants of the next definition: a deadline recomputed by every failure, *)
(* a reopening that inherits the probe slot.                               *)
reopened_Extends(ks, o) ==
    {[failed(ks) EXCEPT !.status = "Open", !.wait = w, !.probe = FALSE] :
        w \in cooldowns(o, failed(ks).failures)}

reopened_KeepsProbe(ks, o) ==
    {[failed(ks) EXCEPT !.status = "Open", !.wait = w] :
        w \in IF ks.status = "Open" THEN {ks.wait}
              ELSE cooldowns(o, failed(ks).failures)}

(* An open circuit keeps its deadline: concurrent failures do not stack.   *)
reopened(ks, o) ==
    {[failed(ks) EXCEPT !.status = "Open", !.wait = w, !.probe = FALSE] :
        w \in IF ks.status = "Open" THEN {ks.wait}
              ELSE cooldowns(o, failed(ks).failures)}

(* Mutant: a late success revives a banned credential.                     *)
settled_Revives(ks, o) ==
    IF ignored(o)       THEN {ks}
    ELSE IF o.success   THEN {Fresh}
    ELSE IF o.terminal  THEN {promoted(ks)}
    ELSE IF ~o.retryable THEN {strike(ks)}
    ELSE reopened(ks, o)

(* The circuits that ks (already transitioned) may become.                 *)
settled(ks, o) ==
    IF ks.status = "Terminal" \/ ignored(o) THEN {ks}
    ELSE IF o.success                       THEN {Fresh}
    ELSE IF o.terminal                      THEN {promoted(ks)}
    ELSE IF ~o.retryable                    THEN {strike(ks)}
    ELSE reopened(ks, o)

RecordKey(ks, o) == settled(transitionLocked(ks), o)

(* The clock moved by one tick.                                            *)
elapsed(ks) == [ks EXCEPT !.wait = IF @ > 0 THEN @ - 1 ELSE 0]
=============================================================================
