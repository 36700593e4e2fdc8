---------------------------- MODULE DeviceGrant -----------------------------
(***************************************************************************)
(* The device authorization grant (auth/oauth/device_code.go): the code is *)
(* shown, and the token endpoint polled until the user has decided or the  *)
(* grant expires. A caller of the AuthFlow contract drives it: `heimdall   *)
(* login` refuses such a flow, no provider of this version has one.        *)
(*                                                                         *)
(* Time is counted in poll increments; a sleeper may wake late.            *)
(***************************************************************************)
EXTENDS OAuth

CONSTANTS
    Intervals,          \* what a provider may ask for; 0: it does not say
    Lifetimes,          \* likewise, of the grant
    DefaultInterval, DefaultTTL,
    SlowDown, MaxSlowDown,
    MaxTime             \* bound: the end of time

ASSUME TimesAssumption ==
    /\ Intervals \subseteq Nat /\ Lifetimes \subseteq Nat
    /\ {DefaultInterval, DefaultTTL, SlowDown, MaxSlowDown} \subseteq Nat \ {0}
    /\ MaxTime \in Nat

VARIABLES
    now,        \* the clock
    device      \* the grant under way

deviceVars == <<now, device>>

AtMost(a, b) == IF a < b THEN a ELSE b

(* Of these last (when Begin or a poll was answered), asked (the interval  *)
(* with every slow_down added) and slept (the coming poll has slept) are   *)
(* history.                                                                *)
NoGrant == [pc |-> "none", interval |-> 0, expires |-> 0, wake |-> 0, last |-> 0,
            asked |-> 0, slept |-> FALSE, outcome |-> None]

DeviceTypeOK ==
    /\ now \in 0..MaxTime
    /\ device.pc \in {"none", "top", "resting", "asleep", "polling", "ended"}
    /\ {device.wake, device.expires, device.last, device.interval, device.asked} \subseteq Nat
    /\ device.slept \in BOOLEAN

DeviceInit == now = 0 /\ device = NoGrant

End(code) == device' = [device EXCEPT !.pc = "ended", !.outcome = code]

(* Begin: the provider's interval and lifetime, or the defaults; then the  *)
(* caller enters Poll.                                                     *)
BeginDevice(interval, life) ==
    /\ device.pc = "none"
    /\ LET every == IF interval = 0 THEN DefaultInterval ELSE interval
           ttl   == IF life = 0 THEN DefaultTTL ELSE life
       IN  /\ now + ttl <= MaxTime
           /\ device' = [NoGrant EXCEPT !.pc = "top", !.interval = every, !.asked = every,
                                        !.expires = now + ttl, !.last = now]
    /\ UNCHANGED now

(* Begin fails: no endpoint, or an answer without codes.                   *)
BeginDeviceFails(code) ==
    /\ device.pc = "none"
    /\ End(code)
    /\ UNCHANGED now

(* The top of Poll's loop reads the clock: an expired grant is given up.   *)
Round ==
    /\ device.pc = "top"
    /\ IF now >= device.expires THEN End("expired")
       ELSE device' = [device EXCEPT !.pc = "resting", !.slept = FALSE]
    /\ UNCHANGED now

(* sleep reads it again: it waits one interval, but not past the end of    *)
(* the grant; if the end has come since, not at all.                       *)
Rest ==
    /\ device.pc = "resting"
    /\ device' = IF now >= device.expires THEN [device EXCEPT !.pc = "polling"]
                 ELSE [device EXCEPT !.pc = "asleep", !.slept = TRUE,
                         !.wake = AtMost(now + device.interval, device.expires)]
    /\ UNCHANGED now

(* The timer has run: the grant may have ended meanwhile.                  *)
Wake_Unchecked ==       \* Mutant: polls once more after the last, short sleep.
    /\ device.pc = "asleep" /\ now >= device.wake
    /\ device' = [device EXCEPT !.pc = "polling"]
    /\ UNCHANGED now
Wake ==
    /\ device.pc = "asleep" /\ now >= device.wake
    /\ IF now >= device.expires THEN End("expired")
       ELSE device' = [device EXCEPT !.pc = "polling"]
    /\ UNCHANGED now

(* One poll. Pending goes round; slow_down adds to the interval, up to a   *)
(* limit; anything else ends the grant.                                    *)
Polled(answer) ==
    LET res  == resultFromToken(postForm(TRUE, answer), None)
        slow == ~res.ok /\ res.code = "slow_down"
    IN  /\ device.pc = "polling"
        /\ IF res.ok THEN End("granted")
           ELSE IF res.code = "pending" \/ slow
           THEN device' = [device EXCEPT !.pc = "top", !.last = now,
                    !.asked = IF slow THEN @ + SlowDown ELSE @,
                    !.interval = IF slow THEN AtMost(@ + SlowDown, MaxSlowDown) ELSE @]
           ELSE End(res.code)
        /\ UNCHANGED now

Tick == now < MaxTime /\ now' = now + 1 /\ UNCHANGED device

(* The caller's context is cancelled.                                      *)
CancelDevice ==
    /\ device.pc = "asleep"
    /\ End("refresh_failed")
    /\ UNCHANGED now

Answers == {Refuses("authorization_pending"), Refuses("slow_down"), Refuses("access_denied"),
            Refuses("expired_token"), Sent("lost"), Grants("t", None), Grants(None, None)}

DeviceFlow ==
    \/ \E i \in Intervals, t \in Lifetimes : BeginDevice(i, t)
    \/ BeginDeviceFails("flow_insecure")
    \/ Round \/ Rest \/ Wake \/ CancelDevice
    \/ \E a \in Answers : Polled(a)

-----------------------------------------------------------------------------
(* A poll that has slept comes no sooner than the provider has asked for,  *)
(* each slow_down counted, as far as the limit of the back-off: the short  *)
(* last sleep is followed by none.  One that has not slept follows on the  *)
(* heels of the last only because the grant ended between the two readings *)
(* of the clock (device_code.go:203, 312-318), and it is the last one: no  *)
(* round is entered after an answer that came at the end or later.         *)
PollsUnhurried ==
    /\ device.pc = "polling" =>
         \/ now - device.last >= AtMost(device.asked, MaxSlowDown)
         \/ ~device.slept /\ now >= device.expires
    /\ device.pc \in {"resting", "asleep", "polling"} => device.last < device.expires
=============================================================================
