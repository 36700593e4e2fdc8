---------------------------- MODULE GrantsProofs ----------------------------
(***************************************************************************)
(* Proofs about Grants, for any number of logins, ports and accounts, and  *)
(* any intervals and lifetimes of a device grant.                          *)
(***************************************************************************)
EXTENDS Grants, TLAPS

-----------------------------------------------------------------------------
(* The invariant of the logins: of each session, of the codes that the     *)
(* provider has issued, and of the vault.                                  *)
Before == {"called", "begun", "waiting", "exchanging"}
After  == {"profile", "discover", "persist"}

(* A session is the record that BeginLogin makes, whatever is in it.       *)
Formed(r) ==
    r = [pc |-> r.pc, offer |-> r.offer, port |-> r.port, codeCh |-> r.codeCh,
         errCh |-> r.errCh, code |-> r.code, grant |-> r.grant, profile |-> r.profile,
         onboard |-> r.onboard, result |-> r.result]

Typed(r) == /\ r.pc \in Before \cup After \cup {"ended"}
            /\ r.port \in Ports \cup {None}
            /\ r.onboard \in 0..OnboardAttempts
            /\ r.profile = [account |-> r.profile.account, project |-> r.profile.project]

(* A user has granted it to the session s as the account a.                *)
Granted(cs, s, a) ==
    /\ a \in Accounts
    /\ \E c \in cs : c.for = s /\ c.account = a /\ c.spent

(* A session has a grant once its exchange has succeeded, from then on;    *)
(* the profile is of the account that granted it or of nobody.             *)
HoldsGrant(cs, s, r) ==
    /\ r.grant # None => Granted(cs, s, r.grant)
    /\ r.pc \in Before => r.grant = None
    /\ r.pc \in After  => r.grant # None
    /\ r.pc \in {"discover", "persist"} => r.profile.account \in {None, r.grant}

(* How a session ends: with its row in the vault, or before it had a grant,*)
(* or with a grant that the vault or the end of the process lost.          *)
EndsHonest(rs, r) ==
    r.pc = "ended" =>
        \/ /\ r.result.ok /\ r.grant # None
           /\ r.result.id = r.profile.account /\ r.result.id \in DOMAIN rs
        \/ /\ ~r.result.ok
           /\ r.grant # None => r.result.code \in {"store_failed", "killed"}

Sane(cs, rs, s, r) == Formed(r) /\ Typed(r) /\ HoldsGrant(cs, s, r) /\ EndsHonest(rs, r)

(* A URL is answered once, and with one code.                              *)
OneCode(cs, answered) ==
    /\ \A c \in cs : /\ c = [for |-> c.for, account |-> c.account, spent |-> c.spent]
                     /\ c.for \in answered /\ c.account \in Accounts
    /\ \A c, d \in cs : c.for = d.for => c = d

(* A row is under the identity of its account, and an identity that is     *)
(* known is that of the account that granted the tokens.                   *)
Rowed(rs) ==
    \A i \in DOMAIN rs : /\ rs[i].profile.account = i
                         /\ i # None => rs[i].grant = i

LoginInv ==
    /\ session = [s \in Sessions |-> session[s]]
    /\ \A s \in Sessions : Sane(codes, rows, s, session[s])
    /\ OneCode(codes, consents)
    /\ Rowed(rows)
    /\ consents \subseteq Sessions
    /\ strays \in 0..MaxStrays

(* A device grant is the record that Begin makes.                          *)
GrantFormed(g) ==
    g = [pc |-> g.pc, interval |-> g.interval, expires |-> g.expires, wake |-> g.wake,
         last |-> g.last, asked |-> g.asked, slept |-> g.slept, outcome |-> g.outcome]

(* The invariant of the device grant: the interval has grown with what was *)
(* asked for, up to the limit; a sleeper is not due before an interval has *)
(* passed or the grant is over; a poll that has not slept comes after the  *)
(* end; and a round is entered only before it.                             *)
GrantTyped(g) ==
    /\ {g.wake, g.expires, g.last, g.interval, g.asked} \subseteq Nat
    /\ g.slept \in BOOLEAN
    /\ g.pc \in {"none", "top", "resting", "asleep", "polling", "ended"}
    /\ g.interval >= AtMost(g.asked, MaxSlowDown)

Paced(g, t) ==
    /\ g.last <= t
    /\ g.pc = "asleep" => g.slept /\ (g.wake >= g.expires \/ g.wake >= g.last + g.interval)
    /\ g.pc = "polling" => IF g.slept THEN t >= g.last + g.interval ELSE t >= g.expires
    /\ g.pc = "resting" => ~g.slept
    /\ g.pc \in {"resting", "asleep", "polling"} => g.last < g.expires

DeviceInv ==
    /\ now \in 0..MaxTime
    /\ GrantFormed(device) /\ GrantTyped(device) /\ Paced(device, now)

IInv == LoginInv /\ DeviceInv

-----------------------------------------------------------------------------
(* What the helpers of the flows give.                                     *)

(* A token that was granted arrives, as it was granted.                    *)
LEMMA TokenArrives ==
    ASSUME NEW a, NEW rt, a # None
    PROVE  /\ resultFromToken(postForm(TRUE, Grants(a, rt)), None).ok
           /\ resultFromToken(postForm(TRUE, Grants(a, rt)), None).access = a
<1> DEFINE answer == Grants(a, rt)
<1>1. answer.kind = "token" /\ answer.access = a
  BY DEF Grants, Sent
<1> HIDE DEF answer
<1>2. postForm(TRUE, answer) = [ok |-> TRUE, answer |-> answer]
  BY <1>1 DEF postForm
<1>3. /\ resultFromToken([ok |-> TRUE, answer |-> answer], None).ok
      /\ resultFromToken([ok |-> TRUE, answer |-> answer], None).access = a
  BY <1>1 DEF resultFromToken
<1>4. /\ resultFromToken(postForm(TRUE, answer), None).ok
      /\ resultFromToken(postForm(TRUE, answer), None).access = a
  BY <1>2, <1>3
<1> QED BY <1>4 DEF answer

(* A refusal and a lost call are failures.                                 *)
LEMMA NothingArrives ==
    /\ ~resultFromToken(postForm(TRUE, Refuses("invalid_grant")), None).ok
    /\ ~resultFromToken(postForm(TRUE, Sent("lost")), None).ok
<1>1. ~mapOAuthError("invalid_grant").ok
  BY DEF mapOAuthError, Failure
<1>2. /\ Refuses("invalid_grant").kind = "error"
      /\ Refuses("invalid_grant").error = "invalid_grant"
  BY DEF Refuses, Sent
<1>3. postForm(TRUE, Refuses("invalid_grant")) = mapOAuthError("invalid_grant")
  BY <1>2 DEF postForm
<1>4. Sent("lost").kind = "lost"
  BY DEF Sent
<1>5. ~postForm(TRUE, Sent("lost")).ok
  BY <1>4 DEF postForm, networkError, Failure
<1> QED BY <1>1, <1>3, <1>5 DEF resultFromToken

(* A session that is written to stays a session.                           *)
LEMMA Forms ==
    ASSUME NEW r, NEW x, Formed(r)
    PROVE  /\ Formed([r EXCEPT !.pc = x]) /\ Formed([r EXCEPT !.port = x])
           /\ Formed([r EXCEPT !.codeCh = x]) /\ Formed([r EXCEPT !.errCh = x])
           /\ Formed([r EXCEPT !.code = x]) /\ Formed([r EXCEPT !.grant = x])
           /\ Formed([r EXCEPT !.profile = x]) /\ Formed([r EXCEPT !.onboard = x])
           /\ Formed([r EXCEPT !.result = x])
<1>1. Formed([r EXCEPT !.pc = x]) /\ Formed([r EXCEPT !.port = x])
  BY DEF Formed
<1>2. Formed([r EXCEPT !.codeCh = x]) /\ Formed([r EXCEPT !.errCh = x])
  BY DEF Formed
<1>3. Formed([r EXCEPT !.code = x]) /\ Formed([r EXCEPT !.grant = x])
  BY DEF Formed
<1>4. Formed([r EXCEPT !.profile = x]) /\ Formed([r EXCEPT !.onboard = x])
  BY DEF Formed
<1>5. Formed([r EXCEPT !.result = x])
  BY DEF Formed
<1> QED BY <1>1, <1>2, <1>3, <1>4, <1>5

(* The end of a session changes what it holds, not what it was granted.    *)
LEMMA EndOf ==
    ASSUME NEW r, NEW result, Formed(r)
    PROVE  LET end == Ended(r, result) IN
           /\ Formed(end)
           /\ end.pc = "ended" /\ end.port = None /\ end.onboard = 0
           /\ end.grant = r.grant /\ end.profile = r.profile /\ end.result = result
<1> DEFINE end == Ended(r, result)
<1>1. end.pc = "ended" /\ end.port = None /\ end.onboard = 0
  BY DEF Formed, Ended
<1>2. end.grant = r.grant /\ end.profile = r.profile /\ end.result = result
  BY DEF Formed, Ended
<1>3. Formed(end)
  <2>1. Formed([r EXCEPT !.pc = "ended", !.port = None])
    BY Forms
  <2>2. Formed([r EXCEPT !.pc = "ended", !.port = None, !.onboard = 0])
    BY <2>1, Forms
  <2>3. Formed([r EXCEPT !.pc = "ended", !.port = None, !.onboard = 0, !.codeCh = None])
    BY <2>2, Forms
  <2>4. Formed([r EXCEPT !.pc = "ended", !.port = None, !.onboard = 0, !.codeCh = None,
                         !.errCh = None])
    BY <2>3, Forms
  <2> QED BY <2>4, Forms DEF Ended
<1> QED BY <1>1, <1>2, <1>3

(* A login that failed before it had a grant, or with one that the vault   *)
(* or the end of the process lost, has ended honestly.                     *)
LEMMA FailureIsSane ==
    ASSUME NEW cs, NEW rs, NEW s, NEW r, NEW code, Sane(cs, rs, s, r),
           r.grant = None \/ code \in {"store_failed", "killed"}
    PROVE  Sane(cs, rs, s, [Ended(r, [ok |-> FALSE, code |-> code])
                              EXCEPT !.profile = NoProfile])
<1> DEFINE result == [ok |-> FALSE, code |-> code]
           end    == Ended(r, result)
           last   == [end EXCEPT !.profile = NoProfile]
<1>1. /\ Formed(end)
      /\ end.pc = "ended" /\ end.port = None /\ end.onboard = 0
      /\ end.grant = r.grant /\ end.result = result
  BY EndOf DEF Sane
<1>2. ~result.ok /\ result.code = code
  OBVIOUS
<1> HIDE DEF end, result
<1>3. /\ last.pc = "ended" /\ last.port = None /\ last.onboard = 0
      /\ last.grant = r.grant /\ last.result = result
  BY <1>1 DEF Formed
<1>4. Formed(last)
  BY <1>1, Forms
<1>5. last.profile = NoProfile
  BY <1>1 DEF Formed
<1> HIDE DEF last
<1>6. 0 \in 0..OnboardAttempts
  BY LoginAssumption
<1>7. Typed(last)
  BY <1>3, <1>5, <1>6 DEF Typed, NoProfile
<1>8. HoldsGrant(cs, s, last)
  BY <1>3 DEF Sane, HoldsGrant, Before, After
<1>9. EndsHonest(rs, last)
  BY <1>2, <1>3 DEF EndsHonest
<1>10. Sane(cs, rs, s, last)
  BY <1>4, <1>7, <1>8, <1>9 DEF Sane
<1> QED BY <1>10 DEF last, end, result

(* What a session holds stays true while codes are issued and spent and    *)
(* rows are written.                                                       *)
LEMMA SaneKeeps ==
    ASSUME NEW cs, NEW cs2, NEW rs, NEW rs2, NEW s, NEW r, Sane(cs, rs, s, r),
           \A a : Granted(cs, s, a) => Granted(cs2, s, a),
           DOMAIN rs \subseteq DOMAIN rs2
    PROVE  Sane(cs2, rs2, s, r)
BY DEF Sane, HoldsGrant, EndsHonest

(* A step of one session that leaves it sane, and the codes and the vault  *)
(* as they were.                                                           *)
LEMMA Moves ==
    ASSUME LoginInv, NEW s \in Sessions, NEW r, Sane(codes, rows, s, r),
           session' = [session EXCEPT ![s] = r],
           UNCHANGED <<consents, codes, rows, strays>>
    PROVE  LoginInv'
<1>1. session' = [t \in Sessions |-> IF t = s THEN r ELSE session[t]]
  BY DEF LoginInv
<1>2. session' = [t \in Sessions |-> session'[t]]
  BY <1>1
<1>3. \A t \in Sessions : Sane(codes, rows, t, session'[t])
  BY <1>1 DEF LoginInv
<1> QED BY <1>2, <1>3 DEF LoginInv

(* A session that fails.                                                   *)
LEMMA Fails ==
    ASSUME LoginInv, NEW s \in Sessions, NEW code, Fail(s, code),
           session[s].grant = None \/ code \in {"store_failed", "killed"},
           UNCHANGED <<consents, codes, rows, strays>>
    PROVE  LoginInv'
<1>1. Sane(codes, rows, s, session[s])
  BY DEF LoginInv
<1>2. Sane(codes, rows, s, [Ended(session[s], [ok |-> FALSE, code |-> code])
                              EXCEPT !.profile = NoProfile])
  BY <1>1, FailureIsSane
<1> QED BY <1>2, Moves DEF Fail, Update

-----------------------------------------------------------------------------
(* The steps of a login.                                                   *)

(* A session that goes on towards its exchange.                            *)
LEMMA StillBefore ==
    ASSUME NEW cs, NEW rs, NEW s, NEW r, NEW r2, Sane(cs, rs, s, r), r.pc \in Before,
           Formed(r2), r2.pc \in Before, r2.port \in Ports \cup {None},
           r2.onboard = r.onboard, r2.grant = r.grant, r2.profile = r.profile
    PROVE  Sane(cs, rs, s, r2)
<1>1. Typed(r2)
  BY DEF Sane, Typed
<1>2. HoldsGrant(cs, s, r2)
  BY DEF Sane, HoldsGrant, Before, After
<1>3. EndsHonest(rs, r2)
  BY DEF EndsHonest, Before
<1> QED BY <1>1, <1>2, <1>3 DEF Sane

(* What ends a login before its exchange.                                  *)
LEMMA EarlyEnds ==
    ASSUME LoginInv, NEW s \in Sessions,
           Refused(s) \/ BeginFails(s) \/ ReceiveError(s) \/ Timeout(s)
    PROVE  LoginInv'
<1>1. PICK code : Fail(s, code)
  BY DEF Refused, BeginFails, ReceiveError, Timeout
<1>2. session[s].pc \in Before /\ UNCHANGED <<consents, codes, rows, strays>>
  BY DEF Refused, BeginFails, ReceiveError, Timeout, Before
<1>3. session[s].grant = None
  BY <1>2 DEF LoginInv, Sane, HoldsGrant
<1> QED BY <1>1, <1>2, <1>3, Fails

(* The flow begins (BeginLogin, PKCEFlow.Begin).                           *)
LEMMA Begins ==
    ASSUME LoginInv, NEW s \in Sessions, BeginLogin(s)
    PROVE  LoginInv'
<1> DEFINE r == session[s]
<1>1. PICK port, code :
        port \in Ports /\ Update(s, [r EXCEPT !.pc = "begun", !.port = port, !.code = code])
  BY DEF BeginLogin
<1> DEFINE r2 == [r EXCEPT !.pc = "begun", !.port = port, !.code = code]
<1>2. Sane(codes, rows, s, r) /\ r.pc \in Before
  BY DEF LoginInv, BeginLogin, Before
<1>3. Formed(r)
  BY <1>2 DEF Sane
<1> HIDE DEF r
<1>4. Formed(r2)
  <2>1. Formed([r EXCEPT !.pc = "begun", !.port = port])
    BY <1>3, Forms
  <2> QED BY <2>1, Forms
<1>5. /\ r2.pc \in Before /\ r2.port \in Ports \cup {None}
      /\ r2.onboard = r.onboard /\ r2.grant = r.grant /\ r2.profile = r.profile
  BY <1>1, <1>3 DEF Formed, Before
<1> HIDE DEF r2
<1>6. Sane(codes, rows, s, r2)
  BY <1>2, <1>4, <1>5, StillBefore
<1> QED BY <1>1, <1>6, Moves DEF BeginLogin, Update, r, r2

(* It waits for the callback, or exchanges the code it was called with     *)
(* (AwaitCallback, ExchangeCode).                                          *)
LEMMA Waits ==
    ASSUME LoginInv, NEW s \in Sessions, AwaitCallback(s) \/ ExchangeCode(s)
    PROVE  LoginInv'
<1> DEFINE r == session[s]
<1>1. PICK pc \in {"waiting", "exchanging"} : Update(s, [r EXCEPT !.pc = pc])
  BY DEF AwaitCallback, ExchangeCode
<1> DEFINE r2 == [r EXCEPT !.pc = pc]
<1>2. Sane(codes, rows, s, r) /\ r.pc \in Before
  BY DEF LoginInv, AwaitCallback, ExchangeCode, Before
<1>3. Formed(r) /\ r.port \in Ports \cup {None}
  BY <1>2 DEF Sane, Typed
<1> HIDE DEF r
<1>4. Formed(r2)
  BY <1>3, Forms
<1>5. /\ r2.pc \in Before /\ r2.port \in Ports \cup {None}
      /\ r2.onboard = r.onboard /\ r2.grant = r.grant /\ r2.profile = r.profile
  BY <1>3 DEF Formed, Before
<1> HIDE DEF r2
<1>6. Sane(codes, rows, s, r2)
  BY <1>2, <1>4, <1>5, StillBefore
<1> QED BY <1>1, <1>6, Moves DEF AwaitCallback, ExchangeCode, Update, r, r2

(* The code arrives (AwaitCallback's select).                              *)
LEMMA ReceivesCode ==
    ASSUME LoginInv, NEW s \in Sessions, ReceiveCode(s)
    PROVE  LoginInv'
<1> DEFINE r    == session[s]
           code == session[s].codeCh
           r2   == [r EXCEPT !.pc = "exchanging", !.code = code, !.codeCh = None]
<1>1. Update(s, r2)
  BY DEF ReceiveCode
<1>2. Sane(codes, rows, s, r) /\ r.pc \in Before
  BY DEF LoginInv, ReceiveCode, Before
<1>3. Formed(r) /\ r.port \in Ports \cup {None}
  BY <1>2 DEF Sane, Typed
<1> HIDE DEF r, code
<1>4. Formed(r2)
  <2>1. Formed([r EXCEPT !.pc = "exchanging", !.code = code])
    BY <1>3, Forms
  <2> QED BY <2>1, Forms
<1>5. /\ r2.pc \in Before /\ r2.port \in Ports \cup {None}
      /\ r2.onboard = r.onboard /\ r2.grant = r.grant /\ r2.profile = r.profile
  BY <1>3 DEF Formed, Before
<1> HIDE DEF r2
<1>6. Sane(codes, rows, s, r2)
  BY <1>2, <1>4, <1>5, StillBefore
<1> QED BY <1>1, <1>6, Moves DEF ReceiveCode, Update, r, r2

(* The callback server answers a request (AwaitCallback's handler): it     *)
(* leaves a code or an error, whose only use is the exchange to come.      *)
LEMMA Handles ==
    ASSUME LoginInv, NEW s \in Sessions, NEW q \in requests, Handle(s, q)
    PROVE  LoginInv'
<1> DEFINE r == session[s]
<1>1. CASE UNCHANGED session
  BY <1>1 DEF LoginInv, Handle
<1>2. ASSUME NEW x, \/ Update(s, [r EXCEPT !.codeCh = x]) \/ Update(s, [r EXCEPT !.errCh = x])
      PROVE  LoginInv'
  <2>1. PICK r2 : Update(s, r2) /\ r2 \in {[r EXCEPT !.codeCh = x], [r EXCEPT !.errCh = x]}
    BY <1>2
  <2>2. Sane(codes, rows, s, r) /\ r.pc \in Before
    BY DEF LoginInv, Handle, Serving, Before
  <2>3. Formed(r) /\ r.port \in Ports \cup {None}
    BY <2>2 DEF Sane, Typed
  <2> HIDE DEF r
  <2>4. Formed(r2)
    <3>1. CASE r2 = [r EXCEPT !.codeCh = x]
      BY <3>1, <2>3, Forms
    <3>2. CASE r2 = [r EXCEPT !.errCh = x]
      BY <3>2, <2>3, Forms
    <3> QED BY <3>1, <3>2, <2>1
  <2>5. /\ r2.pc = r.pc /\ r2.port = r.port
        /\ r2.onboard = r.onboard /\ r2.grant = r.grant /\ r2.profile = r.profile
    BY <2>1, <2>3 DEF Formed
  <2>6. Sane(codes, rows, s, r2)
    BY <2>2, <2>3, <2>4, <2>5, StillBefore
  <2> QED BY <2>1, <2>6, Moves DEF Handle, Update, r
<1> QED BY <1>1, <1>2 DEF Handle

(* The provider honours the code that the session brings: it is the one of *)
(* this session's own URL, nobody else's (PKCE's verifier, the state).     *)
LEMMA CodesSpent ==
    ASSUME LoginInv, NEW s \in Sessions, Honoured(s)
    PROVE  /\ Granted(Spend(s), s, Account(s)) /\ Account(s) # None
           /\ \A t, a : Granted(codes, t, a) => Granted(Spend(s), t, a)
           /\ OneCode(Spend(s), consents)
<1> DEFINE spent(c) == [c EXCEPT !.spent = TRUE]
<1>1. PICK c \in codes : c.for = session[s].code /\ c.for = s
  BY DEF Honoured
<1>2. \A d \in codes : /\ d = [for |-> d.for, account |-> d.account, spent |-> d.spent]
                       /\ d.for \in consents /\ d.account \in Accounts
  BY DEF LoginInv, OneCode
<1>3. \A d, e \in codes : d.for = e.for => d = e
  BY DEF LoginInv, OneCode
<1>4. (CHOOSE d \in codes : d.for = session[s].code) = c
  BY <1>1, <1>3
<1>5. Account(s) = c.account /\ c.account \in Accounts
  BY <1>2, <1>4 DEF Account
<1>6. ASSUME NEW d \in codes
      PROVE  /\ spent(d).for = d.for /\ spent(d).account = d.account /\ spent(d).spent
             /\ spent(d) = [for |-> spent(d).for, account |-> spent(d).account,
                            spent |-> spent(d).spent]
  <2>1. d = [for |-> d.for, account |-> d.account, spent |-> d.spent]
    BY <1>2
  <2>2. spent(d).for = d.for /\ spent(d).account = d.account
    BY <2>1
  <2>3. spent(d).spent
    BY <2>1
  <2>4. spent(d) = [for |-> spent(d).for, account |-> spent(d).account,
                    spent |-> spent(d).spent]
    <3>1. ASSUME NEW x
          PROVE  LET e == [d EXCEPT !.spent = x]
                 IN  e = [for |-> e.for, account |-> e.account, spent |-> e.spent]
      BY <2>1
    <3> QED BY <3>1
  <2> QED BY <2>2, <2>3, <2>4
<1>7. Spend(s) = {IF d.for = s THEN spent(d) ELSE d : d \in codes}
  BY <1>1 DEF Spend
<1> HIDE DEF spent
<1>8. \A d \in codes : /\ d.for = s => spent(d) \in Spend(s)
                       /\ d.for # s => d \in Spend(s)
  BY <1>7
<1>9. \A e \in Spend(s) : \E d \in codes :
        /\ e = IF d.for = s THEN spent(d) ELSE d
        /\ e = [for |-> e.for, account |-> e.account, spent |-> e.spent]
        /\ e.for = d.for /\ e.account = d.account
  BY <1>2, <1>6, <1>7
<1>10. spent(c) \in Spend(s) /\ spent(c).for = s /\ spent(c).account = Account(s)
       /\ spent(c).spent
  BY <1>1, <1>5, <1>6, <1>8
<1>11. Granted(Spend(s), s, Account(s))
  BY <1>5, <1>10 DEF Granted
<1>12. Account(s) # None
  BY <1>5, LoginAssumption
<1>13. ASSUME NEW t, NEW a, Granted(codes, t, a)
       PROVE  Granted(Spend(s), t, a)
  <2>1. PICK d \in codes : d.for = t /\ d.account = a /\ d.spent
    BY <1>13 DEF Granted
  <2>2. CASE t = s
    <3>1. spent(d) \in Spend(s) /\ spent(d).for = t /\ spent(d).account = a /\ spent(d).spent
      BY <1>6, <1>8, <2>1, <2>2
    <3> QED BY <1>13, <3>1 DEF Granted
  <2>3. CASE t # s
    <3>1. d \in Spend(s)
      BY <1>8, <2>1, <2>3
    <3> QED BY <1>13, <2>1, <3>1 DEF Granted
  <2> QED BY <2>2, <2>3
<1>14. OneCode(Spend(s), consents)
  <2>1. \A e \in Spend(s) :
          /\ e = [for |-> e.for, account |-> e.account, spent |-> e.spent]
          /\ e.for \in consents /\ e.account \in Accounts
    BY <1>2, <1>9
  <2>2. ASSUME NEW e \in Spend(s), NEW f \in Spend(s), e.for = f.for
        PROVE  e = f
    <3>1. PICK d \in codes : e = (IF d.for = s THEN spent(d) ELSE d) /\ e.for = d.for
      BY <1>9
    <3>2. PICK g \in codes : f = (IF g.for = s THEN spent(g) ELSE g) /\ f.for = g.for
      BY <1>9
    <3>3. d = g
      BY <1>3, <2>2, <3>1, <3>2
    <3> QED BY <3>1, <3>2, <3>3
  <2> QED BY <2>1, <2>2 DEF OneCode
<1> QED BY <1>11, <1>12, <1>13, <1>14

(* A session moves, and the provider's codes with it.                      *)
LEMMA MovesOn ==
    ASSUME LoginInv, NEW s \in Sessions, NEW r, NEW cs,
           \A t, a : Granted(codes, t, a) => Granted(cs, t, a),
           OneCode(cs, consents), Sane(cs, rows, s, r),
           session' = [session EXCEPT ![s] = r], codes' = cs,
           UNCHANGED <<consents, rows, strays>>
    PROVE  LoginInv'
<1>1. session' = [t \in Sessions |-> IF t = s THEN r ELSE session[t]]
  BY DEF LoginInv
<1>2. session' = [t \in Sessions |-> session'[t]]
  BY <1>1
<1>3. ASSUME NEW t \in Sessions
      PROVE  Sane(cs, rows, t, session'[t])
  <2>1. CASE t = s
    BY <1>1, <2>1
  <2>2. CASE t # s
    <3>1. Sane(codes, rows, t, session[t]) /\ \A a : Granted(codes, t, a) => Granted(cs, t, a)
      BY DEF LoginInv
    <3>2. Sane(cs, rows, t, session[t])
      BY <3>1, SaneKeeps
    <3> QED BY <1>1, <2>2, <3>2
  <2> QED BY <2>1, <2>2
<1> QED BY <1>2, <1>3 DEF LoginInv

(* The exchange fails: whatever became of the code, the session has no     *)
(* grant and ends.                                                         *)
LEMMA ExchangeFails ==
    ASSUME LoginInv, NEW s \in Sessions, NEW answer, NEW cs,
           ~resultFromToken(postForm(TRUE, answer), None).ok, exchange(s, answer, cs),
           \A t, a : Granted(codes, t, a) => Granted(cs, t, a), OneCode(cs, consents)
    PROVE  LoginInv'
<1> DEFINE code == resultFromToken(postForm(TRUE, answer), None).code
           end  == [Ended(session[s], [ok |-> FALSE, code |-> code])
                      EXCEPT !.profile = NoProfile]
<1>1. /\ session' = [session EXCEPT ![s] = end] /\ codes' = cs
      /\ UNCHANGED <<consents, rows, strays>>
  BY DEF exchange, Fail, Update
<1>2. Sane(codes, rows, s, session[s]) /\ session[s].pc \in Before
  BY DEF LoginInv, exchange, Before
<1>3. session[s].grant = None
  BY <1>2 DEF Sane, HoldsGrant
<1>4. Sane(cs, rows, s, session[s])
  BY <1>2, SaneKeeps
<1>5. Sane(cs, rows, s, end)
  BY <1>3, <1>4, FailureIsSane
<1> HIDE DEF end
<1> QED BY <1>1, <1>5, MovesOn

(* The tokens arrive: for the account that answered this session's URL.    *)
LEMMA ExchangeGrants ==
    ASSUME LoginInv, NEW s \in Sessions, Honoured(s),
           exchange(s, Grants(Account(s), "rt"), Spend(s))
    PROVE  LoginInv'
<1> DEFINE r  == session[s]
           a  == Account(s)
           cs == Spend(s)
<1>1. /\ Granted(cs, s, a) /\ a # None
      /\ \A t, b : Granted(codes, t, b) => Granted(cs, t, b)
      /\ OneCode(cs, consents)
  BY CodesSpent
<1>2. /\ resultFromToken(postForm(TRUE, Grants(a, "rt")), None).ok
      /\ resultFromToken(postForm(TRUE, Grants(a, "rt")), None).access = a
  BY <1>1, TokenArrives
<1>3. PICK port : /\ port = (IF r.offer.pasted THEN r.port ELSE None)
                  /\ Update(s, [r EXCEPT !.pc = "profile", !.grant = a, !.port = port])
  BY <1>2 DEF exchange
<1> DEFINE r2 == [r EXCEPT !.pc = "profile", !.grant = a, !.port = port]
<1>4. Sane(codes, rows, s, r)
  BY DEF LoginInv
<1>5. Formed(r) /\ Typed(r)
  BY <1>4 DEF Sane
<1> HIDE DEF r, a, cs
<1>6. Formed(r2)
  <2>1. Formed([r EXCEPT !.pc = "profile", !.grant = a])
    BY <1>5, Forms
  <2> QED BY <2>1, Forms
<1>7. /\ r2.pc = "profile" /\ r2.port = port /\ r2.grant = a
      /\ r2.onboard = r.onboard /\ r2.profile = r.profile
  BY <1>5 DEF Formed
<1> HIDE DEF r2
<1>8. Typed(r2)
  BY <1>3, <1>5, <1>7 DEF Typed, After
<1>9. HoldsGrant(cs, s, r2)
  BY <1>1, <1>7 DEF HoldsGrant, Before
<1>10. EndsHonest(rows, r2)
  BY <1>7 DEF EndsHonest
<1>11. Sane(cs, rows, s, r2)
  BY <1>6, <1>8, <1>9, <1>10 DEF Sane
<1>12. /\ session' = [session EXCEPT ![s] = r2] /\ codes' = cs
       /\ UNCHANGED <<consents, rows, strays>>
  BY <1>3 DEF exchange, Update, r2, r, cs
<1> QED BY <1>1, <1>11, <1>12, MovesOn

(* The exchange of a session, answered or lost (PKCEFlow.exchange).        *)
LEMMA Exchanges ==
    ASSUME LoginInv, NEW s \in Sessions, Exchanged(s) \/ ExchangeLost(s)
    PROVE  LoginInv'
<1>1. OneCode(codes, consents)
  BY DEF LoginInv
<1>2. CASE Exchanged(s)
  <2>1. CASE Honoured(s)
    BY <1>2, <2>1, ExchangeGrants DEF Exchanged
  <2>2. CASE ~Honoured(s)
    BY <1>1, <1>2, <2>2, ExchangeFails, NothingArrives DEF Exchanged
  <2> QED BY <2>1, <2>2
<1>3. CASE ExchangeLost(s)
  <2>1. PICK cs : cs \in {codes, IF Honoured(s) THEN Spend(s) ELSE codes}
                  /\ exchange(s, Sent("lost"), cs)
    BY <1>3 DEF ExchangeLost
  <2>2. CASE cs = codes
    BY <1>1, <2>1, <2>2, ExchangeFails, NothingArrives
  <2>3. CASE Honoured(s) /\ cs = Spend(s)
    <3>1. /\ \A t, a : Granted(codes, t, a) => Granted(cs, t, a)
          /\ OneCode(cs, consents)
      BY <2>3, CodesSpent
    <3> QED BY <2>1, <3>1, ExchangeFails, NothingArrives
  <2> QED BY <2>1, <2>2, <2>3
<1> QED BY <1>2, <1>3

(* The profile is of the account that granted it, or of nobody             *)
(* (fetchUserInfo); whatever the discovery finds (loadCodeAssist).         *)
LEMMA Decorates ==
    ASSUME LoginInv, NEW s \in Sessions, fetchUserInfo(s) \/ loadCodeAssist(s)
    PROVE  LoginInv'
<1> DEFINE r == session[s]
<1>1. Sane(codes, rows, s, r)
  BY DEF LoginInv
<1>2. Formed(r) /\ Typed(r) /\ HoldsGrant(codes, s, r)
  BY <1>1 DEF Sane
<1>3. ASSUME NEW r2, Formed(r2), Update(s, r2), r2.grant = r.grant, r2.pc \in After,
             r.pc \in After, r2.port = r.port, r2.onboard \in 0..OnboardAttempts,
             r2.profile = [account |-> r2.profile.account, project |-> r2.profile.project],
             r2.profile.account \in {None, r.grant}
      PROVE  LoginInv'
  <2>1. Typed(r2)
    BY <1>2, <1>3 DEF Typed
  <2>2. HoldsGrant(codes, s, r2)
    BY <1>2, <1>3 DEF HoldsGrant, Before, After
  <2>3. EndsHonest(rows, r2)
    BY <1>3 DEF EndsHonest, After
  <2>4. Sane(codes, rows, s, r2)
    BY <1>3, <2>1, <2>2, <2>3 DEF Sane
  <2> QED BY <1>3, <2>4, Moves DEF fetchUserInfo, loadCodeAssist, Update
<1>4. CASE fetchUserInfo(s)
  <2>1. PICK account \in {None, r.grant} :
          Update(s, [r EXCEPT !.pc = "discover", !.profile.account = account])
    BY <1>4 DEF fetchUserInfo
  <2>2. r.pc \in After
    BY <1>4 DEF fetchUserInfo, After
  <2> DEFINE profile == [r.profile EXCEPT !.account = account]
             r2      == [r EXCEPT !.pc = "discover", !.profile = profile]
  <2>3. r.profile = [account |-> r.profile.account, project |-> r.profile.project]
    BY <1>2 DEF Typed
  <2>4. profile.account = account
    BY <2>3
  <2>5. profile = [account |-> profile.account, project |-> profile.project]
    BY <2>3
  <2>6. Update(s, r2)
    BY <2>1
  <2> HIDE DEF profile, r
  <2>7. Formed(r2)
    <3>1. Formed([r EXCEPT !.pc = "discover"])
      BY <1>2, Forms
    <3> QED BY <3>1, Forms
  <2>8. /\ r2.pc = "discover" /\ r2.grant = r.grant /\ r2.port = r.port
        /\ r2.onboard = r.onboard /\ r2.profile = profile
    BY <1>2 DEF Formed
  <2> HIDE DEF r2
  <2>9. r.onboard \in 0..OnboardAttempts /\ r2.pc \in After
    BY <1>2, <2>8 DEF Typed, After
  <2> QED BY <1>3, <2>1, <2>2, <2>4, <2>5, <2>6, <2>7, <2>8, <2>9
<1>5. CASE loadCodeAssist(s)
  <2>1. PICK project \in BOOLEAN, left \in {0, OnboardAttempts} :
          Update(s, [r EXCEPT !.pc = "persist", !.profile.project = project,
                              !.onboard = left])
    BY <1>5 DEF loadCodeAssist
  <2>2. r.pc \in After /\ r.profile.account \in {None, r.grant}
    BY <1>2, <1>5 DEF loadCodeAssist, After, HoldsGrant
  <2> DEFINE profile == [r.profile EXCEPT !.project = project]
             r2      == [r EXCEPT !.pc = "persist", !.profile = profile, !.onboard = left]
  <2>3. r.profile = [account |-> r.profile.account, project |-> r.profile.project]
    BY <1>2 DEF Typed
  <2>4. profile.account = r.profile.account
    BY <2>3
  <2>5. profile = [account |-> profile.account, project |-> profile.project]
    BY <2>3
  <2>6. Update(s, r2)
    BY <2>1
  <2> HIDE DEF profile, r
  <2>7. Formed(r2)
    <3>1. Formed([r EXCEPT !.pc = "persist"])
      BY <1>2, Forms
    <3>2. Formed([r EXCEPT !.pc = "persist", !.profile = profile])
      BY <3>1, Forms
    <3> QED BY <3>2, Forms
  <2>8. /\ r2.pc = "persist" /\ r2.grant = r.grant /\ r2.port = r.port
        /\ r2.onboard = left /\ r2.profile = profile
    BY <1>2 DEF Formed
  <2> HIDE DEF r2
  <2>9. r2.onboard \in 0..OnboardAttempts /\ r2.pc \in After
    BY <2>1, <2>8, LoginAssumption DEF After
  <2> QED BY <1>3, <2>2, <2>4, <2>5, <2>6, <2>7, <2>8, <2>9
<1> QED BY <1>4, <1>5

(* The onboarding goes on beside the session, whatever it is at.           *)
LEMMA Onboards ==
    ASSUME LoginInv, NEW s \in Sessions, Onboard(s)
    PROVE  LoginInv'
<1> DEFINE r == session[s]
<1>1. PICK left \in {0, r.onboard - 1} : Update(s, [r EXCEPT !.onboard = left])
  BY DEF Onboard
<1> DEFINE r2 == [r EXCEPT !.onboard = left]
<1>2. Sane(codes, rows, s, r) /\ r.onboard > 0
  BY DEF LoginInv, Onboard
<1>3. Formed(r) /\ Typed(r) /\ HoldsGrant(codes, s, r) /\ EndsHonest(rows, r)
  BY <1>2 DEF Sane
<1>4. r.onboard \in 0..OnboardAttempts /\ OnboardAttempts \in Nat
  BY <1>3, LoginAssumption DEF Typed
<1>5. left \in 0..OnboardAttempts
  BY <1>1, <1>2, <1>4
<1> HIDE DEF r
<1>6. Formed(r2)
  BY <1>3, Forms
<1>7. /\ r2.pc = r.pc /\ r2.port = r.port /\ r2.grant = r.grant /\ r2.profile = r.profile
      /\ r2.result = r.result /\ r2.onboard = left
  BY <1>3 DEF Formed
<1>8. Update(s, r2) /\ UNCHANGED <<consents, codes, rows, strays>>
  BY <1>1 DEF Onboard
<1> HIDE DEF r2
<1>9. Typed(r2)
  BY <1>3, <1>5, <1>7 DEF Typed
<1>10. HoldsGrant(codes, s, r2) /\ EndsHonest(rows, r2)
  BY <1>3, <1>7 DEF HoldsGrant, EndsHonest
<1>11. Sane(codes, rows, s, r2)
  BY <1>6, <1>9, <1>10 DEF Sane
<1> QED BY <1>8, <1>11, Moves DEF Update, r

(* Both tokens are sealed into the row of the account (persistLogin), and  *)
(* every other row stays.                                                  *)
LEMMA Persists ==
    ASSUME LoginInv, NEW s \in Sessions, persistLogin(s)
    PROVE  LoginInv'
<1> DEFINE r      == session[s]
           id     == r.profile.account
           row    == [grant |-> r.grant, profile |-> r.profile]
           result == [ok |-> TRUE, id |-> id]
           end    == Ended(r, result)
<1>1. Sane(codes, rows, s, r) /\ r.pc = "persist"
  BY DEF LoginInv, persistLogin
<1>2. /\ Formed(r) /\ HoldsGrant(codes, s, r) /\ Typed(r)
      /\ r.grant # None /\ id \in {None, r.grant}
  BY <1>1 DEF Sane, HoldsGrant, After
<1>3. /\ rows' = [i \in DOMAIN rows \cup {id} |-> IF i = id THEN row ELSE rows[i]]
      /\ session' = [session EXCEPT ![s] = end]
      /\ UNCHANGED <<consents, codes, strays>>
  BY DEF persistLogin, upsertOAuthBlob, oauthCredentialID, Update
<1>4. row.profile = r.profile /\ row.grant = r.grant
  OBVIOUS
<1>5. result.ok /\ result.id = id
  OBVIOUS
<1> HIDE DEF r, row, result
<1>6. /\ Formed(end) /\ end.pc = "ended" /\ end.port = None /\ end.onboard = 0
      /\ end.grant = r.grant /\ end.profile = r.profile /\ end.result = result
  BY <1>2, EndOf
<1> HIDE DEF end
<1>7. DOMAIN rows' = DOMAIN rows \cup {id}
  BY <1>3
<1>8. Rowed(rows')
  <2>1. ASSUME NEW i \in DOMAIN rows'
        PROVE  rows'[i].profile.account = i /\ (i # None => rows'[i].grant = i)
    <3>1. CASE i = id
      BY <1>2, <1>3, <1>4, <3>1
    <3>2. CASE i # id
      <4>1. i \in DOMAIN rows /\ rows'[i] = rows[i]
        BY <1>3, <1>7, <2>1, <3>2
      <4> QED BY <4>1 DEF LoginInv, Rowed
    <3> QED BY <3>1, <3>2
  <2> QED BY <2>1 DEF Rowed
<1>9. Sane(codes, rows', s, end)
  <2>1. Typed(end)
    BY <1>2, <1>6, LoginAssumption DEF Typed
  <2>2. HoldsGrant(codes, s, end)
    BY <1>2, <1>6 DEF HoldsGrant, Before, After
  <2>3. EndsHonest(rows', end)
    BY <1>2, <1>5, <1>6, <1>7 DEF EndsHonest
  <2> QED BY <1>6, <2>1, <2>2, <2>3 DEF Sane
<1>10. session' = [t \in Sessions |-> IF t = s THEN end ELSE session[t]]
  BY <1>3 DEF LoginInv
<1>11. session' = [t \in Sessions |-> session'[t]]
  BY <1>10
<1>12. ASSUME NEW t \in Sessions
       PROVE  Sane(codes, rows', t, session'[t])
  <2>1. CASE t = s
    BY <1>9, <1>10, <2>1
  <2>2. CASE t # s
    <3>1. Sane(codes, rows, t, session[t])
      BY DEF LoginInv
    <3>2. Sane(codes, rows', t, session[t])
      BY <1>7, <3>1, SaneKeeps
    <3> QED BY <1>10, <2>2, <3>2
  <2> QED BY <2>1, <2>2
<1> QED BY <1>3, <1>8, <1>11, <1>12 DEF LoginInv

(* What loses a grant: the vault, or the end of the process.               *)
LEMMA Loses ==
    ASSUME LoginInv, NEW s \in Sessions, StoreFails(s) \/ Crash(s)
    PROVE  LoginInv'
BY Fails DEF StoreFails, Crash

(* The user answers a URL: it has no code yet.                             *)
LEMMA Answered ==
    ASSUME LoginInv, NEW s \in Sessions, Answer(s)
    PROVE  LoginInv'
<1>1. OneCode(codes, consents) /\ s \notin consents
  BY DEF LoginInv, Answer
<1>2. CASE UNCHANGED codes
  <2>1. OneCode(codes, consents \cup {s})
    BY <1>1 DEF OneCode
  <2> QED BY <1>2, <2>1 DEF LoginInv, Answer
<1>3. ASSUME NEW a \in Accounts, codes' = codes \cup {Issued(s, a)}
      PROVE  LoginInv'
  <2>1. /\ Issued(s, a).for = s /\ Issued(s, a).account = a
        /\ LET c == Issued(s, a)
           IN  c = [for |-> c.for, account |-> c.account, spent |-> c.spent]
    BY DEF Issued
  <2>2. \A c \in codes : c.for # s
    BY <1>1 DEF OneCode
  <2>3. OneCode(codes', consents \cup {s})
    BY <1>1, <1>3, <2>1, <2>2 DEF OneCode
  <2>4. \A t, b : Granted(codes, t, b) => Granted(codes', t, b)
    BY <1>3 DEF Granted
  <2>5. \A t \in Sessions : Sane(codes, rows, t, session[t])
    BY DEF LoginInv
  <2>6. \A t \in Sessions : Sane(codes', rows, t, session[t])
    BY <2>4, <2>5, SaneKeeps
  <2>7. UNCHANGED <<session, rows, strays>> /\ consents' = consents \cup {s}
    BY DEF Answer
  <2> QED BY <2>3, <2>6, <2>7 DEF LoginInv
<1> QED BY <1>2, <1>3 DEF Answer

(* Requests of no login, and requests that nobody answers.                 *)
LEMMA OtherRequests ==
    ASSUME LoginInv, (\E q \in requests : Unreachable(q)) \/ (\E p \in Ports : Stray(p))
    PROVE  LoginInv'
BY LoginAssumption DEF LoginInv, Unreachable, Stray

(* Every step of the logins keeps the invariant.                           *)
LEMMA LoginSteps ==
    ASSUME LoginInv, LoginFlow
    PROVE  LoginInv'
<1>1. CASE \E s \in Sessions : Step(s)
  BY <1>1, EarlyEnds, Begins, Waits, ReceivesCode, Exchanges, Decorates, Persists, Loses
     DEF Step
<1>2. CASE \E s \in Sessions : Answer(s) \/ Onboard(s) \/ Crash(s)
  BY <1>2, Answered, Onboards, Loses
<1>3. CASE \E s \in Sessions, q \in requests : Handle(s, q)
  BY <1>3, Handles
<1> QED BY <1>1, <1>2, <1>3, OtherRequests DEF LoginFlow

-----------------------------------------------------------------------------
(* The device grant.                                                       *)

(* A grant that ends.                                                      *)
LEMMA DeviceEnds ==
    ASSUME DeviceInv, NEW code, End(code), UNCHANGED now
    PROVE  DeviceInv'
<1>1. GrantFormed(device) /\ GrantTyped(device) /\ Paced(device, now)
  BY DEF DeviceInv
<1>2. device' = [pc |-> "ended", interval |-> device.interval, expires |-> device.expires,
                 wake |-> device.wake, last |-> device.last, asked |-> device.asked,
                 slept |-> device.slept, outcome |-> code]
  BY <1>1 DEF End, GrantFormed
<1>3. GrantFormed(device')
  BY ONLY <1>2 DEF GrantFormed
<1>4. /\ device'.pc = "ended" /\ device'.interval = device.interval
      /\ device'.expires = device.expires /\ device'.wake = device.wake
      /\ device'.last = device.last /\ device'.asked = device.asked
      /\ device'.slept = device.slept
  BY ONLY <1>2
<1>5. GrantTyped(device')
  BY ONLY <1>1, <1>4 DEF GrantTyped
<1>6. Paced(device', now)
  BY ONLY <1>1, <1>4 DEF Paced
<1> QED BY <1>3, <1>5, <1>6 DEF DeviceInv

(* The grant begins, with an interval.                                     *)
LEMMA DeviceBegins ==
    ASSUME DeviceInv, NEW interval \in Intervals, NEW life \in Lifetimes,
           BeginDevice(interval, life)
    PROVE  DeviceInv'
<1>1. PICK every, ttl :
        /\ every \in Nat /\ ttl \in Nat
        /\ device' = [NoGrant EXCEPT !.pc = "top", !.interval = every, !.asked = every,
                                     !.expires = now + ttl, !.last = now]
  BY TimesAssumption DEF BeginDevice
<1>2. now \in 0..MaxTime /\ now \in Nat /\ now' = now
  BY DEF DeviceInv, BeginDevice
<1>3. device' = [pc |-> "top", interval |-> every, expires |-> now + ttl, wake |-> 0,
                 last |-> now, asked |-> every, slept |-> FALSE, outcome |-> None]
  BY <1>1 DEF NoGrant
<1>4. GrantFormed(device')
  BY <1>3 DEF GrantFormed
<1>5. /\ device'.pc = "top" /\ device'.interval = every /\ device'.asked = every
      /\ device'.expires = now + ttl /\ device'.last = now /\ device'.wake = 0
      /\ device'.slept = FALSE
  BY <1>3
<1>6. every >= AtMost(every, MaxSlowDown)
  BY <1>1, TimesAssumption DEF AtMost
<1>7. every \in Nat /\ now + ttl \in Nat /\ now \in Nat /\ 0 \in Nat
  BY <1>1, <1>2
<1>8. GrantTyped(device')
  BY ONLY <1>5, <1>6, <1>7 DEF GrantTyped
<1>9. Paced(device', now)
  BY ONLY <1>2, <1>5 DEF Paced
<1> QED BY <1>2, <1>4, <1>8, <1>9 DEF DeviceInv

(* The loop goes round: before the end of the grant, to sleep.             *)
LEMMA Rounds ==
    ASSUME DeviceInv, Round
    PROVE  DeviceInv'
<1>1. /\ GrantFormed(device) /\ GrantTyped(device) /\ Paced(device, now)
      /\ now' = now /\ now \in 0..MaxTime /\ now \in Nat
  BY DEF DeviceInv, Round
<1>2. CASE now >= device.expires
  BY <1>1, <1>2, DeviceEnds DEF Round
<1>3. CASE ~(now >= device.expires)
  <2>1. device.last < device.expires
    BY <1>1, <1>3 DEF Paced, GrantTyped
  <2>2. device' = [pc |-> "resting", interval |-> device.interval, expires |-> device.expires,
                   wake |-> device.wake, last |-> device.last, asked |-> device.asked,
                   slept |-> FALSE, outcome |-> device.outcome]
    BY <1>1, <1>3 DEF Round, GrantFormed
  <2>3. GrantFormed(device')
    BY ONLY <2>2 DEF GrantFormed
  <2>4. /\ device'.pc = "resting" /\ device'.interval = device.interval
        /\ device'.expires = device.expires /\ device'.wake = device.wake
        /\ device'.last = device.last /\ device'.asked = device.asked
        /\ device'.slept = FALSE
    BY ONLY <2>2
  <2>5. GrantTyped(device')
    BY ONLY <1>1, <2>4 DEF GrantTyped
  <2>6. Paced(device', now)
    BY ONLY <1>1, <2>1, <2>4 DEF Paced
  <2> QED BY <1>1, <2>3, <2>5, <2>6 DEF DeviceInv
<1> QED BY <1>2, <1>3

(* Going to sleep: for one interval, unless the grant ends before; not at  *)
(* all if it has ended.                                                    *)
LEMMA Rests ==
    ASSUME DeviceInv, Rest
    PROVE  DeviceInv'
<1>1. /\ GrantFormed(device) /\ GrantTyped(device) /\ Paced(device, now)
      /\ now' = now /\ now \in 0..MaxTime /\ now \in Nat /\ device.pc = "resting"
  BY DEF DeviceInv, Rest
<1>2. device.last < device.expires /\ device.slept = FALSE
  BY <1>1 DEF Paced, GrantTyped
<1>3. CASE now >= device.expires
  <2>1. device' = [pc |-> "polling", interval |-> device.interval, expires |-> device.expires,
                   wake |-> device.wake, last |-> device.last, asked |-> device.asked,
                   slept |-> device.slept, outcome |-> device.outcome]
    BY <1>1, <1>3 DEF Rest, GrantFormed
  <2>2. GrantFormed(device')
    BY ONLY <2>1 DEF GrantFormed
  <2>3. /\ device'.pc = "polling" /\ device'.interval = device.interval
        /\ device'.expires = device.expires /\ device'.wake = device.wake
        /\ device'.last = device.last /\ device'.asked = device.asked
        /\ device'.slept = device.slept
    BY ONLY <2>1
  <2>4. GrantTyped(device')
    BY ONLY <1>1, <2>3 DEF GrantTyped
  <2>5. Paced(device', now)
    BY ONLY <1>1, <1>2, <1>3, <2>3 DEF Paced
  <2> QED BY <1>1, <2>2, <2>4, <2>5 DEF DeviceInv
<1>4. CASE ~(now >= device.expires)
  <2>1. PICK w : w = AtMost(now + device.interval, device.expires)
    OBVIOUS
  <2>2. w \in Nat /\ (w >= device.expires \/ w >= device.last + device.interval)
    BY ONLY <1>1, <2>1 DEF AtMost, GrantTyped, Paced
  <2>3. device' = [pc |-> "asleep", interval |-> device.interval, expires |-> device.expires,
                   wake |-> w, last |-> device.last, asked |-> device.asked,
                   slept |-> TRUE, outcome |-> device.outcome]
    BY <1>1, <1>4, <2>1 DEF Rest, GrantFormed
  <2>4. GrantFormed(device')
    BY ONLY <2>3 DEF GrantFormed
  <2>5. /\ device'.pc = "asleep" /\ device'.interval = device.interval
        /\ device'.expires = device.expires /\ device'.wake = w
        /\ device'.last = device.last /\ device'.asked = device.asked
        /\ device'.slept = TRUE
    BY ONLY <2>3
  <2>6. GrantTyped(device')
    BY ONLY <1>1, <2>2, <2>5 DEF GrantTyped
  <2>7. Paced(device', now)
    BY ONLY <1>1, <1>2, <2>2, <2>5 DEF Paced
  <2> QED BY <1>1, <2>4, <2>6, <2>7 DEF DeviceInv
<1> QED BY <1>3, <1>4

(* The timer has run: an interval has passed, or the grant is over.        *)
LEMMA Wakes ==
    ASSUME DeviceInv, Wake
    PROVE  DeviceInv'
<1>1. /\ GrantFormed(device) /\ GrantTyped(device) /\ Paced(device, now)
      /\ now' = now /\ now \in 0..MaxTime /\ now \in Nat
      /\ device.pc = "asleep" /\ now >= device.wake
  BY DEF DeviceInv, Wake
<1>2. CASE now >= device.expires
  BY <1>1, <1>2, DeviceEnds DEF Wake
<1>3. CASE ~(now >= device.expires)
  <2>1. device.slept /\ now >= device.last + device.interval /\ device.last < device.expires
    BY ONLY <1>1, <1>3 DEF Paced, GrantTyped
  <2>2. device' = [pc |-> "polling", interval |-> device.interval, expires |-> device.expires,
                   wake |-> device.wake, last |-> device.last, asked |-> device.asked,
                   slept |-> device.slept, outcome |-> device.outcome]
    BY <1>1, <1>3 DEF Wake, GrantFormed
  <2>3. GrantFormed(device')
    BY ONLY <2>2 DEF GrantFormed
  <2>4. /\ device'.pc = "polling" /\ device'.interval = device.interval
        /\ device'.expires = device.expires /\ device'.wake = device.wake
        /\ device'.last = device.last /\ device'.asked = device.asked
        /\ device'.slept = device.slept
    BY ONLY <2>2
  <2>5. GrantTyped(device')
    BY ONLY <1>1, <2>4 DEF GrantTyped
  <2>6. Paced(device', now)
    BY ONLY <1>1, <2>1, <2>4 DEF Paced
  <2> QED BY <1>1, <2>3, <2>5, <2>6 DEF DeviceInv
<1> QED BY <1>2, <1>3

(* One poll (Poll's loop): a slow_down lengthens the interval with what is *)
(* asked for, up to the limit.                                             *)
LEMMA Polls ==
    ASSUME DeviceInv, NEW a, Polled(a)
    PROVE  DeviceInv'
<1>1. /\ GrantFormed(device) /\ GrantTyped(device) /\ Paced(device, now)
      /\ now' = now /\ now \in 0..MaxTime /\ now \in Nat
  BY DEF DeviceInv, Polled
<1>2. CASE \E code : End(code)
  BY <1>1, <1>2, DeviceEnds
<1>3. ASSUME NEW asked, NEW interval,
             \/ asked = device.asked /\ interval = device.interval
             \/ /\ asked = device.asked + SlowDown
                /\ interval = AtMost(device.interval + SlowDown, MaxSlowDown),
             device' = [device EXCEPT !.pc = "top", !.last = now, !.asked = asked,
                                      !.interval = interval]
      PROVE  DeviceInv'
  <2>1. asked \in Nat /\ interval \in Nat /\ interval >= AtMost(asked, MaxSlowDown)
    BY <1>1, <1>3, TimesAssumption DEF AtMost, GrantTyped
  <2>2. device' = [pc |-> "top", interval |-> interval, expires |-> device.expires,
                   wake |-> device.wake, last |-> now, asked |-> asked,
                   slept |-> device.slept, outcome |-> device.outcome]
    BY <1>1, <1>3 DEF GrantFormed
  <2>3. GrantFormed(device')
    BY <2>2 DEF GrantFormed
  <2>4. /\ device'.pc = "top" /\ device'.interval = interval /\ device'.asked = asked
        /\ device'.expires = device.expires /\ device'.last = now
        /\ device'.wake = device.wake /\ device'.slept = device.slept
    BY <2>2
  <2>5. GrantTyped(device')
    BY <1>1, <2>1, <2>4 DEF GrantTyped
  <2>6. Paced(device', now)
    BY <1>1, <2>4 DEF Paced
  <2> QED BY <1>1, <2>3, <2>5, <2>6 DEF DeviceInv
<1>4. CASE ~\E code : End(code)
  <2>1. PICK slow \in BOOLEAN :
          device' = [device EXCEPT !.pc = "top", !.last = now,
                       !.asked = IF slow THEN @ + SlowDown ELSE @,
                       !.interval = IF slow THEN AtMost(@ + SlowDown, MaxSlowDown) ELSE @]
    <3> DEFINE res  == resultFromToken(postForm(TRUE, a), None)
               slow == ~res.ok /\ res.code = "slow_down"
    <3>1. slow \in BOOLEAN
      OBVIOUS
    <3>2. \/ \E code : End(code)
          \/ device' = [device EXCEPT !.pc = "top", !.last = now,
                          !.asked = IF slow THEN @ + SlowDown ELSE @,
                          !.interval = IF slow THEN AtMost(@ + SlowDown, MaxSlowDown) ELSE @]
      BY DEF Polled
    <3> HIDE DEF slow
    <3> QED BY ONLY <1>4, <3>1, <3>2
  <2>2. CASE slow
    BY <1>3, <2>1, <2>2
  <2>3. CASE ~slow
    BY <1>3, <2>1, <2>3
  <2> QED BY <2>2, <2>3
<1> QED BY <1>2, <1>4

(* Every step of the device grant keeps the invariant.                     *)
LEMMA DeviceSteps ==
    ASSUME DeviceInv, DeviceFlow \/ Tick
    PROVE  DeviceInv'
<1>1. CASE Tick
  <2>1. GrantFormed(device) /\ GrantTyped(device) /\ Paced(device, now) /\ now \in 0..MaxTime
    BY DEF DeviceInv
  <2>2. device' = device /\ now' \in 0..MaxTime /\ now' = now + 1
    BY <1>1, <2>1, TimesAssumption DEF Tick
  <2>3. Paced(device, now + 1)
    BY <2>1 DEF Paced, GrantTyped
  <2> QED BY <2>1, <2>2, <2>3 DEF DeviceInv
<1>2. CASE CancelDevice \/ BeginDeviceFails("flow_insecure")
  BY <1>2, DeviceEnds DEF CancelDevice, BeginDeviceFails
<1> QED BY <1>1, <1>2, Rounds, Rests, Wakes, DeviceBegins, Polls DEF DeviceFlow

-----------------------------------------------------------------------------
(* The theorems.                                                           *)

(* Every process starts without a grant, and nothing is stored.            *)
LEMMA Initially ==
    ASSUME GrantsInit
    PROVE  IInv
<1>1. DeviceInv
  BY TimesAssumption DEF GrantsInit, DeviceInit, DeviceInv, NoGrant, AtMost, GrantFormed,
     GrantTyped, Paced
<1>2. LoginInv
  <2>1. PICK call \in Calls : session = [s \in Sessions |-> Called(call[s])]
    BY DEF GrantsInit, Init
  <2>2. ASSUME NEW s \in Sessions
        PROVE  Sane(codes, rows, s, session[s])
    <3> DEFINE r == session[s]
    <3>1. r = Called(call[s])
      BY <2>1
    <3>2. /\ r.pc = "called" /\ r.port = None /\ r.grant = None /\ r.onboard = 0
          /\ r.profile = NoProfile
      BY <3>1 DEF Called
    <3>3. Formed(r)
      BY <3>1 DEF Formed, Called
    <3> HIDE DEF r
    <3>4. Typed(r)
      BY <3>2, LoginAssumption DEF Typed, Before, NoProfile
    <3>5. HoldsGrant(codes, s, r) /\ EndsHonest(rows, r)
      BY <3>2 DEF HoldsGrant, EndsHonest, After
    <3>6. Sane(codes, rows, s, r)
      BY <3>3, <3>4, <3>5 DEF Sane
    <3> QED BY <3>6 DEF r
  <2>3. session = [s \in Sessions |-> session[s]]
    BY <2>1
  <2>4. OneCode(codes, consents) /\ consents \subseteq Sessions
    BY DEF GrantsInit, Init, OneCode
  <2>5. Rowed(rows)
    BY DEF GrantsInit, Init, Rowed
  <2>6. strays \in 0..MaxStrays
    BY LoginAssumption DEF GrantsInit, Init
  <2> QED BY <2>2, <2>3, <2>4, <2>5, <2>6 DEF LoginInv
<1> QED BY <1>1, <1>2 DEF IInv

(* A command and a caller of the contract do not touch each other's state. *)
LEMMA Stays ==
    ASSUME IInv, [GrantsNext]_allVars
    PROVE  IInv'
<1>1. CASE CommandNext
  <2>1. LoginInv'
    BY <1>1, LoginSteps DEF IInv, CommandNext
  <2>2. DeviceInv'
    BY <1>1 DEF IInv, CommandNext, deviceVars, DeviceInv
  <2> QED BY <2>1, <2>2 DEF IInv
<1>2. CASE ContractNext
  <2>1. DeviceInv'
    BY <1>2, DeviceSteps DEF IInv, ContractNext
  <2>2. LoginInv'
    BY <1>2 DEF IInv, ContractNext, vars, LoginInv
  <2> QED BY <2>1, <2>2 DEF IInv
<1>3. CASE UNCHANGED allVars
  BY <1>3 DEF allVars, vars, deviceVars, IInv, LoginInv, DeviceInv
<1> QED BY <1>1, <1>2, <1>3 DEF GrantsNext

(* The logins and the device grant keep the invariant above, whoever       *)
(* answers which URL, in whatever order callbacks, exchanges and failures  *)
(* come (app/login.go, auth/oauth/pkce.go, device_code.go).                *)
THEOREM Invariance == Spec => []IInv
<1>1. GrantsInit => IInv
  BY Initially
<1>2. IInv /\ [GrantsNext]_allVars => IInv'
  BY Stays
<1> QED BY <1>1, <1>2, PTL DEF Spec

(* Both flows have their types.                                            *)
THEOREM TypeCorrect == Spec => [](TypeOK /\ DeviceTypeOK)
<1>1. IInv => TypeOK /\ DeviceTypeOK
  BY DEF IInv, LoginInv, DeviceInv, GrantTyped, DeviceTypeOK, Sane, Typed, Before, After,
     TypeOK
<1> QED BY <1>1, Invariance, PTL

(* A login that says it succeeded has its tokens in the vault, under the   *)
(* account that granted them at its own URL; and a grant that a session    *)
(* had is lost only by the vault or the end of the process (persistLogin,  *)
(* oauthCredentialID, postExchange).                                       *)
THEOREM LoginsAreHonest == Spec => []LoginHonest
<1>1. IInv => LoginStored
  <2>1. SUFFICES ASSUME IInv, NEW s \in Sessions, LoggedIn(s)
                 PROVE  /\ session[s].result.id \in DOMAIN rows
                        /\ rows[session[s].result.id].profile.account
                             = session[s].profile.account
                        /\ rows[session[s].result.id].profile.account # None
                             => rows[session[s].result.id].grant
                                  = rows[session[s].result.id].profile.account
                        /\ \E c \in codes :
                             c.for = s /\ c.account = session[s].grant /\ c.spent
    BY DEF LoginStored
  <2>2. Sane(codes, rows, s, session[s]) /\ Rowed(rows)
    BY <2>1 DEF IInv, LoginInv
  <2>3. /\ session[s].result.id = session[s].profile.account
        /\ session[s].result.id \in DOMAIN rows /\ session[s].grant # None
    BY <2>1, <2>2 DEF LoggedIn, EndsHonest, Sane
  <2> QED BY <2>2, <2>3 DEF HoldsGrant, Granted, Rowed, Sane
<1>2. IInv => GrantKept
  BY DEF IInv, LoginInv, Sane, EndsHonest, GrantKept
<1> QED BY <1>1, <1>2, Invariance, PTL DEF LoginHonest

(* A poll of a device grant that has slept comes no sooner than the        *)
(* provider asked for, up to the limit of the back-off; one that has not   *)
(* slept comes when the grant has ended between the two readings of the    *)
(* clock, and no round is entered after an answer at the end or later      *)
(* (Poll and sleep, device_code.go:203, 312-318).                          *)
THEOREM NeverHurried == Spec => []PollsUnhurried
<1>1. IInv => PollsUnhurried
  <2> SUFFICES ASSUME IInv PROVE PollsUnhurried
    OBVIOUS
  <2>1. GrantTyped(device) /\ Paced(device, now) /\ now \in Nat
    BY DEF IInv, DeviceInv
  <2>2. ASSUME device.pc = "polling", device.slept
        PROVE  now - device.last >= AtMost(device.asked, MaxSlowDown)
    <3>1. now >= device.last + device.interval
      BY <2>1, <2>2 DEF Paced
    <3> QED BY <2>1, <3>1, TimesAssumption DEF GrantTyped, AtMost
  <2>3. ASSUME device.pc = "polling", ~device.slept
        PROVE  now >= device.expires
    BY <2>1, <2>3 DEF Paced
  <2>4. device.pc \in {"resting", "asleep", "polling"} => device.last < device.expires
    BY <2>1 DEF Paced
  <2> QED BY <2>2, <2>3, <2>4 DEF PollsUnhurried
<1> QED BY <1>1, Invariance, PTL
=============================================================================
