------------------------------- MODULE Login --------------------------------
(***************************************************************************)
(* `heimdall login` (app/login.go, auth/oauth/pkce.go, antigravity.go): a  *)
(* process binds a port, prints an authorization URL and waits until the   *)
(* browser comes back with a code, or takes the code it was called with;   *)
(* it exchanges the code, asks who the account is and what it may do, and  *)
(* seals the tokens in the vault.                                          *)
(*                                                                         *)
(* The browser and the provider are the environment. A state, a verifier   *)
(* and a URL are known by the session that drew them. What a provider      *)
(* issues for a URL names that session and the account that consented.     *)
(***************************************************************************)
EXTENDS OAuth, FiniteSets

CONSTANTS
    Sessions,       \* processes that log in
    Ports,          \* ephemeral ports
    Accounts,       \* the accounts of the provider
    Calls,          \* what the sessions are called with
    OnboardAttempts,
    MaxStrays,      \* bound: requests of no login on a bound port
    MayFail         \* whether calls, the vault and processes may fail

ASSUME LoginAssumption ==
    /\ None \notin Sessions \cup Ports \cup Accounts
    /\ OnboardAttempts \in Nat \ {0} /\ MaxStrays \in Nat /\ MayFail \in BOOLEAN

VARIABLES
    session,    \* the processes
    requests,   \* requests of browsers on their way to a port
    consents,   \* URLs a user has answered
    codes,      \* codes issued, and whether they are spent
    rows,       \* the vault, by credential id
    strays      \* the number of stray requests so far

vars == <<session, requests, consents, codes, rows, strays>>

(* A session: the provider and the flags it was called with, its port, the *)
(* two channels of the callback server, the code it exchanges, what it has *)
(* been granted, the account's profile as far as it is known, and the end. *)
NoProfile == [account |-> None, project |-> FALSE]
Called(offer) ==
    [pc |-> "called", offer |-> offer, port |-> None, codeCh |-> None, errCh |-> None,
     code |-> None, grant |-> None, profile |-> NoProfile, onboard |-> 0, result |-> None]

TypeOK ==
    /\ \A s \in Sessions :
        /\ session[s].pc \in {"called", "begun", "waiting", "exchanging", "profile", "discover",
                              "persist", "ended"}
        /\ session[s].port \in Ports \cup {None}
        /\ session[s].onboard \in 0..OnboardAttempts
    /\ consents \subseteq Sessions
    /\ strays \in 0..MaxStrays

Init ==
    /\ \E call \in Calls : session = [s \in Sessions |-> Called(call[s])]
    /\ requests = {} /\ consents = {} /\ codes = {}
    /\ rows = <<>>
    /\ strays = 0

Update(s, new) == session' = [session EXCEPT ![s] = new]

(* A process that has ended holds nothing: Complete closes the flow, and   *)
(* the system what is left; its onboarding ends with it.                   *)
Ended_KeepsPort(self, result) ==      \* Mutant: Complete forgets to close the flow.
    [self EXCEPT !.pc = "ended", !.onboard = 0, !.codeCh = None, !.errCh = None, !.result = result]
Ended(self, result) == [self EXCEPT !.pc = "ended", !.port = None, !.onboard = 0,
                                    !.codeCh = None, !.errCh = None, !.result = result]
Fail(s, code) ==
    Update(s, [Ended(session[s], [ok |-> FALSE, code |-> code]) EXCEPT !.profile = NoProfile])

-----------------------------------------------------------------------------
(* BeginLogin: the checks in their order, the flow, and its Begin.         *)
Refusal(offer) ==
    LET flow == Build(offer.desc, offer.hasSecret) IN
    IF ~offer.desc.known THEN "not_found"
    ELSE IF "oauth" \notin offer.desc.modes THEN "login_not_supported"
    ELSE IF ~offer.hasKEK THEN "secret_missing"
    ELSE IF flow \in {"pending_endpoints", "client_secret_missing", "invalid"} THEN flow
    ELSE IF flow \notin Interactive THEN "flow_insecure"
    ELSE None

Refused(s) ==
    /\ session[s].pc = "called" /\ Refusal(session[s].offer) # None
    /\ Fail(s, Refusal(session[s].offer))
    /\ UNCHANGED <<requests, consents, codes, rows, strays>>

(* PKCEFlow.Begin: the port is bound before the URL names it. A code that  *)
(* `--code` pastes is there when the process is called: it was issued for  *)
(* the URL of another one.                                                 *)
Bound(port) == \E s \in Sessions : session[s].port = port
BeginLogin(s) ==
    /\ session[s].pc = "called" /\ Refusal(session[s].offer) = None
    /\ \E port \in {q \in Ports : ~Bound(q)},
          code \in IF session[s].offer.pasted THEN {c.for : c \in codes} ELSE {None} :
         Update(s, [session[s] EXCEPT !.pc = "begun", !.port = port, !.code = code])
    /\ UNCHANGED <<requests, consents, codes, rows, strays>>

(* The port cannot be bound, or there is no entropy.                       *)
BeginFails(s) ==
    /\ MayFail /\ session[s].pc = "called" /\ Refusal(session[s].offer) = None
    /\ Fail(s, "refresh_failed")
    /\ UNCHANGED <<requests, consents, codes, rows, strays>>

-----------------------------------------------------------------------------
(* The user and the browser. Whoever sees the URL of a session may answer  *)
(* it once, as one of the accounts, now or when the session is gone; the   *)
(* provider redirects to the port that the URL names.                      *)
Request(port, state, code, error) ==
    [port |-> port, state |-> state, code |-> code, error |-> error]

Issued(s, account) == [for |-> s, account |-> account, spent |-> FALSE]

Answer(s) ==
    /\ session[s].port # None /\ s \notin consents
    /\ consents' = consents \cup {s}
    /\ \/ \E account \in Accounts :
            /\ codes' = codes \cup {Issued(s, account)}
            /\ requests' = requests \cup {Request(session[s].port, s, s, None)}
       \/ /\ requests' = requests \cup {Request(session[s].port, s, None, "access_denied")}
          /\ UNCHANGED codes
    /\ UNCHANGED <<session, rows, strays>>

(* A request of nobody's login: a favicon, a reloaded tab without its code.*)
Stray(port) ==
    /\ strays < MaxStrays /\ Bound(port)
    /\ strays' = strays + 1
    /\ requests' = requests \cup {Request(port, None, None, None)}
    /\ UNCHANGED <<session, consents, codes, rows>>

-----------------------------------------------------------------------------
(* AwaitCallback. The server answers each request and leaves a code or an  *)
(* error for the waiting login; one of each finds room. It serves until    *)
(* the exchange is over.                                                   *)
AwaitCallback(s) ==
    /\ session[s].pc = "begun" /\ ~session[s].offer.pasted
    /\ Update(s, [session[s] EXCEPT !.pc = "waiting"])
    /\ UNCHANGED <<requests, consents, codes, rows, strays>>

Serving(s) == \/ session[s].pc = "waiting"
              \/ session[s].pc = "exchanging" /\ ~session[s].offer.pasted

Verdict(s, q) ==
    IF q.state # s THEN "state_mismatch"
    ELSE IF q.error # None THEN mapOAuthError(q.error).code
    ELSE IF q.code = None THEN "state_mismatch"
    ELSE "code"

Handle(s, q) ==
    /\ Serving(s) /\ q \in requests /\ q.port = session[s].port
    /\ requests' = requests \ {q}
    /\ IF Verdict(s, q) = "code"
       THEN IF session[s].codeCh = None
            THEN Update(s, [session[s] EXCEPT !.codeCh = q.code])
            ELSE UNCHANGED session
       ELSE IF session[s].errCh = None
            THEN Update(s, [session[s] EXCEPT !.errCh = Verdict(s, q)])
            ELSE UNCHANGED session
    /\ UNCHANGED <<consents, codes, rows, strays>>

(* Nobody listens on the port any more.                                    *)
Unreachable(q) ==
    /\ q \in requests /\ ~Bound(q.port)
    /\ requests' = requests \ {q}
    /\ UNCHANGED <<session, consents, codes, rows, strays>>

(* The select: of what is ready any may be taken. The timer always comes.  *)
ReceiveCode(s) ==
    /\ session[s].pc = "waiting" /\ session[s].codeCh # None
    /\ Update(s, [session[s] EXCEPT !.pc = "exchanging", !.code = session[s].codeCh,
                    !.codeCh = None])
    /\ UNCHANGED <<requests, consents, codes, rows, strays>>

ReceiveError(s) ==
    /\ session[s].pc = "waiting" /\ session[s].errCh # None
    /\ Fail(s, session[s].errCh)
    /\ UNCHANGED <<requests, consents, codes, rows, strays>>

Timeout(s) ==
    /\ session[s].pc = "waiting"
    /\ Fail(s, "callback_timeout")
    /\ UNCHANGED <<requests, consents, codes, rows, strays>>

(* ExchangeCode: a pasted code is not waited for.                          *)
ExchangeCode(s) ==
    /\ session[s].pc = "begun" /\ session[s].offer.pasted
    /\ Update(s, [session[s] EXCEPT !.pc = "exchanging"])
    /\ UNCHANGED <<requests, consents, codes, rows, strays>>

-----------------------------------------------------------------------------
(* The exchange: the code with the session's own verifier and redirect.    *)
(* The provider honours a code once, for the URL it was issued for.        *)
Honoured(s) == \E c \in codes : c.for = session[s].code /\ c.for = s /\ ~c.spent
Spend(s) == {IF c.for = session[s].code THEN [c EXCEPT !.spent = TRUE] ELSE c : c \in codes}

exchange(s, answer, codesAfter) ==
    LET res == resultFromToken(postForm(TRUE, answer), None)
        self == session[s]
    IN  /\ self.pc = "exchanging"
        /\ codes' = codesAfter
        /\ IF res.ok
           THEN Update(s, [self EXCEPT !.pc = "profile", !.grant = res.access,
                             !.port = IF self.offer.pasted THEN @ ELSE None])
           ELSE Fail(s, res.code)
        /\ UNCHANGED <<requests, consents, rows, strays>>

Account(s) == (CHOOSE c \in codes : c.for = session[s].code).account
Exchanged(s) ==
    IF Honoured(s) THEN exchange(s, Grants(Account(s), "rt"), Spend(s))
    ELSE exchange(s, Refuses("invalid_grant"), codes)

(* The call is lost before or after the provider has honoured the code.    *)
ExchangeLost(s) ==
    MayFail /\ \E after \in {codes, IF Honoured(s) THEN Spend(s) ELSE codes} :
        exchange(s, Sent("lost"), after)

-----------------------------------------------------------------------------
(* postExchange of the Antigravity flow; every step may fail, none of them *)
(* the login. The generic flow has no such steps.                          *)
Discovering(s) == Build(session[s].offer.desc, session[s].offer.hasSecret) = "antigravity"

fetchUserInfo_Fatal(s) ==       \* Mutant: a profile that cannot be had fails the login.
    /\ session[s].pc = "profile"
    /\ \/ /\ Discovering(s)
          /\ Update(s, [session[s] EXCEPT !.pc = "discover", !.profile.account = session[s].grant])
       \/ MayFail /\ Fail(s, "refresh_failed")
    /\ UNCHANGED <<requests, consents, codes, rows, strays>>
fetchUserInfo(s) ==
    /\ session[s].pc = "profile"
    /\ \E known \in IF Discovering(s) THEN {TRUE, ~MayFail} ELSE {FALSE} :
         Update(s, [session[s] EXCEPT !.pc = "discover",
                      !.profile.account = IF known THEN session[s].grant ELSE None])
    /\ UNCHANGED <<requests, consents, codes, rows, strays>>

(* loadCodeAssist: the project, if any; with one the onboarding starts     *)
(* beside the login.                                                       *)
loadCodeAssist(s) ==
    /\ session[s].pc = "discover"
    /\ \E project \in IF Discovering(s) THEN BOOLEAN ELSE {FALSE} :
         Update(s, [session[s] EXCEPT !.pc = "persist", !.profile.project = project,
                      !.onboard = IF project THEN OnboardAttempts ELSE 0])
    /\ UNCHANGED <<requests, consents, codes, rows, strays>>

(* One attempt of the onboarding: done, or one less.                       *)
Onboard(s) ==
    /\ session[s].onboard > 0
    /\ \E left \in {0, session[s].onboard - 1} :
         Update(s, [session[s] EXCEPT !.onboard = left])
    /\ UNCHANGED <<requests, consents, codes, rows, strays>>

-----------------------------------------------------------------------------
(* persistLogin. The id of the row is made of the account's identity, or   *)
(* of no identity at all when there is none.                               *)
oauthCredentialID_Provider(profile) == None       \* Mutant: one row for the provider.
oauthCredentialID(profile) == profile.account

(* Both tokens are sealed into that row, over what it held; the command    *)
(* prints whom it has logged in, and ends.                                 *)
upsertOAuthBlob(s, id) ==
    rows' = [i \in DOMAIN rows \cup {id} |->
               IF i = id THEN [grant |-> session[s].grant, profile |-> session[s].profile]
               ELSE rows[i]]
persistLogin(s) ==
    LET id == oauthCredentialID(session[s].profile) IN
    /\ session[s].pc = "persist"
    /\ upsertOAuthBlob(s, id)
    /\ Update(s, Ended(session[s], [ok |-> TRUE, id |-> id]))
    /\ UNCHANGED <<requests, consents, codes, strays>>

StoreFails(s) ==
    /\ MayFail /\ session[s].pc = "persist"
    /\ Fail(s, "store_failed")
    /\ UNCHANGED <<requests, consents, codes, rows, strays>>

(* The user interrupts the command.                                        *)
Crash(s) ==
    /\ MayFail /\ session[s].pc \notin {"called", "ended"}
    /\ Fail(s, "killed")
    /\ UNCHANGED <<requests, consents, codes, rows, strays>>

(* `login --status`: the first row of the provider, and its account.       *)
LoginStatus == [loggedIn |-> DOMAIN rows # {}, accounts |-> DOMAIN rows]

-----------------------------------------------------------------------------
Step(s) ==
    \/ Refused(s) \/ BeginLogin(s) \/ BeginFails(s) \/ AwaitCallback(s)
    \/ ReceiveCode(s) \/ ReceiveError(s) \/ Timeout(s) \/ ExchangeCode(s)
    \/ Exchanged(s) \/ ExchangeLost(s) \/ fetchUserInfo(s) \/ loadCodeAssist(s)
    \/ persistLogin(s) \/ StoreFails(s)

LoginFlow ==
    \/ \E s \in Sessions : Step(s) \/ Answer(s) \/ Onboard(s) \/ Crash(s)
    \/ \E s \in Sessions, q \in requests : Handle(s, q)
    \/ \E q \in requests : Unreachable(q)
    \/ \E port \in Ports : Stray(port)
=============================================================================
