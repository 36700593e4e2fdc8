------------------------------- MODULE Grants -------------------------------
(***************************************************************************)
(* The OAuth grants as they are driven: by processes of the command line,  *)
(* which complete a login by the browser or by a pasted code, or by a      *)
(* caller of the AuthFlow contract, which polls for a device.              *)
(***************************************************************************)
EXTENDS Login, DeviceGrant

VARIABLE caller     \* given: "command" or "contract"

allVars == <<caller, vars, deviceVars>>

GrantsInit ==
    /\ caller \in {"command", "contract"}
    /\ Init /\ DeviceInit

CommandNext  == caller = "command"  /\ LoginFlow /\ UNCHANGED <<caller, deviceVars>>
ContractNext == caller = "contract" /\ (DeviceFlow \/ Tick) /\ UNCHANGED <<caller, vars>>

GrantsNext == CommandNext \/ ContractNext
Spec == GrantsInit /\ [][GrantsNext]_allVars

(* A process goes on while it has something to do; the wait for the        *)
(* callback has a timer, time passes and timers run.  Nothing is asked of  *)
(* the user, the browser and the onboarding, nor of the provider: a call   *)
(* waits for the headers of an answer with a timer (oauth.go:91-98), for   *)
(* its body without one (oauth.go:178, antigravity.go:185, 351), and the   *)
(* command's context has no deadline (cli.go:425).                         *)
Calling(s) == \/ session[s].pc = "exchanging"
              \/ session[s].pc \in {"profile", "discover"} /\ Discovering(s)

Command(s)  == caller = "command" /\ Step(s) /\ UNCHANGED <<caller, deviceVars>>
Polling     == ContractNext /\ (Round \/ Rest \/ Wake)
TimePasses  == ContractNext /\ Tick

FairSpec ==
    /\ Spec
    /\ \A s \in Sessions : WF_allVars(Command(s) /\ ~Calling(s))
    /\ WF_allVars(Polling) /\ WF_allVars(TimePasses)

-----------------------------------------------------------------------------
LoggedIn(s) == session[s].pc = "ended" /\ session[s].result.ok

(* The account that a command has reported as logged in is in the vault,   *)
(* with tokens that a user granted this command at its own URL, and stays  *)
(* there whoever logs in beside or after it (persistLogin,                 *)
(* oauthCredentialID, the state check of the callback).                    *)
LoginStored ==
    \A s \in Sessions : LoggedIn(s) =>
        /\ session[s].result.id \in DOMAIN rows
        /\ LET row == rows[session[s].result.id] IN
           /\ row.profile.account = session[s].profile.account
           /\ row.profile.account # None => row.grant = row.profile.account
        /\ \E c \in codes : c.for = s /\ c.account = session[s].grant /\ c.spent

(* What the user has granted is not lost to a call that only decorates the *)
(* login: once the tokens have arrived, only the vault or the end of the   *)
(* process keeps them from being stored (postExchange, app.Complete).      *)
GrantKept ==
    \A s \in Sessions :
        session[s].pc = "ended" /\ session[s].grant # None /\ ~session[s].result.ok
        => session[s].result.code \in {"store_failed", "killed"}

(* A login that says it succeeded has, and one that had its grant can fail *)
(* to store it only with the vault or the process.                         *)
LoginHonest == LoginStored /\ GrantKept

(* Whatever the user and the browser do, a login and a device grant come   *)
(* to an end, and a login gives its port back (AwaitCallback's timer,      *)
(* Poll's expiry, Complete's deferred close), unless it is for ever in a   *)
(* call of the provider: nothing else holds them up.                       *)
EveryGrantEnds ==
    /\ \A s \in Sessions :
         []<>~Calling(s) =>
           (session[s].pc = "begun" ~> (session[s].pc = "ended" /\ session[s].port = None))
    /\ []<>(device.pc # "polling") => (device.pc = "top" ~> device.pc = "ended")
=============================================================================
