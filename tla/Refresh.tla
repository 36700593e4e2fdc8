------------------------------ MODULE Refresh ------------------------------
(***************************************************************************)
(* Renewal of OAuth access tokens: requests in the executor whose token    *)
(* has expired (src/internal/executors/cloudcode/helpers.go) renew it      *)
(* through App.RefreshProvider (src/internal/app/login.go), the provider's *)
(* token endpoint (src/internal/auth/oauth) and the vault                  *)
(* (src/internal/store/credential_store.go), while the operator logs in    *)
(* and deletes credentials.                                                *)
(*                                                                         *)
(* One provider with several accounts.  A grant mints an access token and, *)
(* maybe, a refresh token; both bear the number of the grant.              *)
(***************************************************************************)
EXTENDS Integers, Sequences, FiniteSets

CONSTANTS
    Credentials,    \* accounts of the provider
    Requests,       \* executor calls in flight
    Rotates,        \* whether an exchange replaces the refresh token
    LoginGives,     \* whether a login returns a refresh token
    MayRefuse,      \* whether checks and reads may fail before the exchange
    MayLose,        \* whether an exchange's result may be lost
    MayRestart,     \* whether the daemon restarts
    MayLogin,       \* whether the operator logs in again
    MayDelete,      \* whether the operator deletes credentials
    MaxGrants,      \* bound: grants the provider makes
    None

ASSUME RotatesAssumption ==
    /\ Rotates \subseteq BOOLEAN /\ Rotates # {}
    /\ LoginGives \subseteq BOOLEAN /\ LoginGives # {}
ASSUME SwitchAssumption ==
    {MayRefuse, MayLose, MayRestart, MayLogin, MayDelete} \subseteq BOOLEAN
ASSUME MaxGrantsAssumption == MaxGrants \in Nat
ASSUME NoneAssumption ==
    /\ None \notin Credentials \cup Requests /\ None \notin Nat
    /\ None \notin [access : Nat, refresh : Nat \cup {None}]

VARIABLES
    vault,      \* the credentials table
    newest,     \* its rows in the order of List
    holder,     \* who holds each credential's RefreshLock
    call,       \* the renewal each request is in
    grants,     \* grants made
    live,       \* refresh tokens that the provider honours
    expired,    \* access tokens past their expiry less the leeway
    renewed,    \* history: access tokens that a renewal has replaced
    lost        \* history: credentials whose last exchange was lost

history == <<renewed, lost>>
vars == <<vault, newest, holder, call, grants, live, expired, history>>

Locks == INSTANCE CredentialLock WITH Ids <- Credentials, Procs <- Requests

Tokens == 1 .. MaxGrants
Rows   == [access : Tokens, refresh : Tokens \cup {None}]
Idle   == [pc |-> "idle", asked |-> None, held |-> None,
           target |-> None, before |-> None, row |-> None]
Calls  == [pc : {"idle", "resolved", "waiting", "locked", "exchanging",
                 "persisting", "fetching"},
           asked  : Credentials \cup {None},    \* the request's credential
           held   : Rows \cup {None},           \* as the Dispatcher read it
           target : Credentials \cup {None},    \* the credential renewed
           before : Tokens \cup {None},         \* its access token, unlocked
           row    : Rows \cup {None}]           \* re-read, or to persist

TypeOK ==
    /\ vault \in [Credentials -> Rows \cup {None}]
    /\ newest \in Seq(Credentials)
    /\ \A c \in Credentials :
         vault[c] # None <=> \E i \in DOMAIN newest : newest[i] = c
    /\ \A i, j \in DOMAIN newest : newest[i] = newest[j] => i = j
    /\ holder \in Locks!Holders
    /\ call \in [Requests -> Calls]
    /\ grants \in 0 .. MaxGrants
    /\ live \subseteq 1 .. grants
    /\ expired \subseteq 1 .. grants
    /\ renewed \subseteq 1 .. grants
    /\ lost \subseteq Credentials

Init ==
    /\ vault = [c \in Credentials |-> None]
    /\ newest = <<>>
    /\ Locks!Init
    /\ call = [r \in Requests |-> Idle]
    /\ grants = 0
    /\ live = {}
    /\ expired = {}
    /\ renewed = {}
    /\ lost = {}

(* The provider has room for one more grant beside those under way.        *)
room == grants + Cardinality({r \in Requests : call[r].pc # "idle"}) < MaxGrants

(* Upsert keeps the place of a row that exists and puts a new one first.   *)
Upsert(c, row) ==
    /\ vault' = [vault EXCEPT ![c] = row]
    /\ newest' = IF vault[c] = None THEN <<c>> \o newest ELSE newest

Goto(r, label) == call' = [call EXCEPT ![r].pc = label]

(* The request goes on with the credential it has (renewedCredential fails *)
(* open).                                                                  *)
Finish(r) == call' = [call EXCEPT ![r] = Idle]

Unlock(r) == Locks!Unlock(r, call[r].target)

-----------------------------------------------------------------------------
(* The Dispatcher hands the executor a credential that it has read.        *)
Take(r, c) ==
    /\ call[r].pc = "idle" /\ vault[c] # None /\ room
    /\ call' = [call EXCEPT ![r] = [Idle EXCEPT !.pc = "resolved",
                                                !.asked = c, !.held = vault[c]]]
    /\ UNCHANGED <<vault, newest, holder, grants, live, expired, history>>

(* A token that has not expired is presented as it is.                     *)
Skip(r) ==
    /\ call[r].pc = "resolved"
    /\ call[r].held.access \notin expired
    /\ Finish(r)
    /\ UNCHANGED <<vault, newest, holder, grants, live, expired, history>>

(* RefreshProvider renews the first credential of the provider in List.    *)
Begin(r) ==
    /\ call[r].pc = "resolved"
    /\ call[r].held.access \in expired
    /\ \/ /\ newest # <<>>
          /\ vault[newest[1]].refresh # None
          /\ call' = [call EXCEPT ![r].pc = "waiting",
                                  ![r].target = newest[1],
                                  ![r].before = vault[newest[1]].access]
       \/ newest = <<>> /\ Finish(r)
       \/ newest # <<>> /\ vault[newest[1]].refresh = None /\ Finish(r)
       \/ MayRefuse /\ Finish(r)
    /\ UNCHANGED <<vault, newest, holder, grants, live, expired, history>>

Lock(r) ==
    /\ call[r].pc = "waiting"
    /\ Locks!Lock(r, call[r].target)
    /\ Goto(r, "locked")
    /\ UNCHANGED <<vault, newest, grants, live, expired, history>>

GiveUp(r) ==
    /\ call[r].pc = "waiting"
    /\ MayRefuse
    /\ Finish(r)
    /\ UNCHANGED <<vault, newest, holder, grants, live, expired, history>>

(* Mutant: the row is read again but not compared with the first reading.  *)
Reread_NoCollapse(r) ==
    /\ call[r].pc = "locked"
    /\ \/ /\ vault[call[r].target] # None
          /\ call' = [call EXCEPT ![r].pc = "exchanging",
                                  ![r].row = vault[call[r].target]]
          /\ UNCHANGED holder
       \/ vault[call[r].target] = None /\ Finish(r) /\ Unlock(r)
    /\ UNCHANGED <<vault, newest, grants, live, expired, history>>

(* The row is read again under the lock: gone, changed, or as before.      *)
Reread(r) ==
    LET row == vault[call[r].target]
    IN  /\ call[r].pc = "locked"
        /\ \/ /\ row = None \/ MayRefuse
              /\ Finish(r) /\ Unlock(r)
           \/ /\ row # None /\ row.access # call[r].before
              /\ Goto(r, "fetching") /\ Unlock(r)
           \/ /\ row # None /\ row.access = call[r].before
              /\ call' = [call EXCEPT ![r].pc = "exchanging", ![r].row = row]
              /\ UNCHANGED holder
        /\ UNCHANGED <<vault, newest, grants, live, expired, history>>

(* The provider's side of an exchange that it accepts.                     *)
granted(r, rotates) ==
    /\ call[r].row.refresh \in live
    /\ grants' = grants + 1
    /\ live' = IF rotates
               THEN (live \ {call[r].row.refresh}) \cup {grants + 1} ELSE live

(* Mutant: the refresh token of the response is not stored.                *)
received_KeepsOld(r, rotates) ==
    [access |-> grants + 1, refresh |-> call[r].row.refresh]

(* A response without a refresh token leaves the stored one in use.        *)
received(r, rotates) ==
    [access  |-> grants + 1,
     refresh |-> IF rotates THEN grants + 1 ELSE call[r].row.refresh]

Exchange(r) ==
    /\ call[r].pc = "exchanging"
    /\ \E rotates \in Rotates :
         /\ granted(r, rotates)
         /\ call' = [call EXCEPT ![r].pc = "persisting",
                                 ![r].row = received(r, rotates)]
    /\ UNCHANGED <<vault, newest, holder, expired, history>>

(* invalid_grant, or a request that does not reach the provider.           *)
Fail(r) ==
    /\ call[r].pc = "exchanging"
    /\ call[r].row.refresh \notin live \/ MayRefuse
    /\ Finish(r) /\ Unlock(r)
    /\ UNCHANGED <<vault, newest, grants, live, expired, history>>

(* The provider answers and the answer does not arrive.                    *)
Lose(r) ==
    /\ MayLose
    /\ call[r].pc = "exchanging"
    /\ \E rotates \in Rotates : granted(r, rotates)
    /\ Finish(r) /\ Unlock(r)
    /\ lost' = lost \cup {call[r].target}
    /\ UNCHANGED <<vault, newest, expired, renewed>>

(* The result is sealed and upserted, or lost, and the lock released.      *)
Persist(r) ==
    LET c == call[r].target
    IN  /\ call[r].pc = "persisting"
        /\ \/ /\ Upsert(c, call[r].row)
              /\ Goto(r, "fetching")
              /\ renewed' = renewed \cup {call[r].before}
              /\ UNCHANGED lost
           \/ /\ MayLose
              /\ Finish(r)
              /\ lost' = lost \cup {c}
              /\ UNCHANGED <<vault, newest, renewed>>
        /\ Unlock(r)
        /\ UNCHANGED <<grants, live, expired>>

(* RefreshCredential reads the row of the credential it was asked for; the *)
(* executor presents it, or the one it had if it is gone.                  *)
Fetch(r) ==
    /\ call[r].pc = "fetching"
    /\ Finish(r)
    /\ UNCHANGED <<vault, newest, holder, grants, live, expired, history>>

-----------------------------------------------------------------------------
(* persistLogin upserts without the RefreshLock.                           *)
Login(c) ==
    /\ MayLogin \/ vault[c] = None
    /\ room
    /\ grants' = grants + 1
    /\ \E gives \in LoginGives :
         /\ Upsert(c, [access  |-> grants + 1,
                       refresh |-> IF gives THEN grants + 1 ELSE None])
         /\ live' = IF gives THEN live \cup {grants + 1} ELSE live
    /\ lost' = lost \ {c}
    /\ UNCHANGED <<holder, call, expired, renewed>>

Delete(c) ==
    /\ MayDelete
    /\ vault[c] # None
    /\ vault' = [vault EXCEPT ![c] = None]
    /\ \E i \in DOMAIN newest :
         /\ newest[i] = c
         /\ newest' = SubSeq(newest, 1, i - 1) \o SubSeq(newest, i + 1, Len(newest))
    /\ UNCHANGED <<holder, call, grants, live, expired, history>>

Expire(t) ==
    /\ t \in (1 .. grants) \ expired
    /\ expired' = expired \cup {t}
    /\ UNCHANGED <<vault, newest, holder, call, grants, live, history>>

Restart ==
    /\ MayRestart
    /\ holder' = [c \in Credentials |-> None]
    /\ call' = [r \in Requests |-> Idle]
    /\ lost' = lost \cup {call[r].target :
                          r \in {q \in Requests : call[q].pc = "persisting"}}
    /\ UNCHANGED <<vault, newest, grants, live, expired, renewed>>

Next ==
    \/ \E r \in Requests :
         \/ Skip(r) \/ Begin(r) \/ Lock(r) \/ GiveUp(r) \/ Reread(r)
         \/ Exchange(r) \/ Fail(r) \/ Lose(r) \/ Persist(r) \/ Fetch(r)
    \/ \E r \in Requests, c \in Credentials : Take(r, c)
    \/ \E c \in Credentials : Login(c) \/ Delete(c)
    \/ \E t \in Tokens : Expire(t)
    \/ Restart

Spec == Init /\ [][Next]_vars

-----------------------------------------------------------------------------
(* Unless a renewal is under way, or its result was lost since the last    *)
(* login, the refresh token in the vault is one that the provider still    *)
(* honours: rotation leaves no spent token behind, whatever logins and     *)
(* deletions come between (RefreshProvider, login.go:384-415).             *)
VaultLive ==
    \A c \in Credentials :
        /\ vault[c] # None /\ vault[c].refresh # None
        /\ holder[c] = None /\ c \notin lost
        => vault[c].refresh \in live

(* A request that found an access token which somebody has renewed since   *)
(* makes no exchange of its own: it observes the result (Collapsed,        *)
(* login.go:325-329, 390-403).                                             *)
SingleFlight ==
    [][\A r \in Requests :
         call[r].pc = "exchanging" /\ call'[r].pc = "persisting" =>
             call[r].before \notin renewed]_vars

(* Every way out of a renewal releases the lock: whoever holds it is       *)
(* between Lock and Unlock (login.go:384-415).                             *)
NoLockLeaks ==
    \A c \in Credentials :
        holder[c] # None =>
            /\ call[holder[c]].pc \in {"locked", "exchanging", "persisting"}
            /\ call[holder[c]].target = c

(* Whatever way a renewal ends, the credential is left usable: a token the *)
(* provider honours, and a lock that the next one can take.                *)
RenewalsLeaveUsable == TypeOK /\ VaultLive /\ NoLockLeaks
=============================================================================
