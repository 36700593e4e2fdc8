------------------------------- MODULE OAuth --------------------------------
(***************************************************************************)
(* What the OAuth flows share (auth/oauth/oauth.go, auth/factory.go): how  *)
(* a call of a provider's endpoint ends, which error it becomes, what of   *)
(* an answer is kept, and which flow a provider gets.                      *)
(***************************************************************************)
EXTENDS Integers

CONSTANT None       \* no value

(* An answer of an endpoint: refused by the policy before it is sent,      *)
(* lost, a status without an OAuth error, an OAuth error, a body that is   *)
(* no JSON, or a token.                                                    *)
Sent(kind)           == [kind |-> kind, error |-> None, access |-> None, refresh |-> None]
Refuses(e)           == [Sent("error") EXCEPT !.error = e]
Grants(access, rt)   == [Sent("token") EXCEPT !.access = access, !.refresh = rt]

Failure(code, retry) == [ok |-> FALSE, code |-> code, retry |-> retry]

(* The endpoint's error by what the caller should do about it.             *)
mapOAuthError(e) ==
    CASE e = "authorization_pending" -> Failure("pending", TRUE)
      [] e = "slow_down"             -> Failure("slow_down", TRUE)
      [] e = "access_denied"         -> Failure("denied", FALSE)
      [] e = "expired_token"         -> Failure("expired", FALSE)
      [] e \in {"invalid_grant", "invalid_client", "unauthorized_client"}
                                     -> Failure("credential_invalid", FALSE)
      [] e = "insufficient_scope"    -> Failure("scope_insufficient", FALSE)
      [] OTHER                       -> Failure("refresh_failed", TRUE)

networkError(a) == IF a.kind = "denied" THEN Failure("destination_denied", FALSE)
                   ELSE Failure("refresh_failed", TRUE)

(* doerFor: without an egress policy nothing is sent.                      *)
postForm(egress, a) ==
    IF ~egress THEN Failure("flow_insecure", FALSE)
    ELSE CASE a.kind \in {"denied", "lost", "status"} -> networkError(a)
           [] a.kind = "error"   -> mapOAuthError(a.error)
           [] a.kind = "garbled" -> Failure("refresh_failed", FALSE)
           [] a.kind = "token"   -> [ok |-> TRUE, answer |-> a]

(* A token without its access part is a failure; a refresh token that the  *)
(* answer does not bring is the one there was.                             *)
resultFromToken(posted, previous) ==
    IF ~posted.ok THEN posted
    ELSE IF posted.answer.access = None THEN Failure("refresh_failed", TRUE)
    ELSE [ok |-> TRUE, access |-> posted.answer.access,
          refresh |-> IF posted.answer.refresh # None THEN posted.answer.refresh ELSE previous]

-----------------------------------------------------------------------------
(* A provider as the factory knows it.                                     *)
Descriptor(known, modes, secret, device) ==
    [known |-> known, modes |-> modes, pending |-> FALSE, requiresSecret |-> secret,
     device |-> device]

(* FlowFactory.Build: OAuth before an API key; a confidential client needs *)
(* the operator's secret; a device endpoint comes before the browser.      *)
Build(desc, hasSecret) ==
    IF ~desc.known THEN "not_found"
    ELSE IF desc.pending THEN "pending_endpoints"
    ELSE IF "oauth" \in desc.modes
    THEN IF desc.requiresSecret
         THEN IF hasSecret THEN "antigravity" ELSE "client_secret_missing"
         ELSE IF desc.device THEN "device_flow" ELSE "pkce"
    ELSE IF "api_key" \in desc.modes THEN "key_flow" ELSE "invalid"

(* The flows that BeginLogin can complete: by a callback or a pasted code. *)
Interactive == {"antigravity", "pkce"}
=============================================================================
