-------------------------------- MODULE Calls --------------------------------
(***************************************************************************)
(* What one call of a provider comes to: whether an executor can be built  *)
(* for the stored credential (src/internal/providers, app.go), which error *)
(* the call ends with in each of the two dialects                          *)
(* (src/internal/executors, src/internal/executors/cloudcode), given what  *)
(* the upstream and the egress policy did (src/internal/egress).  The      *)
(* breaker sees nothing of a failure but this error.                       *)
(*                                                                         *)
(* Bodies, envelopes and headers are data.  The renewal of an expired      *)
(* OAuth token before the call is Refresh's: here the call is made with    *)
(* whatever is stored.  Calls go to the provider directly, without a proxy *)
(* from the process environment.                                           *)
(***************************************************************************)
EXTENDS Candidates

(* A provider as it is configured; one that is not registered has no       *)
(* dialect.  The address is what the host of its base URL stands for; only *)
(* a loopback literal can be opted in for.                                 *)
Services == {s \in [dialect       : {"openai", "cloudcode", "none"},
                    address       : {"public", "loopback", "private"},
                    allowLoopback : BOOLEAN,
                    images        : SUBSET Models] :
               s.allowLoopback => s.address = "loopback"}

(* A credential as it is stored.                                           *)
Modes  == {"none", "api_key", "oauth"}
Stored == [provider : Providers, mode : Modes,
           secret   : {"sealed", "lost", "garbled"}]

-----------------------------------------------------------------------------
(* The typed errors.                                                       *)

Error(s, r, ra) == [scope |-> s, retryable |-> r, retryAfter |-> ra]

NoError == Error("none", FALSE, 0)

ofRequest    == Error("Request", FALSE, 0)
ofCredential == Error("Credential", FALSE, 0)
ofProvider   == Error("Provider", FALSE, 0)
anOutage     == Error("Provider", TRUE, 0)

-----------------------------------------------------------------------------
(* Before the call.                                                        *)

authModes(s) == CASE s.dialect = "cloudcode" -> {"oauth"}
                  [] s.dialect = "openai"    -> {"api_key"}
                  [] OTHER                   -> {}

(* The executor is built for the candidate's provider and the loaded       *)
(* credential.                                                             *)
BuildExecutor(p, s, cred) ==
    IF s.dialect = "none" \/ cred.provider # p THEN ofRequest
    ELSE IF cred.mode \notin authModes(s)      THEN ofCredential
    ELSE NoError

(* The first thing a call does.  Only an OAuth secret has a form to keep.  *)
openCredential(cred) ==
    IF \/ cred.mode # "none" /\ cred.secret = "lost"
       \/ cred.mode = "oauth" /\ cred.secret = "garbled"
    THEN ofCredential ELSE NoError

(* The dial-time control: a loopback literal needs the provider's opt-in.  *)
DeniedIP(s) == \/ s.address = "private"
               \/ s.address = "loopback" /\ ~s.allowLoopback

-----------------------------------------------------------------------------
(* What happens to the call: the connection is never made or stalls, or    *)
(* the client goes away; a status that is not 2xx comes, perhaps with a    *)
(* hint when to return or with words ("capacity", "high traffic") that     *)
(* tell of an outage; or a 2xx whose body is cut off, too large or not     *)
(* what it should be.                                                      *)

Happenings == [fault  : {"none", "unreachable", "stalled", "cancelled",
                         "cut off", "too large", "garbled"},
               status : Nat, hint : Nat, busy : BOOLEAN]

Status(n) == [fault |-> "none", status |-> n, hint |-> 0, busy |-> FALSE]
Broken(f) == [Status(200) EXCEPT !.fault = f]

is2xx(h) == h.status \in 200..299

(* Mutant: a client that hangs up is an outage.                            *)
transportError_HangUp(s, h) == IF DeniedIP(s) THEN ofProvider ELSE anOutage

(* No response, or its body broke off.                                     *)
transportError(s, h) ==
    IF DeniedIP(s) \/ h.fault = "cancelled" THEN ofProvider ELSE anOutage

(* The OpenAI-compatible dialect reads the status; CloudCode the words too,*)
(* but 401 and 403 are to it errors like the others.                       *)
upstreamError(h) ==
    CASE h.status = 429                    -> Error("Credential", TRUE, h.hint)
      [] h.status \in {401, 403}           -> ofCredential
      [] h.status = 408 \/ h.status >= 500 -> anOutage
      [] OTHER                             -> ofRequest

mapHTTPError(h) ==
    IF h.status = 429                   THEN Error("Credential", TRUE, h.hint)
    ELSE IF h.status >= 500 \/ h.busy   THEN anOutage
    ELSE ofRequest

(* No request can be made, or no response comes.                           *)
noResponse(s, cred, h) ==
    IF openCredential(cred) # NoError THEN openCredential(cred)
    ELSE IF DeniedIP(s) \/ h.fault \in {"unreachable", "stalled", "cancelled"}
         THEN transportError(s, h)
    ELSE NoError

(* The OpenAI-compatible dialect hands a stream over unread, and relays    *)
(* whatever body it has read in full.                                      *)
DoStream(s, cred, h) ==
    LET e == noResponse(s, cred, h)
    IN  IF e = NoError /\ ~is2xx(h) THEN upstreamError(h) ELSE e

Do(s, cred, h) ==
    LET e == DoStream(s, cred, h)
    IN  IF e # NoError \/ h.fault \in {"none", "garbled"} THEN e
        ELSE IF h.fault = "cut off" THEN transportError(s, h) ELSE ofProvider

(* CloudCode reads an image even if a stream was asked for, and translates *)
(* what it reads: neither a part of a response nor something else will do. *)
(* (A request that it cannot translate ends as one with a status 400.)     *)
generate(s, cred, m, stream, h) ==
    LET e == noResponse(s, cred, h)
    IN  IF e # NoError          THEN e
        ELSE IF ~is2xx(h)       THEN mapHTTPError(h)
        ELSE IF h.fault = "none" \/ (stream /\ m \notin s.images) THEN NoError
        ELSE IF h.fault = "cut off" THEN transportError(s, h) ELSE ofProvider

(* The error a call of model m ends with, if any.                          *)
Call(s, cred, m, stream, h) ==
    CASE s.dialect = "cloudcode"           -> generate(s, cred, m, stream, h)
      [] s.dialect = "openai" /\ stream    -> DoStream(s, cred, h)
      [] s.dialect = "openai" /\ ~stream   -> Do(s, cred, h)
=============================================================================
