------------------------------- MODULE Access -------------------------------
(***************************************************************************)
(* Who may ask the daemon for what: the guards around every route, the     *)
(* management token and the client keys, the throttle of wrong tokens, the *)
(* spacing of rotations and the limiter of inference requests (app.Handler,*)
(* api/middleware, api/mgmt, store/clientkey_store.go, gates/security/     *)
(* ratelimit.go). Requests run beside each other and beside the processes  *)
(* of Startup, whose disk they share; the memory of the daemon dies with   *)
(* it.                                                                     *)
(***************************************************************************)
EXTENDS Startup

CONSTANTS
    Daemon,         \* the process that serves
    Requests,       \* slots for requests under way
    KeyIds,         \* client keys that may be issued
    LoginLimit, LoginWindow, RotationWindow,
    Rate, Interval  \* of the limiter, in requests and ticks

ASSUME AccessAssumption ==
    /\ Daemon \in Procs /\ KeyIds \subseteq Nat \ {0}
    /\ {LoginLimit, LoginWindow, RotationWindow, Rate, Interval} \subseteq Nat \ {0}
    /\ None \notin Nat /\ None \notin [kind : {"token", "key", "junk"}, n : Nat]
    /\ None \notin [failures : Nat, start : Nat, until : Nat \cup {None}]

VARIABLES
    keys,       \* the client_keys table: "none", "live" or "revoked"
    clock,      \* time
    request,    \* the requests under way
    entry,      \* the throttle's entry of the local peer, or None
    rotated,    \* when the last rotation was allowed, or None
    buckets,    \* the limiter's buckets
    failed,     \* history: when wrong tokens were recorded, since a right one
    admitted    \* history: when each bucket let a request through

memory    == <<request, entry, rotated, buckets, failed, admitted>>
accessVars == <<keys, clock, memory>>
allVars   == <<vars, accessVars>>

Config  == settings[Daemon]
Serving == pc[Daemon] \in {"ready", "rotating", "rewrite"}

(* A request: what the caller sends, where it is, and whose it turns out   *)
(* to be. The secret is a token, a key or neither; it comes in the         *)
(* Authorization header, with or without the scheme, or in one of its own. *)
Idle == [stage |-> "idle"]
Secret(kind, n) == [kind |-> kind, n |-> n]
Junk == Secret("junk", 0)

Presentable == {Junk} \cup {Secret("token", n) : n \in 1..drawn}
                      \cup {Secret("key", k) : k \in {i \in KeyIds : keys[i] # "none"}}
Dead(s) == CASE s.kind = "token" -> s.n # hash
             [] s.kind = "key"   -> keys[s.n] # "live"
             [] OTHER            -> TRUE

Mgmt(q)       == q.route \in {"mgmt/read", "mgmt/rotate", "mgmt/create-key", "mgmt/revoke-key",
                              "mgmt/add-credential", "mgmt/delete-credential", "mgmt/unknown"}
Inference(q)  == q.route \in {"v1/chat", "v1/models", "v1/unknown"}
isMutating(q) == q.method \in {"POST", "DELETE"}

extractToken(q) ==
    IF q.authorization # "none" THEN q.secret
    ELSE IF q.header = "x-management-token" THEN q.secret ELSE None
ExtractClientKey(q) ==
    CASE q.authorization = "bearer" -> q.secret
      [] q.authorization = "other"  -> None
      [] OTHER -> IF q.header = "x-api-key" THEN q.secret ELSE None

-----------------------------------------------------------------------------
(* The guards in the order of Handler, each around every route.            *)
Pass == "pass"

LocalOnly(q) == IF q.peer = "loopback" THEN Pass ELSE "local_only"

(* A host is a kind of name: loopback, the configured one, another.        *)
hostAllowlist(c) ==
    {Value(c, Plain("security.host_allowlist"))}
    \cup (IF IsOn(c, Plain("server.allow_remote"))
          THEN {Value(c, Plain("server.host"))} \ {"", "any"} ELSE {})
HostGuard(q) ==
    IF q.host # "" /\ (IsLoopback(q.host) \/ q.host \in hostAllowlist(Config))
    THEN Pass ELSE "host_invalid"

ConfiguredOrigin(q) == q.origin = Value(Config, Plain("security.cors_allowed_origins"))
CORS(q) ==
    IF Inference(q) /\ q.origin # "" /\ q.method = "OPTIONS"
    THEN IF ConfiguredOrigin(q) THEN "preflight_ok" ELSE "preflight_refused"
    ELSE Pass

OriginGuard(q) ==
    IF (Mgmt(q) \/ q.route = "web") /\ isMutating(q)
       /\ ~(q.origin = "" \/ IsLoopback(q.origin) \/ ConfiguredOrigin(q))
    THEN "origin_invalid" ELSE Pass

(* The part of ClientAuth that needs no look at the keys.                  *)
KeyNeeded(q) == Inference(q) /\ isMutating(q)
KeyForm(q) ==
    IF Inference(q) /\ q.query THEN "invalid_request"
    ELSE IF KeyNeeded(q) /\ ExtractClientKey(q) = None
            /\ IsOn(Config, Plain("security.require_client_key"))
         THEN "clientkey_invalid" ELSE Pass

Guards(q) == <<LocalOnly(q), HostGuard(q), CORS(q), OriginGuard(q), KeyForm(q)>>
Refusals(q) == {Guards(q)[i] : i \in DOMAIN Guards(q)} \ {Pass}

(* A world's daemon is `heimdall serve`, and "foreign" stands for the      *)
(* hosts and origins nobody has listed.                                    *)
ASSUME WorldsAssumption ==
    \A w \in Worlds :
        /\ w.program[Daemon] = "serve"
        /\ LET c == load(w.given[Daemon]) IN
           c.ok => "foreign" \notin hostAllowlist(c)
                                  \cup {Value(c, Plain("security.cors_allowed_origins"))}

(* Where a request goes that the guards have let through.                  *)
Behind(q) ==
    IF Mgmt(q) THEN "throttle"
    ELSE IF KeyNeeded(q) /\ ExtractClientKey(q) # None THEN "key"
    ELSE IF Inference(q) THEN "gates"
    ELSE "served"

-----------------------------------------------------------------------------
AccessInit ==
    /\ Init
    /\ keys = [k \in KeyIds |-> "none"]
    /\ clock = 0
    /\ request = [r \in Requests |-> Idle]
    /\ entry = None /\ rotated = None /\ buckets = <<>>
    /\ failed = <<>> /\ admitted = <<>>

Put(r, q)       == request' = [request EXCEPT ![r] = q]
MoveTo(r, s)    == Put(r, [request[r] EXCEPT !.stage = s])
Answered(r)     == Put(r, Idle)
At(r, s)        == Serving /\ request[r].stage = s
OnlyRequests    == UNCHANGED <<vars, keys, clock>>

Received(sent, secret) ==
    [route |-> sent.route, method |-> sent.method, authorization |-> sent.authorization,
     header |-> sent.header, peer |-> sent.peer, host |-> sent.host, origin |-> sent.origin,
     query |-> sent.query, body |-> sent.body,
     secret |-> secret, client |-> None, stale |-> Dead(secret), stage |-> "new"]

Arrive(r, sent, secret) ==
    LET q == Received(sent, secret) IN
    /\ Serving /\ request[r] = Idle
    /\ Refusals(q) = {}
    /\ Put(r, [q EXCEPT !.stage = Behind(q)])
    /\ OnlyRequests
    /\ UNCHANGED <<entry, rotated, buckets, failed, admitted>>

-----------------------------------------------------------------------------
(* LoginThrottle. The entry of a peer, which looking at it makes or, when  *)
(* its window is over and no lock holds, resets. The router lets one local *)
(* peer in, so there is one entry.                                         *)
Locks(t) == t # None /\ clock < t
entryLocked ==
    LET new == [failures |-> 0, start |-> clock, until |-> None] IN
    IF entry = None THEN new
    ELSE IF Locks(entry.until) \/ clock - entry.start < LoginWindow THEN entry
    ELSE new

(* ManagementAuth: Allow; then the token; then Fail or Success. Each takes *)
(* the lock by itself.                                                     *)
Allow(r) ==
    /\ At(r, "throttle")
    /\ entry' = entryLocked
    /\ MoveTo(r, IF Locks(entryLocked.until) \/ entryLocked.failures >= LoginLimit
                 THEN "limited" ELSE "token")
    /\ OnlyRequests
    /\ UNCHANGED <<rotated, buckets, failed, admitted>>

RetryAfter(r) ==
    /\ At(r, "limited")
    /\ entry' = entryLocked
    /\ Answered(r)
    /\ OnlyRequests
    /\ UNCHANGED <<rotated, buckets, failed, admitted>>

VerifyManagementToken(r) ==
    /\ At(r, "token")
    /\ MoveTo(r, IF extractToken(request[r]) = Secret("token", hash) THEN "right" ELSE "wrong")
    /\ OnlyRequests
    /\ UNCHANGED <<entry, rotated, buckets, failed, admitted>>

(* The database cannot be read: nobody is let in.                          *)
VerifyFails(r) ==
    /\ At(r, "token")
    /\ MoveTo(r, "wrong")
    /\ OnlyRequests
    /\ UNCHANGED <<entry, rotated, buckets, failed, admitted>>

RecordFailure_NoLock(r) ==       \* Mutant: the limit is reached without a lock.
    LET e == [entryLocked EXCEPT !.failures = @ + 1] IN
    /\ At(r, "wrong")
    /\ entry' = e
    /\ failed' = Append(failed, clock)
    /\ Answered(r)
    /\ OnlyRequests
    /\ UNCHANGED <<rotated, buckets, admitted>>
RecordFailure(r) ==
    LET e == [entryLocked EXCEPT !.failures = @ + 1] IN
    /\ At(r, "wrong")
    /\ entry' = IF e.failures >= LoginLimit THEN [e EXCEPT !.until = clock + LoginWindow] ELSE e
    /\ failed' = Append(failed, clock)
    /\ Answered(r)
    /\ OnlyRequests
    /\ UNCHANGED <<rotated, buckets, admitted>>

Success(r) ==
    /\ At(r, "right")
    /\ entry' = None /\ failed' = <<>>
    /\ MoveTo(r, "served")
    /\ OnlyRequests
    /\ UNCHANGED <<rotated, buckets, admitted>>

-----------------------------------------------------------------------------
(* ClientAuth: the key is looked up by its hash; a row that is revoked or  *)
(* cannot be read lets nobody in.                                          *)
lookup_Any(secret) ==       \* Mutant: a revoked key is found like a live one.
    IF secret.kind = "key" THEN secret.n ELSE None
lookup(secret) ==
    IF secret.kind = "key" /\ keys[secret.n] = "live" THEN secret.n ELSE None
VerifyClientKey(r) ==
    /\ At(r, "key")
    /\ \E id \in {lookup(ExtractClientKey(request[r])), None} :
         IF id = None THEN Answered(r)
         ELSE Put(r, [request[r] EXCEPT !.stage = "gates", !.client = id])
    /\ OnlyRequests
    /\ UNCHANGED <<entry, rotated, buckets, failed, admitted>>

(* The limiter. A chat request counts for its client; one that the gateway *)
(* does not take, or that has no client, for the shared bucket. A bucket   *)
(* holds Interval units per request and gains Rate of them per tick.       *)
Capacity == Rate * Interval
sharedBucketKey == 0
defaultKeyOf(q) == IF q.route = "v1/chat" /\ q.client # None THEN q.client ELSE sharedBucketKey
Full == [tokens |-> Capacity, last |-> clock]
refill_Uncapped(b) ==       \* Mutant: an idle bucket saves up without limit.
    [tokens |-> b.tokens + (clock - b.last) * Rate, last |-> clock]
refill(b) ==
    LET now == b.tokens + (clock - b.last) * Rate
    IN  [tokens |-> IF now > Capacity THEN Capacity ELSE now, last |-> clock]

Limited == "rate-limit" \in Enabled(Config)
With(f, k, v) == [x \in DOMAIN f \cup {k} |-> IF x = k THEN v ELSE f[x]]
TimesOf(times, k) == IF k \in DOMAIN times THEN times[k] ELSE <<>>

PreRequest(r) ==
    LET k == defaultKeyOf(request[r])
        b == IF k \in DOMAIN buckets THEN refill(buckets[k]) ELSE Full
    IN  /\ At(r, "gates") /\ Limited
        /\ IF b.tokens >= Interval
           THEN /\ buckets' = With(buckets, k, [b EXCEPT !.tokens = @ - Interval])
                /\ admitted' = With(admitted, k, Append(TimesOf(admitted, k), clock))
                /\ MoveTo(r, "served")
           ELSE /\ buckets' = With(buckets, k, b)
                /\ Answered(r)
                /\ UNCHANGED admitted
        /\ OnlyRequests
        /\ UNCHANGED <<entry, rotated, failed>>

Ungated(r) ==
    /\ At(r, "gates") /\ ~Limited
    /\ MoveTo(r, "served")
    /\ OnlyRequests
    /\ UNCHANGED <<entry, rotated, buckets, failed, admitted>>

-----------------------------------------------------------------------------
(* The handlers. A body that is empty, too large or malformed is refused;  *)
(* what only reads, an unknown route and a missing id change nothing.      *)
Handles(r, route) == At(r, "served") /\ request[r].route = route /\ request[r].body

(* rotateToken: one rotation per window, the window taken before it.       *)
RotateToken(r) ==
    /\ At(r, "served") /\ request[r].route = "mgmt/rotate"
    /\ IF rotated = None THEN TRUE ELSE clock - rotated >= RotationWindow
    /\ rotated' = clock
    /\ Rotate(Daemon)
    /\ Answered(r)
    /\ UNCHANGED <<keys, clock, entry, buckets, failed, admitted>>

AddCredential(r) ==
    /\ Handles(r, "mgmt/add-credential")
    /\ \E c \in Credentials : AddAPIKey(Daemon, c)
    /\ Answered(r)
    /\ UNCHANGED <<keys, clock, entry, rotated, buckets, failed, admitted>>

RemoveCredential(r) ==
    /\ At(r, "served") /\ request[r].route = "mgmt/delete-credential"
    /\ \E c \in Credentials : DeleteCredential(Daemon, c)
    /\ Answered(r)
    /\ UNCHANGED <<keys, clock, entry, rotated, buckets, failed, admitted>>

Create(k) == keys[k] = "none" /\ keys' = [keys EXCEPT ![k] = "live"]
Revoke(k) == keys[k] # "none" /\ keys' = [keys EXCEPT ![k] = "revoked"]

CreateClientKey(r) ==
    /\ Handles(r, "mgmt/create-key")
    /\ \E k \in KeyIds : Create(k)
    /\ Answered(r)
    /\ UNCHANGED <<vars, clock, entry, rotated, buckets, failed, admitted>>

RevokeClientKey(r) ==
    /\ At(r, "served") /\ request[r].route = "mgmt/revoke-key"
    /\ \E k \in KeyIds : Revoke(k)
    /\ Answered(r)
    /\ UNCHANGED <<vars, clock, entry, rotated, buckets, failed, admitted>>

(* The answer without an effect: a read, an error, the reply of a route    *)
(* that is none.                                                           *)
Reply(r) ==
    /\ At(r, "served")
    /\ Answered(r)
    /\ OnlyRequests
    /\ UNCHANGED <<entry, rotated, buckets, failed, admitted>>

(* `client-key create` and `client-key revoke`, each a process.            *)
KeyCommand(p) ==
    /\ Program(p) = "client-key" /\ pc[p] = "ready"
    /\ \E k \in KeyIds : Create(k) \/ Revoke(k)
    /\ Close(p)
    /\ UNCHANGED <<clock, memory>>

-----------------------------------------------------------------------------
Tick ==
    /\ Serving /\ clock < world.end      \* bound: the end of time
    /\ clock' = clock + 1
    /\ UNCHANGED <<vars, keys, memory>>

Forget ==
    /\ request' = [r \in Requests |-> Idle]
    /\ entry' = None /\ rotated' = None /\ buckets' = <<>>
    /\ failed' = <<>> /\ admitted' = <<>>

(* Where there is traffic the daemon does what requests ask; elsewhere     *)
(* anything they might.                                                    *)
Elsewhere ==
    /\ Background \/ (world.traffic = {} /\ \E p \in Procs : Serve(p))
    /\ IF pc'[Daemon] = "off" THEN Forget ELSE UNCHANGED memory
    /\ UNCHANGED <<keys, clock>>

Secrets(sent) == IF sent.authorization = "none" /\ sent.header = "none" THEN {Junk}
                 ELSE Presentable

Handler(r) ==
    \/ \E sent \in world.traffic : \E secret \in Secrets(sent) : Arrive(r, sent, secret)
    \/ Allow(r) \/ RetryAfter(r) \/ VerifyManagementToken(r) \/ VerifyFails(r)
    \/ RecordFailure(r) \/ Success(r) \/ VerifyClientKey(r) \/ PreRequest(r) \/ Ungated(r)
    \/ RotateToken(r) \/ AddCredential(r) \/ RemoveCredential(r)
    \/ CreateClientKey(r) \/ RevokeClientKey(r) \/ Reply(r)

AccessNext ==
    \/ Elsewhere
    \/ Tick
    \/ \E r \in Requests : Handler(r)
    \/ \E p \in Procs : KeyCommand(p)

AccessSpec == AccessInit /\ [][AccessNext]_allVars

-----------------------------------------------------------------------------
(* What is served is due to the one who asked. Whatever the route, the     *)
(* caller is local and used a local name; a change of state comes from no  *)
(* foreign page; the management API answers the token alone, and inference *)
(* a client's key or nobody's, each as it was when the request came or     *)
(* later: a key revoked and a token replaced before it open nothing        *)
(* (Handler's guards, ManagementAuth, ClientAuth, Verify).                 *)
OnlyEntitledServed ==
    \A r \in Requests : LET q == request[r] IN q.stage = "served" =>
        /\ q.peer = "loopback" /\ q.host # "foreign"
        /\ isMutating(q) /\ (Mgmt(q) \/ q.route = "web") => q.origin # "foreign"
        /\ Mgmt(q) => q.secret.kind = "token" /\ ~q.stale
        /\ Inference(q) /\ isMutating(q) =>
             IF ExtractClientKey(q) # None
             THEN q.secret.kind = "key" /\ ~q.stale /\ q.client = q.secret.n
             ELSE q.client = None /\ ~IsOn(Config, Plain("security.require_client_key"))

(* However the requests of a peer overlap, it is let to try another token  *)
(* only while fewer than two windows' worth of wrong ones lie within the   *)
(* last window: those of the window that is ending, short of the limit,    *)
(* and those of the one that has begun. (LoginThrottle; a right token      *)
(* starts afresh.)                                                         *)
Recent == {i \in DOMAIN failed : failed[i] > clock - LoginWindow}
Admits(r) == request[r].stage = "throttle" /\ request'[r].stage = "token"
GuessesBounded ==
    [][\A r \in Requests : Admits(r) => Cardinality(Recent) <= 2 * (LoginLimit - 1)]_allVars

(* In any stretch of time a bucket lets through no more than its burst and *)
(* what it gained meanwhile (RateLimiter.PreRequest).                      *)
RateHonoured ==
    \A k \in DOMAIN admitted : LET times == admitted[k] IN
        \A i, j \in DOMAIN times : i <= j =>
            (j - i + 1) * Interval <= Capacity + (times[j] - times[i]) * Rate
=============================================================================
