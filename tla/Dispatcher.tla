----------------------------- MODULE Dispatcher -----------------------------
(***************************************************************************)
(* Concurrent requests on their way through routing: the Router's          *)
(* preflight over the plan's candidates (src/internal/router/resolver.go   *)
(* and preflight in src/internal/app/app.go), then the Dispatcher's        *)
(* attempt loop (src/internal/dispatcher/dispatcher.go), over the circuits *)
(* of one shared breaker.                                                  *)
(*                                                                         *)
(* Breaker studies Allow and Record key by key; here each call is one      *)
(* step.  The lazy Open -> HalfOpen transition is taken when the deadline  *)
(* passes: every method applies it before it looks.                        *)
(***************************************************************************)
EXTENDS Calls, FiniteSets

CONSTANTS
    Requests,       \* concurrent clients, each with one request at a time
    Plans,          \* what the Router may order: [steps, auto]
    Worlds,         \* the providers as configured, the credentials as stored
    CredentialIds,  \* the ids of the stored credentials, sorted
    Preflight,      \* whether the Router was built WithPreflight
    Streams,        \* whether the clients ask for streams
    Happens,        \* what may happen to a call
    QuotaAllows,    \* the verdicts the quota filter may give
    VaultHas,       \* whether loading a listed credential may fail
    MayCancel       \* whether clients go away

ASSUME PlansAssumption ==
    Plans \subseteq [steps : Seq(Candidates), auto : BOOLEAN]
ASSUME WorldsAssumption ==
    /\ Worlds \subseteq [services : [Providers -> Services],
                         vault    : [Credentials -> Stored]]
    /\ CredentialIds \in Seq(Credentials)
ASSUME HappensAssumption == Happens \subseteq Happenings
ASSUME SwitchAssumption ==
    /\ {Preflight, MayCancel} \subseteq BOOLEAN
    /\ Streams \subseteq BOOLEAN
    /\ QuotaAllows \subseteq BOOLEAN
    /\ VaultHas \subseteq BOOLEAN

breakerFrom(e) == [success |-> FALSE, scope |-> e.scope,
                   retryable |-> e.retryable, retryAfter |-> e.retryAfter,
                   terminal |-> FALSE]

-----------------------------------------------------------------------------
VARIABLES
    circuits,   \* the breaker
    world,      \* the environment: providers, credentials, and whether the
                \* upstreams answer every call from now on
    req,        \* the request each client has in flight
    blame       \* history: what each key is to blame for since a success

vars == <<circuits, world, req, blame>>

Idle == [pc |-> "idle", plan |-> [steps |-> <<>>, auto |-> FALSE],
         todo |-> <<>>, kept |-> <<>>, ids |-> {}, cand |-> None,
         attempts |-> 0, skips |-> {}, lastErr |-> NoError,
         cancelled |-> FALSE, calls |-> <<>>, reply |-> "none"]

Init ==
    /\ circuits = [k \in Keys |-> Fresh]
    /\ \E w \in Worlds : world = [services |-> w.services, vault |-> w.vault,
                                healthy |-> FALSE]
    /\ req = [r \in Requests |-> Idle]
    /\ blame = [k \in Keys |-> 0]

(* The breaker's Allow and Record as one step each.                        *)
KeysOf(seq) == {seq[i] : i \in DOMAIN seq}

allowed(cs, c) == \A k \in KeysOf(allKeysFor(c)) : admits(cs[k])

Allow(cs, c) ==
    IF allowed(cs, c)
    THEN [k \in Keys |-> IF k \in KeysOf(allKeysFor(c))
                         THEN reserveLocked(cs[k]) ELSE cs[k]]
    ELSE cs

Record(cs, c, o) ==
    LET ks == KeysOf(keysFor(c, o))
        to == UNION {RecordKey(cs[k], o) : k \in ks}
    IN  {[k \in Keys |-> IF k \in ks THEN f[k] ELSE cs[k]] :
            f \in {g \in [ks -> to] :
                      \A k \in ks : g[k] \in RecordKey(cs[k], o)}}

Set(r, q) == req' = [req EXCEPT ![r] = q]

Reply(r, what) == Set(r, [req[r] EXCEPT !.pc = "done", !.reply = what])

-----------------------------------------------------------------------------
(* Resolver.Resolve: a candidate the preflight rejects leaves the plan.    *)

Arrive(r) ==
    /\ req[r].pc = "idle"
    /\ \E p \in Plans :
         Set(r, [req[r] EXCEPT !.pc = "preflight", !.plan = p, !.todo = p.steps])
    /\ UNCHANGED <<circuits, world, blame>>

AllowCandidate(r) ==
    /\ req[r].pc = "preflight"
    /\ req[r].todo # <<>>
    /\ LET c    == Head(req[r].todo)
           Keep == Set(r, [req[r] EXCEPT !.todo = Tail(@), !.kept = Append(@, c)])
           Drop == Set(r, [req[r] EXCEPT !.todo = Tail(@)])
       IN  \/ /\ ~Preflight
              /\ Keep
              /\ UNCHANGED circuits
           \/ /\ Preflight
              /\ circuits' = Allow(circuits, c)
              /\ \E quotaOK \in QuotaAllows :
                   IF allowed(circuits, c) /\ (quotaOK \/ c.credential = None)
                   THEN Keep ELSE Drop
    /\ UNCHANGED <<world, blame>>

Resolved(r) ==
    /\ req[r].pc = "preflight"
    /\ req[r].todo = <<>>
    /\ IF req[r].kept = <<>>
       THEN Reply(r, "no candidate")
       ELSE Set(r, [req[r] EXCEPT !.pc = "next", !.todo = req[r].kept])
    /\ UNCHANGED <<circuits, world, blame>>

-----------------------------------------------------------------------------
(* The attempt loop.                                                       *)

service(c) == world.services[c.provider]
stored(c)  == world.vault[c.credential]

(* The credentials of a provider whose mode it supports, and their order.  *)
usable(k, p) == /\ world.vault[k].provider = p
                /\ world.vault[k].mode \in authModes(world.services[p])

accounts(p) == {k \in KeysOf(CredentialIds) : usable(k, p)}

before(k, l) == \E i, j \in DOMAIN CredentialIds :
                    i < j /\ CredentialIds[i] = k /\ CredentialIds[j] = l

(* Those that a candidate may be called with.                              *)
eligible(c) == IF c.credential # None THEN {c.credential} ELSE accounts(c.provider)

MaxRounds(q) == IF q.plan.auto THEN 1 ELSE Len(q.kept)

(* Mutant: a step is not used up.                                          *)
NextCandidate_Repeats(r) ==
    /\ req[r].pc = "next"
    /\ req[r].todo # <<>>
    /\ req[r].attempts < MaxRounds(req[r])
    /\ LET c == Head(req[r].todo)
       IN  Set(r, [req[r] EXCEPT !.pc = "resolve", !.cand = c, !.ids = eligible(c)])
    /\ UNCHANGED <<circuits, world, blame>>

NextCandidate(r) ==
    /\ req[r].pc = "next"
    /\ req[r].todo # <<>>
    /\ req[r].attempts < MaxRounds(req[r])
    /\ LET c == Head(req[r].todo)
       IN  Set(r, [req[r] EXCEPT !.pc = "resolve", !.todo = Tail(@), !.cand = c,
                                 !.ids = eligible(c)])
    /\ UNCHANGED <<circuits, world, blame>>

(* The loop ends: the candidates or the rounds are used up.                *)
NoWinner(r) ==
    /\ req[r].pc = "next"
    /\ req[r].todo = <<>> \/ req[r].attempts >= MaxRounds(req[r])
    /\ Reply(r, IF req[r].attempts > 0
                THEN IF req[r].todo # <<>> THEN "max rounds" ELSE "exhausted"
                ELSE IF "breaker" \in req[r].skips THEN "no attempts: breaker"
                ELSE IF "quota" \in req[r].skips   THEN "no attempts: quota"
                ELSE "no attempts")
    /\ UNCHANGED <<circuits, world, blame>>

(* resolve: ask breaker and quota for the first credential left, then load *)
(* it.  A pinned candidate that was denied asks the breaker a second time  *)
(* to learn why (denyReason).                                              *)
TryCredential(r) ==
    /\ req[r].pc = "resolve"
    /\ \E k \in req[r].ids, quotaOK \in QuotaAllows, loaded \in VaultHas :
       LET c       == req[r].cand
           pinned  == c.credential # None
           cc      == [c EXCEPT !.credential = k]
           first   == Allow(circuits, cc)
           passed  == allowed(circuits, cc)
           told    == IF ~pinned             THEN "breaker"
                      ELSE IF passed /\ quotaOK  THEN "credential"
                      ELSE IF allowed(first, cc) THEN "quota"
                      ELSE "breaker"
           last    == req[r].ids = {k}
       IN  /\ \A l \in req[r].ids : ~before(l, k)
           /\ \/ /\ passed /\ quotaOK /\ loaded
                 /\ circuits' = first
                 /\ Set(r, [req[r] EXCEPT !.pc = "build", !.cand = cc, !.ids = {}])
              \/ /\ ~(passed /\ quotaOK /\ loaded)
                 /\ circuits' = IF pinned /\ ~(passed /\ quotaOK)
                                THEN Allow(first, cc) ELSE first
                 /\ IF last
                    THEN Set(r, [req[r] EXCEPT !.pc = "next", !.cand = None, !.ids = {},
                                               !.skips = @ \cup {told}])
                    ELSE Set(r, [req[r] EXCEPT !.ids = @ \ {k}])
    /\ UNCHANGED <<world, blame>>

NoAccount(r) ==
    /\ req[r].pc = "resolve"
    /\ req[r].ids = {}
    /\ Set(r, [req[r] EXCEPT !.pc = "next", !.cand = None, !.skips = @ \cup {"credential"}])
    /\ UNCHANGED <<circuits, world, blame>>

(* History. Whose fault a failure was, read off what happened and not off  *)
(* the error that came of it; and what each circuit is to blame for: the   *)
(* failures of its own since a success, as far as the threshold, and       *)
(* Banned once a refusal has been that many'th of them.                    *)
Culprits(s, cred, h) ==
    IF openCredential(cred) # NoError        THEN {"Refusal"}
    ELSE IF DeniedIP(s)                      THEN {"Provider"}
    ELSE IF h.fault = "cancelled"            THEN {}
    ELSE {who \in {"Limit", "Refusal", "Provider"} :
            CASE who = "Limit"   -> h.status = 429
              [] who = "Refusal" -> h.status \in {401, 403}
              [] OTHER -> h.fault # "none" \/ h.busy \/ h.status = 408 \/ h.status >= 500}

Banned == CredentialThreshold + 1

atFault(k, who) == IF k[1] = "Credential" THEN who \cap {"Limit", "Refusal"} # {}
                   ELSE "Provider" \in who

refused(k, who) == /\ k[1] = "Credential" /\ "Refusal" \in who
                   /\ blame[k] + 1 >= CredentialThreshold

blamed(c, who) ==
    [k \in Keys |-> IF k \notin KeysOf(allKeysFor(c)) THEN blame[k]
                    ELSE IF refused(k, who)           THEN Banned
                    ELSE IF atFault(k, who) /\ blame[k] < CredentialThreshold
                         THEN blame[k] + 1 ELSE blame[k]]

forgiven(c) ==
    [k \in Keys |-> IF k \in KeysOf(allKeysFor(c)) /\ circuits[k].status # "Terminal"
                    THEN 0 ELSE blame[k]]

Build(r) ==
    /\ req[r].pc = "build"
    /\ LET c == req[r].cand
           e == BuildExecutor(c.provider, service(c), stored(c))
       IN  \/ /\ req[r].cancelled
              /\ Reply(r, "timeout")
              /\ UNCHANGED <<circuits, blame>>
           \/ /\ ~req[r].cancelled /\ e = NoError
              /\ Set(r, [req[r] EXCEPT !.pc = "call", !.attempts = @ + 1])
              /\ UNCHANGED <<circuits, blame>>
           \/ /\ ~req[r].cancelled /\ e # NoError
              /\ circuits' \in Record(circuits, c, breakerFrom(e))
              /\ blame' = blamed(c, IF stored(c).provider = c.provider
                                       /\ service(c).dialect # "none"
                                    THEN {"Refusal"} ELSE {})
              /\ Set(r, [req[r] EXCEPT !.pc = "next", !.cand = None, !.lastErr = e])
    /\ UNCHANGED world

(* One call of the candidate's model. A client that left may cut it short. *)
happens(r) == (IF world.healthy THEN {Status(200)} ELSE Happens)
         \cup (IF req[r].cancelled THEN {Broken("cancelled")} ELSE {})

(* The errors it may end with, and whose fault each of them is.            *)
endings(r, stream) ==
    LET c == req[r].cand
        s == service(c)
        k == stored(c)
    IN  {[error |-> Call(s, k, c.model, stream, h), fault |-> Culprits(s, k, h)] :
            h \in happens(r)}

Called(r, end) == Append(req[r].calls, [cand |-> req[r].cand, end |-> end])

(* The call succeeded.  A buffered response is recorded as a success; a    *)
(* stream is handed over as it is.                                         *)
Succeed(r, streams) ==
    /\ req[r].pc = "call"
    /\ \E stream \in streams :
         /\ \E x \in endings(r, stream) : x.error = NoError
         /\ IF stream THEN UNCHANGED <<circuits, blame>>
            ELSE /\ circuits' \in Record(circuits, req[r].cand, Success)
                 /\ blame' = forgiven(req[r].cand)
    /\ Set(r, [req[r] EXCEPT !.pc = "done", !.reply = "ok", !.calls = Called(r, "ok")])
    /\ UNCHANGED world

Fail(r, streams) ==
    /\ req[r].pc = "call"
    /\ \E x \in UNION {endings(r, stream) : stream \in streams} :
         LET c == req[r].cand
             e == x.error
             q == [req[r] EXCEPT !.calls = Called(r, e.scope), !.lastErr = e]
         IN  /\ e # NoError
             /\ circuits' \in Record(circuits, c, breakerFrom(e))
             /\ blame' = blamed(c, x.fault)
             /\ \/ /\ e.scope = "Request"
                   /\ Set(r, [q EXCEPT !.pc = "done", !.reply = "client error"])
                \/ /\ e.scope # "Request" /\ req[r].cancelled
                   /\ Set(r, [q EXCEPT !.pc = "done", !.reply = "timeout"])
                \/ /\ e.scope # "Request" /\ ~req[r].cancelled
                   /\ Set(r, [q EXCEPT !.pc = IF e.retryAfter > 0 THEN "cooldown"
                                              ELSE "next",
                                       !.cand = None])
    /\ UNCHANGED world

(* A retry hint delays the next attempt, unless the client goes away.      *)
Cooldown(r) ==
    /\ req[r].pc = "cooldown"
    /\ \/ Set(r, [req[r] EXCEPT !.pc = "next"])
       \/ req[r].cancelled /\ Reply(r, "timeout")
    /\ UNCHANGED <<circuits, world, blame>>

Answered(r) ==
    /\ req[r].pc = "done"
    /\ Set(r, Idle)
    /\ UNCHANGED <<circuits, world, blame>>

-----------------------------------------------------------------------------
(* The environment: clients leave, the upstreams recover, time passes.     *)

Cancel(r) ==
    /\ MayCancel
    /\ req[r].pc \notin {"idle", "done"}
    /\ ~req[r].cancelled
    /\ Set(r, [req[r] EXCEPT !.cancelled = TRUE])
    /\ UNCHANGED <<circuits, world, blame>>

Heal ==
    /\ ~world.healthy
    /\ world' = [world EXCEPT !.healthy = TRUE]
    /\ UNCHANGED <<circuits, req, blame>>

Tick ==
    /\ circuits' = [k \in Keys |-> transitionLocked(elapsed(circuits[k]))]
    /\ UNCHANGED <<world, req, blame>>

(* A step of the loop, for a caller who asked for a stream or not.         *)
Attempt(r, streams) ==
    \/ NextCandidate(r) \/ NoWinner(r) \/ TryCredential(r) \/ NoAccount(r)
    \/ Build(r) \/ Succeed(r, streams) \/ Fail(r, streams) \/ Cooldown(r)

Serve(r) ==
    \/ AllowCandidate(r) \/ Resolved(r) \/ Attempt(r, Streams) \/ Answered(r)

Next ==
    \/ \E r \in Requests : Arrive(r) \/ Serve(r) \/ Cancel(r)
    \/ Heal
    \/ Tick

Spec == Init /\ [][Next]_vars

(***************************************************************************)
(* Every goroutine that can run does, every upstream call ends, time       *)
(* passes and clients keep asking.  The code gives less, for no deadline   *)
(* bounds the body of an answer (Structural assumes no such thing): what   *)
(* fails even so fails in the code.                                        *)
(***************************************************************************)
BusySpec ==
    /\ Spec /\ WF_vars(Tick)
    /\ \A r \in Requests : WF_vars(Serve(r)) /\ WF_vars(Arrive(r))

-----------------------------------------------------------------------------
(* What a reply promises about the calls made for it, over every order in  *)
(* which candidates fail, are skipped, or the client leaves (run,          *)
(* dispatcher.go:150-224): only a reply "ok" follows a successful call,    *)
(* and the success is the last call; every earlier call failed with an     *)
(* error that another candidate can cure; "no attempts" means no call,     *)
(* "max rounds" exactly the allowed number of calls, "exhausted" at least  *)
(* one; "timeout" is told only to a client that left.                      *)
ReplyHonest ==
    \A r \in Requests : req[r].pc = "done" =>
      LET q     == req[r]
          n     == Len(q.calls)
          ended == IF n = 0 THEN "nothing" ELSE q.calls[n].end
      IN  /\ q.reply = "ok" <=> ended = "ok"
          /\ \A i \in 1 .. n - 1 : q.calls[i].end \notin {"ok", "Request"}
          /\ q.reply = "client error" <=> ended = "Request"
          /\ q.reply \in {"no candidate", "no attempts", "no attempts: quota",
                          "no attempts: breaker"} => n = 0
          /\ q.reply = "max rounds" => n = MaxRounds(q)
          /\ q.reply = "exhausted" => n \in 1 .. MaxRounds(q) /\ q.lastErr # NoError
          /\ q.reply = "timeout" => q.cancelled

(* Failover follows the plan: the calls of a request are for steps of its  *)
(* plan, in the plan's order and each step at most once, with the step's   *)
(* pinned credential or one account of its provider (resolve, 240-276).    *)
Fits(c, s) == /\ c.provider = s.provider /\ c.model = s.model
              /\ IF s.credential # None THEN c.credential = s.credential
                 ELSE usable(c.credential, s.provider)
FollowsPlan ==
    \A r \in Requests :
      LET q == req[r]
      IN  q.calls # <<>> => \E f \in [DOMAIN q.calls -> DOMAIN q.plan.steps] :
            /\ \A i, j \in DOMAIN q.calls : i < j => f[i] < f[j]
            /\ \A i \in DOMAIN q.calls : Fits(q.calls[i].cand, q.plan.steps[f[i]])

(* Both, of every request (run, dispatcher.go:150-224).                    *)
FailoverHonest == ReplyHonest /\ FollowsPlan

(* No circuit opens for a failure that was not its own: a client error, a  *)
(* failure of another scope, another candidate's failure (ADR-0012 par. 1  *)
(* and 2).  A credential is banned by a refusal and never by limits alone; *)
(* but a limit counts on the way there (RecordKey, breaker.go:329-340,     *)
(* counts every failure that is the credential's): the refusal need only   *)
(* be the threshold'th of its failures of either kind since it last        *)
(* answered, not of its refusals, as breaker.go:68-70, 92-93, 336-337 and  *)
(* the ADRs have it.                                                       *)
OpenForCause ==
    \A k \in Keys :
        /\ circuits[k].status \in {"Open", "HalfOpen"} => blame[k] > 0
        /\ circuits[k].status = "Terminal" => k[1] = "Credential" /\ blame[k] = Banned

(* "os demais veem Open ate a sonda resolver": a half-open circuit's probe *)
(* is resolved, one way or the other.                                      *)
ProbeResolves ==
    \A k \in Keys : circuits[k].probe ~> ~circuits[k].probe
=============================================================================
