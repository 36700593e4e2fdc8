------------------------------- MODULE Quota -------------------------------
(***************************************************************************)
(* The quota window of one credential: the Recorder that counts usage      *)
(* (src/internal/quota/recorder.go), the Filter that admits attempts from  *)
(* what it counted (filter.go), and the SQLite tables behind both          *)
(* (src/internal/store/quota_store.go), across restarts of the daemon.     *)
(*                                                                         *)
(* One credential and one window kind: credentials do not share state, and *)
(* a candidate passes only if each of its windows passes.  A fraction is   *)
(* written over Limit, so Remaining = 1.0 is Limit.  A reset is the time   *)
(* left until ResetsAt: 0 says that it has passed, Unset that it is zero.  *)
(***************************************************************************)
EXTENDS Integers, FiniteSets

CONSTANTS
    Limit,          \* the ceiling the operator declared for the window
    Cutoff,         \* the fraction held back
    Duration,       \* the window's length
    Attempts,       \* attempt keys
    Quantities,     \* what a Usage may report
    Deliverers,     \* goroutines that call Record
    Headers,        \* the windows passive headers may carry
    Hints,          \* the resets that a 429 may carry
    Worlds,         \* what may happen around the recorder
    Unset

ASSUME LimitAssumption == Limit \in Nat \ {0} /\ Cutoff \in 0 .. Limit - 1
ASSUME DurationAssumption ==
    Duration \in Nat \ {0} /\ Hints \subseteq 1 .. Duration
ASSUME QuantitiesAssumption == Quantities \subseteq Nat \ {0}
(* faults: reads and writes of the store may fail; learns: headers, hints  *)
(* and SetTerminal; restarts: of the daemon; load: bound on the attempts.  *)
ASSUME WorldsAssumption ==
    Worlds \subseteq [faults : BOOLEAN, learns : BOOLEAN, restarts : BOOLEAN,
                     load : Nat]

Sources == {"header", "hint", "local"}
Resets  == {Unset} \cup 0 .. Duration
Windows == [limit : {0, Limit}, used : 0 .. Limit, remaining : 0 .. Limit,
            resetsIn : Resets, source : Sources]
Rows    == [limit : {0, Limit}, used : 0 .. Limit,
            resetsIn : Resets, source : Sources]

ASSUME HeadersAssumption ==
    Headers \subseteq {w \in Windows : w.source = "header"}
ASSUME UnsetAssumption ==
    /\ Unset \notin Attempts \cup 0 .. Duration /\ Unset \notin Quantities
    /\ Unset \notin Windows \cup Rows

VARIABLES
    world,      \* the one of Worlds we are in
    state,      \* Recorder.state of the credential
    applied,    \* Recorder.applied
    stored,     \* its quota_windows row
    rows,       \* usage_attempts: tokens by attempt key
    admitted,   \* attempts the Filter let through
    past,       \* those of former lives of the daemon
    call,       \* the Record each goroutine is in
    spent,      \* history: what the plan has really paid in this period
    most        \* history: the largest report of attempts counted this period

quotaVars ==
    <<world, state, applied, stored, rows, admitted, past, call, spent, most>>

States == [loaded : BOOLEAN, window : Windows \cup {Unset}, terminal : BOOLEAN]
Absent == [loaded |-> FALSE, window |-> Unset, terminal |-> FALSE]
Calls  == [pc : {"idle", "record", "log"}, key : Attempts \cup {Unset},
           tokens : Quantities \cup {0}]
Idle   == [pc |-> "idle", key |-> Unset, tokens |-> 0]
Bills  == [tokens : Nat, resetsIn : Resets, paid : SUBSET Attempts]
Fresh  == [tokens |-> 0, resetsIn |-> Unset, paid |-> {}]

(* What UpsertWindow keeps of a window, and what Snapshot makes of it.     *)
Row(w) == [limit |-> w.limit, used |-> w.used,
           resetsIn |-> w.resetsIn, source |-> w.source]
restored(row) == [limit |-> row.limit, used |-> row.used, remaining |-> 0,
                  resetsIn |-> row.resetsIn, source |-> row.source]

QuotaTypeOK ==
    /\ world \in Worlds
    /\ state \in States
    /\ applied \subseteq Attempts
    /\ stored \in Rows \cup {Unset}
    /\ rows \in [Attempts -> Quantities \cup {0}]
    /\ admitted \subseteq Attempts /\ past \subseteq admitted
    /\ call \in [Deliverers -> Calls]
    /\ spent \in Bills
    /\ most \in [Attempts -> Quantities \cup {0}]

QuotaInit ==
    /\ world \in Worlds
    /\ state = Absent
    /\ applied = {}
    /\ stored = Unset
    /\ rows = [k \in Attempts |-> 0]
    /\ admitted = {} /\ past = {}
    /\ call = [d \in Deliverers |-> Idle]
    /\ spent = Fresh
    /\ most = [k \in Attempts |-> 0]

-----------------------------------------------------------------------------
(* The state after stateLocked: the durable window is read on first touch, *)
(* and a read that fails is not tried again.                               *)
stateLocked ==
    IF state.loaded THEN {state}
    ELSE LET read == IF stored = Unset THEN Unset ELSE restored(stored)
         IN  {[state EXCEPT !.loaded = TRUE, !.window = w] :
                 w \in {read} \cup (IF world.faults THEN {Unset} ELSE {})}

(* Mutant: an insert that does not update on conflict.                     *)
persistWindows_InsertOnly(st) ==
    /\ state' = st
    /\ stored' = IF stored # Unset \/ st.window = Unset THEN stored
                 ELSE Row(st.window)

(* persistWindows: every path that changes a window writes it.             *)
persistWindows(st) ==
    /\ state' = st
    /\ \/ stored' = IF st.window = Unset THEN stored ELSE Row(st.window)
       \/ world.faults /\ UNCHANGED stored

setRemaining(w) ==
    IF w.limit = 0 THEN [w EXCEPT !.remaining = Limit]
    ELSE LET used == IF w.used > w.limit THEN w.limit ELSE w.used
         IN  [w EXCEPT !.used = used, !.remaining = w.limit - used]

created == [limit |-> Limit, used |-> 0, remaining |-> Limit,
            resetsIn |-> Duration, source |-> "local"]

(* Mutant: the window rolls over one tick before its reset.                *)
rolled_Early(w) == IF w.resetsIn \in {0, 1}
                   THEN [w EXCEPT !.used = 0, !.resetsIn = Duration] ELSE w

rolled(w) == IF w.resetsIn = 0
             THEN [w EXCEPT !.used = 0, !.resetsIn = Duration] ELSE w

(* One Usage folded into the window; a header or a hint outranks it.       *)
applyLocked(w, tokens) ==
    LET r == rolled(IF w = Unset THEN created ELSE w)
    IN  IF r.source # "local" THEN r
        ELSE setRemaining([r EXCEPT !.used = @ + tokens])

(* The verdict of Filter.check.                                            *)
blocked(st) ==
    \/ st.terminal
    \/ st.window # Unset /\ st.window.limit > 0 /\ st.window.remaining <= Cutoff

-----------------------------------------------------------------------------
(* The Dispatcher makes an attempt only if the Filter lets it through.     *)

Admit(k) ==
    /\ k \notin admitted
    /\ Cardinality(admitted) < world.load
    /\ state' \in stateLocked
    /\ admitted' = IF blocked(state') THEN admitted ELSE admitted \cup {k}
    /\ UNCHANGED <<world, past, applied, stored, rows, call, spent, most>>

(* A usage is delivered, or delivered again, or corrected.                 *)
Deliver(d, k, n) ==
    /\ call[d].pc = "idle"
    /\ k \in admitted \ past
    /\ call' = [call EXCEPT ![d] = [pc |-> "record", key |-> k, tokens |-> n]]
    /\ UNCHANGED <<world, past, state, applied, stored, rows, admitted,
                   spent, most>>

(* What the operator's plan pays: each attempt once, in periods that start *)
(* with the first payment.                                                 *)
pay(k, n) ==
    IF k \in spent.paid THEN spent
    ELSE [tokens   |-> spent.tokens + n,
          resetsIn |-> IF spent.resetsIn = Unset THEN Duration
                       ELSE spent.resetsIn,
          paid     |-> spent.paid \cup {k}]

larger(m, n) == IF m > n THEN m ELSE n

seen(k) == k \in applied

(* Record's critical section: a key already applied leaves the window.     *)
Replay(d) ==
    LET k == call[d].key
        n == call[d].tokens
    IN  /\ call[d].pc = "record"
        /\ seen(k)
        /\ most' = [most EXCEPT ![k] = IF @ = 0 THEN 0 ELSE larger(@, n)]
        /\ call' = [call EXCEPT ![d].pc = "log"]
        /\ UNCHANGED <<world, past, state, applied, stored, rows, admitted,
                       spent>>

Apply(d) ==
    LET k == call[d].key
        n == call[d].tokens
    IN  /\ call[d].pc = "record"
        /\ ~seen(k)
        /\ \E st \in stateLocked :
             LET over == st.window # Unset /\ st.window.resetsIn = 0
             IN  /\ persistWindows([st EXCEPT !.window = applyLocked(@, n)])
                 /\ most' = [j \in Attempts |->
                                IF j = k    THEN larger(IF over THEN 0 ELSE most[k], n)
                                ELSE IF over THEN 0 ELSE most[j]]
        /\ applied' = applied \cup {k}
        /\ spent' = pay(k, n)
        /\ call' = [call EXCEPT ![d].pc = "log"]
        /\ UNCHANGED <<world, past, rows, admitted>>

(* persistAttempt, after the lock is released.                             *)
Log(d) ==
    /\ call[d].pc = "log"
    /\ \/ rows' = [rows EXCEPT ![call[d].key] = call[d].tokens]
       \/ world.faults /\ UNCHANGED rows
    /\ call' = [call EXCEPT ![d] = Idle]
    /\ UNCHANGED <<world, past, state, applied, stored, admitted, spent,
                   most>>

-----------------------------------------------------------------------------
ApplyHeader(h) ==
    /\ world.learns
    /\ \E st \in stateLocked : persistWindows([st EXCEPT !.window = h])
    /\ UNCHANGED <<world, past, applied, rows, admitted, call, spent, most>>

hinted(w, resets) ==
    IF w = Unset
    THEN [limit |-> 0, used |-> 0, remaining |-> 0,
          resetsIn |-> resets, source |-> "hint"]
    ELSE IF w.source = "header" THEN w
    ELSE [w EXCEPT !.resetsIn = resets, !.remaining = 0, !.source = "hint"]

ApplyRetryHint(resets) ==
    /\ world.learns
    /\ \E st \in stateLocked :
         persistWindows([st EXCEPT !.window = hinted(@, resets)])
    /\ UNCHANGED <<world, past, applied, rows, admitted, call, spent, most>>

(* A credential never touched before gets a state that counts as loaded.   *)
SetTerminal ==
    /\ world.learns
    /\ state' = [state EXCEPT !.loaded = TRUE, !.terminal = TRUE]
    /\ UNCHANGED <<world, past, applied, stored, rows, admitted, call, spent,
                   most>>

(* The daemon restarts: memory is gone, attempts in flight with it, and    *)
(* nobody delivers their usages any more.                                  *)
Restart ==
    /\ world.restarts
    /\ state' = Absent
    /\ applied' = {}
    /\ call' = [d \in Deliverers |-> Idle]
    /\ past' = admitted
    /\ UNCHANGED <<world, stored, rows, admitted, spent, most>>

sooner(r) == IF r \in {Unset, 0} THEN r ELSE r - 1

Tick ==
    /\ state' = IF state.window = Unset THEN state
                ELSE [state EXCEPT !.window.resetsIn = sooner(@)]
    /\ stored' = IF stored = Unset THEN Unset
                 ELSE [stored EXCEPT !.resetsIn = sooner(@)]
    /\ spent' = IF spent.resetsIn = 1
                THEN [Fresh EXCEPT !.paid = spent.paid]
                ELSE [spent EXCEPT !.resetsIn = sooner(@)]
    /\ UNCHANGED <<world, past, applied, rows, admitted, call, most>>

Serve ==
    \/ \E k \in Attempts : Admit(k)
    \/ \E d \in Deliverers : Apply(d) \/ Replay(d) \/ Log(d)

QuotaNext ==
    \/ Serve
    \/ \E d \in Deliverers, k \in Attempts, n \in Quantities : Deliver(d, k, n)
    \/ \E h \in Headers : ApplyHeader(h)
    \/ \E resets \in Hints : ApplyRetryHint(resets)
    \/ SetTerminal
    \/ Restart
    \/ Tick

QuotaSpec == QuotaInit /\ [][QuotaNext]_quotaVars

-----------------------------------------------------------------------------
(* Whatever the memory remembers, forgets and reloads, an attempt is let   *)
(* through only while the plan, as really paid, keeps more than the cutoff *)
(* (ADR-0011 par. 4: a restart must not forget what was spent; check,      *)
(* filter.go:68-100, with stateLocked and persistWindows), if the store    *)
(* works and no header or hint replaces the count.                         *)
NeverOverspends ==
    [][admitted' # admitted /\ ~world.faults /\ ~world.learns =>
         Limit - spent.tokens > Cutoff]_quotaVars

(* However often and with whatever correction a usage is delivered again,  *)
(* the window counts each attempt at most once, with a quantity that was   *)
(* reported for it in this period (Record, recorder.go:107-117). A daemon  *)
(* that restarts over writes that have failed reads a window of the past.  *)
Reported == UNION {{k} \X (1 .. most[k]) : k \in Attempts}
NeverOvercounts ==
    /\ state.window # Unset /\ state.window.source # "header"
    /\ ~(world.faults /\ world.restarts)
    => state.window.used <= Cardinality(Reported)

(* The durable row is the window that the Filter reads, after every call   *)
(* on every path, so a restart starts from what was last known, if the     *)
(* store works (persistWindows, recorder.go:317-324).                      *)
WriteThrough ==
    ~world.faults /\ state.loaded /\ stored # Unset /\ ~state.terminal =>
        state.window # Unset /\ stored = Row(state.window)

(* The one window that the Filter reads tells no more than was spent and   *)
(* no less than is stored (recorder.go:107-117, 317-324).                  *)
WindowTruthful == QuotaTypeOK /\ NeverOvercounts /\ WriteThrough
=============================================================================
