----------------------------- MODULE MCStartup ------------------------------
(* Small instances of Startup: a daemon and a command on one machine. In   *)
(* the plain worlds they contend for the disk; in the others one of them   *)
(* is given the layers of settings worth telling apart.                    *)
EXTENDS Access

CONSTANTS d, c1, r1, r2

File(values) == ("heimdall.toml" :> [valid |-> TRUE, version |-> 1, values |-> values])
Bare   == [config |-> None, envConfig |-> None, files |-> <<>>, flags |-> <<>>, env |-> <<>>,
           systemd |-> None]
Host   == Plain("server.host")
Remote == Plain("server.allow_remote")
Port   == Plain("server.port")
Base   == (Provider(1, "id") :> "one") @@ (Provider(1, "base_url") :> "https")

(* Each entry differs from Bare in what one process is given.              *)
Layered == {
    [Bare EXCEPT !.files = File((Host :> "any") @@ (Remote :> "true") @@ (Port :> "9000")),
                 !.flags = (Port :> "9001"), !.env = (Port :> "9002") @@ (Host :> "loopback")],
    [Bare EXCEPT !.files = File(Port :> "9000"), !.flags = (Host :> "any")],
    [Bare EXCEPT !.files = File((Remote :> "true") @@ (Host :> "any")), !.env = (Remote :> "false")],
    [Bare EXCEPT !.files = File(Port :> "bad"), !.env = (Port :> "9002")],
    [Bare EXCEPT !.config = "mine.toml"],
    [Bare EXCEPT !.config = "mine.toml", !.files =
        ("mine.toml" :> [valid |-> TRUE, version |-> 0, values |-> (Port :> "9000")])
        @@ File(Port :> "1")],
    [Bare EXCEPT !.envConfig = "mine.toml", !.files =
        ("mine.toml" :> [valid |-> TRUE, version |-> 2, values |-> (Port :> "9000")])],
    [Bare EXCEPT !.files = File(Base @@ (Provider(1, "colour") :> "red")),
                 !.env = (Provider(2, "id") :> "two")],
    [Bare EXCEPT !.files = File(Base @@ (Provider(1, "enabled") :> "true")),
                 !.env = (Provider(3, "id") :> "three")],
    [Bare EXCEPT !.files = File(Base @@ (Provider(1, "base_url") :> "local-http")),
                 !.env = (Provider(1, "allow_loopback") :> "true") @@ (Provider(1, "client_secret") :> "s")],
    [Bare EXCEPT !.env = (Plain("features.gates.security") :> "true")
                         @@ (Plain("features.gates.memory") :> "true")
                         @@ (Plain("features.gates.token") :> "true")],
    [Bare EXCEPT !.env = (Plain("features.gates.security") :> "true"), !.files =
        File((Switch("pii-masker") :> "false") @@ (Switch("token") :> "true")
             @@ (Plain("features.gates.security.injection_policy") :> "flag")
             @@ (Plain("features.gates.security.rate_limit.rate") :> "5")
             @@ (Plain("features.gates.security.rate_limit.interval") :> "60"))],
    [Bare EXCEPT !.env = (Switch("memory-retriever") :> "true") @@ (Switch("logger") :> "false")
                         @@ (Switch("injection-guard") :> "true")]}

World(mineIs, keyIs) == [given |-> [p \in Procs |-> IF p = d THEN mineIs ELSE Bare],
                         keyFile |-> keyIs, vaultPrivate |-> TRUE, present |-> Procs,
                         program |-> [p \in Procs |-> IF p = d THEN "serve" ELSE "rotate"],
                         traffic |-> {}, end |-> 0]
Alone(g) == [World(g, "k1") EXCEPT !.present = {d}]

(* The key in the file, and one that systemd hands to the daemon beside it;*)
(* the sources of a key, and a vault, that a process alone gives up on.    *)
Runs(w, name) == [w EXCEPT !.program[c1] = name]
Contended == {World(Bare, "k1"), World(Bare, None), World([Bare EXCEPT !.systemd = "k2"], "k1")}
Unready   == {[Alone(Bare) EXCEPT !.keyFile = "empty"],
              [Alone(Bare) EXCEPT !.vaultPrivate = FALSE],
              Alone([Bare EXCEPT !.systemd = "unreadable"])}

(* Worlds with traffic: wrong tokens; the management of secrets beside     *)
(* their use, with a command at the same work; clients at their limit; and *)
(* requests of every form, most of them from strangers.                    *)
Sent(route, method, authorization, header) ==
    [route |-> route, method |-> method, authorization |-> authorization, header |-> header,
     peer |-> "loopback", host |-> "loopback", origin |-> "", query |-> FALSE, body |-> TRUE]
Read == Sent("mgmt/read", "GET", "bearer", "none")
Chat == Sent("v1/chat", "POST", "bearer", "none")
Open(g, traffic, end) == [Alone(g) EXCEPT !.traffic = traffic, !.end = end]

Limits  == [Bare EXCEPT !.env = (Switch("rate-limit") :> "true"), !.files =
            File((Plain("features.gates.security.rate_limit.rate") :> "5")
                 @@ (Plain("features.gates.security.rate_limit.interval") :> "60"))]
Careful == [Bare EXCEPT !.env = (Plain("security.require_client_key") :> "true")
                @@ (Plain("security.cors_allowed_origins") :> "gui")
                @@ (Plain("security.host_allowlist") :> "nickname")]
Rotating == Sent("mgmt/rotate", "POST", "bearer", "none")
Keying   == {Sent("mgmt/create-key", "POST", "none", "x-management-token"),
             Sent("mgmt/revoke-key", "POST", "bearer", "none"), Chat}
Strange == {[Read EXCEPT !.peer = "remote"], [Chat EXCEPT !.host = "foreign"],
            [Read EXCEPT !.host = "nickname"], [Read EXCEPT !.authorization = "other"],
            [Chat EXCEPT !.origin = "foreign"], [Chat EXCEPT !.authorization = "other"],
            [Chat EXCEPT !.authorization = "none", !.header = "x-api-key"],
            [Chat EXCEPT !.authorization = "none"], [Chat EXCEPT !.query = TRUE],
            [Chat EXCEPT !.method = "OPTIONS", !.origin = "gui"],
            Sent("mgmt/add-credential", "POST", "bearer", "none"),
            [Sent("mgmt/delete-credential", "POST", "bearer", "none") EXCEPT !.origin = "foreign"],
            [Sent("mgmt/delete-credential", "POST", "bearer", "none") EXCEPT !.origin = "gui"],
            [Sent("mgmt/create-key", "POST", "bearer", "none") EXCEPT !.body = FALSE],
            Sent("web", "GET", "none", "none"), Sent("v1/unknown", "POST", "bearer", "none")}

Guessing  == {Open(Bare, {Read}, 5)}
Managed   == {Open(Bare, {Rotating}, 1), Open(Bare, Keying, 0)}
Beside    == {[Open(Limits, {Chat}, 0) EXCEPT !.present = Procs, !.program[c1] = "client-key"]}
Throttled == {Open(Limits, {[Chat EXCEPT !.authorization = "none"],
                            Sent("v1/models", "GET", "none", "none")}, 3)}
Strangers == {Open(Careful, Strange, 0)}

AllWorlds == {Runs(w, "add-key") : w \in Contended}
              \cup {Runs(World(Bare, "k1"), name) : name \in {"import", "serve", "rotate"}}
              \cup {Alone(g) : g \in Layered} \cup Unready
              \cup Guessing \cup Managed \cup Beside \cup Throttled \cup Strangers

(* The slots of requests are alike. A machine sees three starts in all;   *)
(* where the traffic is of one daemon whose restart it does not outlive,   *)
(* there is none.                                                          *)
Slots     == Permutations({r1, r2})
OneLife   == Guessing \cup Strangers \cup Throttled
FewStarts == starts[d] + starts[c1] <= IF world \in OneLife THEN 1 ELSE 3
=============================================================================
