------------------------------ MODULE Settings ------------------------------
(***************************************************************************)
(* How a process arrives at its configuration (config/load.go): defaults,  *)
(* then the file, the flags and the environment, each overriding what lies *)
(* below it, with the layer that set each key kept as its source; then the *)
(* checks without which nothing starts (config/config.go).                 *)
(*                                                                         *)
(* A key is a pair <<scope, name>>: scope 0 for a plain key, i > 0 for a   *)
(* field of the i-th [[providers]] entry, -1 for the switch of one gate.   *)
(* A few names stand for each kind of value (text, boolean, number); an    *)
(* address is its kind ("loopback", "any"), a URL likewise ("https",       *)
(* "local-http", "remote-http", "denied").                                 *)
(***************************************************************************)
EXTENDS Integers, Sequences, TLC

CONSTANT None       \* no path, no value

Plain(n)       == <<0, n>>
Provider(i, n) == <<i, n>>
Switch(g)      == <<-1, g>>

Engine == Plain("features.gates.token.engines.x.enabled")

Booleans == {Engine} \cup {Plain(n) : n \in {"server.allow_remote", "features.gates.token",
                               "features.gates.memory", "features.gates.security",
                               "security.require_client_key"}}
Numbers  == {Plain(n) : n \in {"server.port", "features.gates.security.rate_limit.rate",
                               "features.gates.security.rate_limit.interval",
                               "features.gates.memory.embeddings.dim"}}
Texts    == {Plain(n) : n \in {"server.host", "log.level", "store.path", "store.token_path",
                               "security.cors_allowed_origins", "security.host_allowlist",
                               "passthrough.api_key", "features.gates.security.pii_policy",
                               "features.gates.security.injection_policy",
                               "features.gates.memory.embeddings.base_url"}}
ProviderBooleans == {"enabled", "allow_loopback"}
ProviderNumbers  == {"ttft", "idle"}
ProviderTexts    == {"id", "base_url", "auth_header", "client_secret", "client_secret_env"}
ProviderFields   == ProviderBooleans \cup ProviderNumbers \cup ProviderTexts

IsSwitch(k)   == k[1] = -1
OfProvider(k) == k[1] > 0
KnownKey(k)   == IsSwitch(k) \/ OfProvider(k) \/ k \in Booleans \cup Numbers \cup Texts
(* What `set` assigns; it ignores a provider's field it does not know.     *)
Settable(k)   == KnownKey(k) /\ (OfProvider(k) => k[2] \in ProviderFields)

IsBoolean(k) == IsSwitch(k) \/ k \in Booleans \/ (OfProvider(k) /\ k[2] \in ProviderBooleans)
IsNumber(k)  == k \in Numbers \/ (OfProvider(k) /\ k[2] \in ProviderNumbers)

(* The parsers accept true and false, and numbers; a value "bad" is none.  *)
Parses(k, v) == IF IsBoolean(k) THEN v \in {"true", "false"}
                ELSE IsNumber(k) => v # "bad"

Default(k) ==
    CASE k = Plain("server.host")  -> "loopback"
      [] k = Plain("server.port")  -> "8787"
      [] k = Plain("log.level")    -> "info"
      [] k = Plain("store.path")   -> "home/heimdall.db"
      [] k = Plain("store.token_path") -> "home/management-token"
      [] k = Plain("features.gates.security.pii_policy") -> "mask"
      [] k = Plain("features.gates.security.injection_policy") -> "block"
      [] k = Engine                -> "true"
      [] OTHER -> IF IsBoolean(k) THEN "false" ELSE IF IsNumber(k) THEN "0" ELSE ""

(* A configuration: the values set so far, the number of [[providers]]     *)
(* entries, the source of every key some layer has named.                  *)
Refused    == [ok |-> FALSE]
Defaults   == [ok |-> TRUE, value |-> <<>>, providers |-> 0, source |-> <<>>]
Value(c, k)  == IF k \in DOMAIN c.value THEN c.value[k] ELSE Default(k)
IsOn(c, k)   == Value(c, k) = "true"
SourceOf(c, k) == IF k \in DOMAIN c.source THEN c.source[k] ELSE "default"

-----------------------------------------------------------------------------
(* What a process is given: the --config flag, HEIMDALL_CONFIG, the files  *)
(* that exist, the other flags, the environment. A file is unreadable, or  *)
(* has a version and values.                                               *)
CurrentVersion == 1
DefaultFiles   == <<"heimdall.toml", "config.toml">>

ResolvePath(g) ==
    IF g.config # None THEN g.config
    ELSE IF g.envConfig # None THEN g.envConfig
    ELSE LET found == SelectSeq(DefaultFiles, LAMBDA f : f \in DOMAIN g.files)
         IN  IF found = <<>> THEN None ELSE Head(found)

Explicit(g) == g.config # None \/ g.envConfig # None

(* A named file must exist, a default one need not; either must be valid   *)
(* and of no newer version (an older one is upgraded, which only bumps its *)
(* number).                                                                *)
FileAccepted(g) ==
    LET path == ResolvePath(g) IN
    IF path \notin DOMAIN g.files THEN ~Explicit(g)
    ELSE /\ g.files[path].valid
         /\ g.files[path].version \in 0..CurrentVersion

fileLayer(g) == LET path == ResolvePath(g)
                IN  IF path \in DOMAIN g.files THEN g.files[path].values ELSE <<>>

Only(f, ks) == [k \in ks |-> f[k]]
Over(f, g)  == [k \in DOMAIN f \cup DOMAIN g |-> IF k \in DOMAIN f THEN f[k] ELSE g[k]]

(* `_` in a flag's name becomes `-` and then `.`, so of the keys with an   *)
(* underscore only allow-remote, which has a case of its own, gets through.*)
Underscored == {"store.token_path", "security.require_client_key",
                "security.cors_allowed_origins", "security.host_allowlist",
                "passthrough.api_key",
                "features.gates.security.pii_policy",
                "features.gates.security.injection_policy",
                "features.gates.security.rate_limit.rate",
                "features.gates.security.rate_limit.interval",
                "features.gates.memory.embeddings.base_url",
                "base_url", "auth_header", "allow_loopback", "client_secret",
                "client_secret_env"}
flagLayer(g) == Only(g.flags, {k \in DOMAIN g.flags : k[2] \notin Underscored})

(* Only the variables of the table, the fields of providers and the        *)
(* switches of gates are read from the environment.                        *)
EnvKeys == {Plain(n) : n \in {"server.host", "server.port", "server.allow_remote",
                              "log.level", "store.path", "store.token_path",
                              "features.gates.token", "features.gates.memory",
                              "features.gates.security", "security.require_client_key",
                              "security.cors_allowed_origins", "security.host_allowlist",
                              "passthrough.api_key"}}
envLayer(g) ==
    Only(g.env, {k \in DOMAIN g.env : \/ k \in EnvKeys \/ IsSwitch(k)
                                      \/ OfProvider(k) /\ k[2] \in ProviderFields})

(* One layer over what lies below it. A value that does not parse ends the *)
(* load, even where a higher layer would override it. Setting a field of   *)
(* an entry makes all the entries before it.                               *)
ApplyLayer_Below(c, values, source) ==       \* Mutant: a lower layer wins.
    LET named   == {k \in DOMAIN values : KnownKey(k)}
        sets    == {k \in named : Settable(k)}
        entries == {c.providers} \cup {k[1] : k \in {x \in named : OfProvider(x)}}
    IN  IF ~c.ok \/ \E k \in sets : ~Parses(k, values[k]) THEN Refused
        ELSE [ok |-> TRUE,
              value  |-> Over(c.value, Only(values, sets)),
              providers |-> CHOOSE n \in entries : \A m \in entries : m <= n,
              source |-> Over(c.source, [k \in named |-> source])]
ApplyLayer(c, values, source) ==
    LET named   == {k \in DOMAIN values : KnownKey(k)}
        sets    == {k \in named : Settable(k)}
        entries == {c.providers} \cup {k[1] : k \in {x \in named : OfProvider(x)}}
    IN  IF ~c.ok \/ \E k \in sets : ~Parses(k, values[k]) THEN Refused
        ELSE [ok |-> TRUE,
              value  |-> Over(Only(values, sets), c.value),
              providers |-> CHOOSE n \in entries : \A m \in entries : m <= n,
              source |-> Over([k \in named |-> source], c.source)]

-----------------------------------------------------------------------------
(* Validation.                                                             *)
IsLoopback(host) == host \in {"loopback", "localhost"}

ValidProvider(c, i) ==
    LET url == Value(c, Provider(i, "base_url")) IN
    /\ Value(c, Provider(i, "id")) # ""
    /\ Value(c, Provider(i, "auth_header")) \in {"", "bearer", "x-api-key"}
    /\ Value(c, Provider(i, "client_secret_env")) # "blank"
    /\ IsOn(c, Provider(i, "enabled")) => url # ""
    /\ url \notin {"denied", "remote-http"}
    /\ url = "https" => ~IsOn(c, Provider(i, "allow_loopback"))
    /\ url = "local-http" => IsOn(c, Provider(i, "allow_loopback"))

ValidGates(c) ==
    /\ Value(c, Plain("features.gates.security.pii_policy")) \in {"", "mask", "block", "off"}
    /\ Value(c, Plain("features.gates.security.injection_policy")) \in {"", "block", "flag"}
    /\ Value(c, Plain("features.gates.security.rate_limit.rate")) # "-1"
    /\ Value(c, Plain("features.gates.security.rate_limit.rate")) # "0"
       => Value(c, Plain("features.gates.security.rate_limit.interval")) \notin {"0", "-1"}
    /\ Value(c, Plain("features.gates.memory.embeddings.base_url")) \in {"", "https"}
    /\ Value(c, Plain("features.gates.memory.embeddings.base_url")) = "https"
       => Value(c, Plain("features.gates.memory.embeddings.dim")) \notin {"0", "-1"}

Validate(c) ==
    /\ c.ok
    /\ Value(c, Plain("server.port")) \notin {"0", "-1", "65536"}
    /\ ~IsLoopback(Value(c, Plain("server.host"))) => IsOn(c, Plain("server.allow_remote"))
    /\ Value(c, Plain("log.level")) \in {"debug", "info", "warn", "error"}
    /\ Value(c, Plain("store.path")) # ""
    /\ \A i \in 1..c.providers : ValidProvider(c, i)
    /\ Value(c, Plain("security.cors_allowed_origins")) \notin {"*", "bare"}
    /\ ValidGates(c)

load(g) ==
    LET c == ApplyLayer(ApplyLayer(ApplyLayer(Defaults, fileLayer(g), "file"),
                                   flagLayer(g), "flag"),
                        envLayer(g), "env")
    IN  IF FileAccepted(g) /\ Validate(c) THEN c ELSE Refused

-----------------------------------------------------------------------------
(* What the rest of the program reads.                                     *)

(* The switch of one gate wins over that of its group, whatever layers the *)
(* two come from.                                                          *)
GateEnabled(c, gate, group) ==
    IF Switch(gate) \in DOMAIN c.value THEN c.value[Switch(gate)] = "true" ELSE group

(* The entry a provider's family is built with: the last one of its id.    *)
EntriesOf(c, id) == {i \in 1..c.providers : Value(c, Provider(i, "id")) = id}
FamilyURL(c, id) ==
    IF EntriesOf(c, id) = {} THEN ""
    ELSE Value(c, Provider(CHOOSE i \in EntriesOf(c, id) : \A j \in EntriesOf(c, id) : j <= i,
                           "base_url"))
(* The catalogue of models asks only whether some entry enables it.        *)
Offered(c, id) == \E i \in EntriesOf(c, id) : IsOn(c, Provider(i, "enabled"))

(* The OAuth client secret of one entry: the value itself, else the        *)
(* variable it names.                                                      *)
ResolveClientSecret(c, i, vars) ==
    LET direct == Value(c, Provider(i, "client_secret"))
        name   == Value(c, Provider(i, "client_secret_env"))
    IN  IF direct # "" THEN direct
        ELSE IF name \in DOMAIN vars THEN vars[name] ELSE ""

(* `config show`: every effective field, its secrets blanked, its source.  *)
SecretKey(k) == k = Plain("passthrough.api_key") \/ k[2] = "client_secret"
ShownKeys(c) == (Booleans \ {Engine}) \cup Numbers \cup Texts
                \cup {k \in DOMAIN c.value : IsSwitch(k) \/ k = Engine}
                \cup {Provider(i, n) : i \in 1..c.providers, n \in ProviderFields}
RedactedFields(c) ==
    [k \in ShownKeys(c) |-> [value  |-> IF SecretKey(k) THEN "[REDACTED]" ELSE Value(c, k),
                             source |-> SourceOf(c, k)]]
=============================================================================
