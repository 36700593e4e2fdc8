------------------------------ MODULE Startup -------------------------------
(***************************************************************************)
(* The start of every Heimdall process, the daemon and each command of the *)
(* command line alike (app.Build): the configuration, the database and its *)
(* migrations, the management token, the gates, the salt and the master    *)
(* key; then what it does with them, and its end. Processes of one machine *)
(* share the database, the token file and the key file, and start, work    *)
(* and die in any order.                                                   *)
(*                                                                         *)
(* A step of a process is one statement on the shared disk. A secret is    *)
(* known by where it came from: a token by its number, a salt by the one   *)
(* who drew it, a key by its material and its salt.                        *)
(***************************************************************************)
EXTENDS GateGraph

CONSTANTS
    Procs,        \* the processes
    Credentials,  \* the rows of the vault
    Worlds,       \* what the processes find
    Latest,       \* the number of migrations (store/migrations)
    MaxTokens,    \* bound: management tokens drawn
    MaxStarts,    \* bound: starts of one process
    MayCrash      \* whether a process may be killed

ASSUME NoneAssumption == None \notin Procs
ASSUME BoundsAssumption == Latest \in Nat /\ MaxTokens \in Nat /\ MaxStarts \in Nat

VARIABLES
    world,      \* given: settings and key sources of each process; the key file
    version,    \* schema_version of the database
    tables,     \* the migrations whose tables it has
    hash,       \* the token whose hash it holds
    tokenFile,  \* the token in the 0600 file
    salt,       \* kdf_salt
    rows,       \* sealed credentials: the key each is sealed with
    drawn,      \* the number of tokens drawn so far
    starts,     \* the number of starts of each process
    pc,         \* where each process is
    settings,   \* its configuration
    gates,      \* its gates, in the order of each stage
    at,         \* the schema version a process migrates from
    token,      \* the token a process has drawn and not yet written
    has,        \* whether it found credentials in the vault
    mySalt,     \* the salt it has read or drawn
    key,        \* the material of its master key
    torn        \* history: a rotation overlapped another, or was cut short

disk == <<version, tables, hash, tokenFile, salt, rows>>
built == <<settings, gates>>
mine == <<settings, gates, at, token, has, mySalt, key>>
vars == <<world, version, tables, hash, tokenFile, salt, rows, drawn, starts, pc,
          settings, gates, at, token, has, mySalt, key, torn>>

Given(p) == world.given[p]

Stages == {"off", "failed", "open", "migrate", "token", "rotate", "write", "vault", "readSalt",
           "newSalt", "rereadSalt", "key", "ready", "importing", "rotating", "rewrite", "closing"}

TypeOK ==
    /\ world \in Worlds
    /\ version \in 0..Latest /\ tables \subseteq 1..Latest
    /\ hash \in 0..MaxTokens /\ tokenFile \in 0..MaxTokens /\ drawn \in 0..MaxTokens
    /\ salt \in Procs \cup {None}
    /\ pc \in [Procs -> Stages]
    /\ at \in [Procs -> 0..Latest]
    /\ token \in [Procs -> 0..MaxTokens]
    /\ has \in [Procs -> BOOLEAN]
    /\ mySalt \in [Procs -> Procs \cup {None}]
    /\ torn \in BOOLEAN

(* A new machine: no database, no token (0), no salt. The operator has     *)
(* written the configuration and put the key where the world says.         *)
Init ==
    /\ world \in Worlds
    /\ version = 0 /\ tables = {} /\ hash = 0 /\ tokenFile = 0 /\ salt = None
    /\ rows = [c \in Credentials |-> None]
    /\ drawn = 0 /\ starts = [p \in Procs |-> 0]
    /\ pc = [p \in Procs |-> "off"]
    /\ settings = [p \in Procs |-> Defaults] /\ gates = [p \in Procs |-> <<>>]
    /\ at = [p \in Procs |-> 0] /\ token = [p \in Procs |-> 0]
    /\ has = [p \in Procs |-> FALSE]
    /\ mySalt = [p \in Procs |-> None] /\ key = [p \in Procs |-> None]
    /\ torn = FALSE

Goto(p, s) == pc' = [pc EXCEPT ![p] = s]

-----------------------------------------------------------------------------
(* Build, part one: the settings, the database, the migrations.            *)

(* Load and Validate: a refused configuration starts nothing.              *)
Start(p) ==
    /\ p \in world.present
    /\ pc[p] \in {"off", "failed"} /\ starts[p] < MaxStarts
    /\ starts' = [starts EXCEPT ![p] = @ + 1]
    /\ settings' = [settings EXCEPT ![p] = load(Given(p))]
    /\ gates' = [gates EXCEPT ![p] = <<>>]
    /\ at' = [at EXCEPT ![p] = 0] /\ token' = [token EXCEPT ![p] = 0]
    /\ has' = [has EXCEPT ![p] = FALSE]
    /\ mySalt' = [mySalt EXCEPT ![p] = None] /\ key' = [key EXCEPT ![p] = None]
    /\ Goto(p, IF load(Given(p)).ok THEN "open" ELSE "failed")
    /\ UNCHANGED <<world, disk, drawn, torn>>

(* store.Open: the file is made 0600, or must be no more permissive than   *)
(* that. The migrations begin by reading the version, outside any          *)
(* transaction.                                                            *)
OpenStore(p) ==
    /\ pc[p] = "open"
    /\ at' = [at EXCEPT ![p] = version]
    /\ Goto(p, IF world.vaultPrivate THEN "migrate" ELSE "failed")
    /\ UNCHANGED <<world, disk, drawn, starts, built, token, has, mySalt, key, torn>>

(* One migration newer than the version read, in a transaction of its own: *)
(* its tables (IF NOT EXISTS) and the version together. Another process    *)
(* may have done it already, or be further on.                             *)
MigrateStep_Skips(p) ==       \* Mutant: <= current + 1 in the test of the version.
    /\ pc[p] = "migrate" /\ at[p] < Latest
    /\ at' = [at EXCEPT ![p] = Latest]
    /\ version' = Latest /\ tables' = tables \cup {Latest}
    /\ UNCHANGED <<world, hash, tokenFile, salt, rows, drawn, starts, pc, built, token, has,
                   mySalt, key, torn>>
MigrateStep(p) ==
    /\ pc[p] = "migrate" /\ at[p] < Latest
    /\ at' = [at EXCEPT ![p] = @ + 1]
    /\ version' = at[p] + 1 /\ tables' = tables \cup {at[p] + 1}
    /\ UNCHANGED <<world, hash, tokenFile, salt, rows, drawn, starts, pc, built, token, has,
                   mySalt, key, torn>>

(* A statement that fails (the database stays locked for five seconds, the *)
(* disk is full) rolls its transaction back and ends the boot.             *)
MigrateFails(p) ==
    /\ pc[p] = "migrate" /\ at[p] < Latest
    /\ Goto(p, "failed")
    /\ UNCHANGED <<world, disk, drawn, starts, mine, torn>>

Migrated(p) ==
    /\ pc[p] = "migrate" /\ at[p] = Latest
    /\ Goto(p, "token")
    /\ UNCHANGED <<world, disk, drawn, starts, mine, torn>>

-----------------------------------------------------------------------------
(* Build, part two: the management token.                                  *)

(* EnsureManagementTokenHash: with a hash stored there is nothing to do,   *)
(* the plaintext cannot be had again.                                      *)
EnsureToken(p) ==
    /\ pc[p] = "token"
    /\ Goto(p, IF hash # 0 THEN "vault" ELSE "rotate")
    /\ UNCHANGED <<world, disk, drawn, starts, mine, torn>>

(* RotateManagementToken: a new token is drawn and its hash replaces the   *)
(* stored one, at the first boot or for a command.                         *)
Owing(p) == pc[p] \in {"write", "rewrite"}
CommitHash_Only(p) ==       \* Mutant: the rotation forgets the token file.
    /\ pc[p] \in {"rotate", "rotating"} /\ drawn < MaxTokens
    /\ drawn' = drawn + 1 /\ hash' = drawn + 1
    /\ token' = [token EXCEPT ![p] = drawn + 1]
    /\ Goto(p, IF pc[p] = "rotate" THEN "write" ELSE "closing")
    /\ torn' = \E q \in Procs \ {p} : Owing(q)
    /\ UNCHANGED <<world, version, tables, tokenFile, salt, rows, starts, built, at, has,
                   mySalt, key>>
CommitHash(p) ==
    /\ pc[p] \in {"rotate", "rotating"} /\ drawn < MaxTokens
    /\ drawn' = drawn + 1 /\ hash' = drawn + 1
    /\ token' = [token EXCEPT ![p] = drawn + 1]
    /\ Goto(p, IF pc[p] = "rotate" THEN "write" ELSE "rewrite")
    /\ torn' = \E q \in Procs \ {p} : Owing(q)
    /\ UNCHANGED <<world, version, tables, tokenFile, salt, rows, starts, built, at, has,
                   mySalt, key>>

(* WriteTokenFile: a temporary file renamed into place, so that a reader   *)
(* sees one token or the other.                                            *)
Program(p) == world.program[p]
Done(p)    == IF Program(p) = "serve" THEN "ready" ELSE "closing"
Written(p) == IF pc[p] = "write" THEN "vault" ELSE Done(p)
WriteTokenFile(p) ==
    /\ Owing(p)
    /\ tokenFile' = token[p]
    /\ Goto(p, Written(p))
    /\ UNCHANGED <<world, version, tables, hash, salt, rows, drawn, starts, mine, torn>>

(* The file cannot be written: the hash is committed all the same. At the  *)
(* first boot and in a command that ends the process; the next one finds a *)
(* hash, the daemon answers with an error and goes on.                     *)
WriteFails(p) ==
    /\ Owing(p)
    /\ torn' = TRUE
    /\ Goto(p, IF pc[p] = "write" THEN "failed" ELSE Done(p))
    /\ UNCHANGED <<world, disk, drawn, starts, mine>>

-----------------------------------------------------------------------------
(* Build, part three: wireVault and the rest of the wiring.                *)

(* The provider families and the gates are built from the settings; then   *)
(* the process asks whether there are credentials.                         *)
HasCredentials(p) ==
    /\ pc[p] = "vault"
    /\ has' = [has EXCEPT ![p] = \E c \in Credentials : rows[c] # None]
    /\ gates' = [gates EXCEPT ![p] = [stage \in GateStages |-> orderStage(settings[p], stage)]]
    /\ Goto(p, IF GatesBuild(settings[p]) THEN "readSalt" ELSE "failed")
    /\ UNCHANGED <<world, disk, drawn, starts, settings, at, token, mySalt, key, torn>>

(* LoadOrCreateSalt: read it; if there is none draw one and insert it if   *)
(* there still is none; if there is, read that.                            *)
ReadSalt(p) ==
    /\ pc[p] = "readSalt"
    /\ mySalt' = [mySalt EXCEPT ![p] = salt]
    /\ Goto(p, IF salt = None THEN "newSalt" ELSE "key")
    /\ UNCHANGED <<world, disk, drawn, starts, built, at, token, has, key, torn>>

SetMetaIfAbsent(p) ==
    /\ pc[p] = "newSalt"
    /\ IF salt = None
       THEN salt' = p /\ mySalt' = [mySalt EXCEPT ![p] = p] /\ Goto(p, "key")
       ELSE UNCHANGED <<salt, mySalt>> /\ Goto(p, "rereadSalt")
    /\ UNCHANGED <<world, version, tables, hash, tokenFile, rows, drawn, starts, built, at,
                   token, has, key, torn>>

RereadSalt_Own(p) ==       \* Mutant: the loser of the race keeps its own salt.
    /\ pc[p] = "rereadSalt"
    /\ mySalt' = [mySalt EXCEPT ![p] = p]
    /\ Goto(p, "key")
    /\ UNCHANGED <<world, disk, drawn, starts, built, at, token, has, key, torn>>
RereadSalt(p) ==
    /\ pc[p] = "rereadSalt"
    /\ mySalt' = [mySalt EXCEPT ![p] = salt]
    /\ Goto(p, "key")
    /\ UNCHANGED <<world, disk, drawn, starts, built, at, token, has, key, torn>>

(* ResolveKEK as Build asks for it: the credential of systemd, which only  *)
(* a process that systemd started has; else the key file, which must be    *)
(* private and not empty. The keyring is not enabled and the environment   *)
(* not allowed. A source that is there and unusable is an error; none at   *)
(* all is one too, unless there is nothing to open yet.                    *)
Unusable == {"unreadable", "empty", "permissive"}
ResolveKEK(p) == IF Given(p).systemd # None THEN Given(p).systemd ELSE world.keyFile

WireVault(p) ==
    /\ pc[p] = "key"
    /\ LET material == ResolveKEK(p) IN
       /\ key' = [key EXCEPT ![p] = IF material \in Unusable THEN None ELSE material]
       /\ Goto(p, IF material \in Unusable \/ (material = None /\ has[p]) THEN "failed"
                  ELSE "ready")
    /\ UNCHANGED <<world, disk, drawn, starts, built, at, token, has, mySalt, torn>>

-----------------------------------------------------------------------------
(* What a running process does to the shared state, and how it ends. The   *)
(* daemon goes on until it is stopped, a command does the one thing it was *)
(* called for.                                                             *)

(* A secret is sealed with this process's key; without one the operation   *)
(* is refused. It opens with the same key and no other.                    *)
KEK(p)        == [material |-> key[p], salt |-> mySalt[p]]
HasSecrets(p) == key[p] # None
Sealed(p)     == KEK(p)
Opens(p, c)   == HasSecrets(p) /\ rows[c] = KEK(p)

(* AddAPIKey: the sealed key is written over what its row held.            *)
AddAPIKey(p, c) ==
    /\ pc[p] = "ready"
    /\ rows' = IF HasSecrets(p) THEN [rows EXCEPT ![c] = Sealed(p)] ELSE rows
    /\ Goto(p, Done(p))
    /\ UNCHANGED <<world, version, tables, hash, tokenFile, salt, drawn, starts, mine, torn>>

DeleteCredential(p, c) ==
    /\ pc[p] = "ready"
    /\ rows' = [rows EXCEPT ![c] = None]
    /\ UNCHANGED <<world, version, tables, hash, tokenFile, salt, drawn, starts, pc, mine, torn>>

(* `provider import`: a row for each credential found in the files of      *)
(* other programs, in no fixed order; a malformed file ends it with the    *)
(* rows already written in place.                                          *)
storeSealed(p, c) == [rows EXCEPT ![c] = Sealed(p)]
Import(p, c) ==
    /\ Program(p) = "import" /\ pc[p] \in {"ready", "importing"} /\ HasSecrets(p)
    /\ rows' = storeSealed(p, c)
    /\ Goto(p, "importing")
    /\ UNCHANGED <<world, version, tables, hash, tokenFile, salt, drawn, starts, mine, torn>>

(* `token rotate` and the management API's rotation begin.                 *)
Rotate(p) ==
    /\ pc[p] = "ready" /\ drawn < MaxTokens
    /\ Goto(p, "rotating")
    /\ UNCHANGED <<world, disk, drawn, starts, mine, torn>>

RotateCommand(p)    == Program(p) = "rotate" /\ Rotate(p)
AddKeyCommand(p, c) == Program(p) = "add-key" /\ AddAPIKey(p, c)
Serve(p) ==
    /\ Program(p) = "serve"
    /\ Rotate(p) \/ \E c \in Credentials : AddAPIKey(p, c) \/ DeleteCredential(p, c)

(* The server has shut down or the command is done (the commands that only *)
(* read are done at once): Close, and the end.                             *)
Close(p) ==
    /\ pc[p] \in {"ready", "importing", "closing"}
    /\ Goto(p, "off")
    /\ UNCHANGED <<world, disk, drawn, starts, mine, torn>>

Crash(p) ==
    /\ MayCrash /\ pc[p] \notin {"off", "failed"}
    /\ Goto(p, "off")
    /\ torn' = (torn \/ Owing(p))
    /\ UNCHANGED <<world, disk, drawn, starts, mine>>

(* What processes do by themselves, and what the daemon is asked to do.    *)
Background == \E p \in Procs :
    \/ Start(p) \/ OpenStore(p) \/ MigrateStep(p) \/ MigrateFails(p) \/ Migrated(p)
    \/ EnsureToken(p) \/ CommitHash(p) \/ WriteTokenFile(p) \/ WriteFails(p)
    \/ HasCredentials(p) \/ ReadSalt(p) \/ SetMetaIfAbsent(p) \/ RereadSalt(p) \/ WireVault(p)
    \/ RotateCommand(p) \/ Close(p) \/ Crash(p)
    \/ \E c \in Credentials : AddKeyCommand(p, c) \/ Import(p, c)

Next == Background \/ \E p \in Procs : Serve(p)

Spec == Init /\ [][Next]_vars

-----------------------------------------------------------------------------
(* What is open at a stage: past the migrations, past the vault.           *)
PastMigrations(p) == pc[p] \notin {"off", "failed", "open", "migrate"}
Running(p) == pc[p] \in {"ready", "importing", "rotating", "rewrite"}

(* No process works on a database that lacks a table, however the boots    *)
(* overlap: the version is read outside the transactions, so it may even   *)
(* go back, but it never promises tables that are not there.               *)
MigratedBeforeUse ==
    /\ 1..version \subseteq tables
    /\ \A p \in Procs : PastMigrations(p) => tables = 1..Latest

(* The token in the file opens the management API, unless two rotations    *)
(* overlapped or one was cut short between the hash and the file; and the  *)
(* next rotation that is neither repairs it.                               *)
TokenFileOpens ==
    ~torn /\ ~(\E p \in Procs : Owing(p)) => tokenFile = hash

(* What one process has sealed every process with the same key material    *)
(* can open: they agree on the salt, whoever drew it first.                *)
SealedOpens ==
    \A p \in Procs, c \in Credentials :
        /\ Running(p) /\ HasSecrets(p) /\ rows[c] # None
        /\ rows[c].material = key[p]
        => Opens(p, c)

(* A process that runs has the configuration its layers call for:          *)
(* environment over flags over file over default, each source named after  *)
(* the layer that set the value; and it is exposed only if some layer says *)
(* so.                                                                     *)
SettingsHonest ==
    \A p \in Procs : pc[p] = "open" =>
        LET c == settings[p]
            shown == RedactedFields(c)
            env   == envLayer(Given(p))
            flag  == flagLayer(Given(p))
            file  == fileLayer(Given(p))
            From(layer, name, ks) ==
                \A k \in ks : shown[k].source = name /\ Value(c, k) = layer[k]
        IN  /\ From(env, "env", DOMAIN shown \cap DOMAIN env)
            /\ From(flag, "flag", (DOMAIN shown \cap DOMAIN flag) \ DOMAIN env)
            /\ From(file, "file", (DOMAIN shown \cap DOMAIN file)
                                     \ (DOMAIN env \cup DOMAIN flag))
            /\ \A k \in DOMAIN shown \ (DOMAIN env \cup DOMAIN flag \cup DOMAIN file) :
                 shown[k].source = "default" /\ Value(c, k) = Default(k)
            /\ ~IsLoopback(Value(c, Plain("server.host")))
               => shown[Plain("server.allow_remote")].source # "default"

(* In every stage a gate runs after all those that write what it reads:    *)
(* the guards see the text as it goes out, whatever the switches leave on; *)
(* and `gate list` shows every gate once.                                  *)
GatesInOrder ==
    \A p \in Procs : pc[p] = "readSalt" =>
        LET c == settings[p]
            shown == GateInfos(c)
        IN  /\ \A stage \in GateStages :
                 LET order == gates[p][stage] IN
                 \A i \in DOMAIN order : \A j \in 1..i :
                     Declared(c, order[i]).writes \cap Declared(c, order[j]).reads # {} => i = j
            /\ {shown[i] : i \in DOMAIN shown} = Enabled(c)
            /\ Len(shown) = Cardinality(Enabled(c))
=============================================================================
