---------------------------- MODULE AccessProofs -----------------------------
(***************************************************************************)
(* Proofs about Startup, for any processes, credentials and worlds, and    *)
(* any number of migrations, tokens and starts; and about Access: requests *)
(* add nothing to what Startup lets happen to the shared disk, and only    *)
(* the entitled are served, for any number of requests, keys, tokens and   *)
(* restarts, any traffic and any settings.                                 *)
(***************************************************************************)
EXTENDS Access, SequenceTheorems, FiniteSetTheorems, WellFoundedInduction, TLAPS

-----------------------------------------------------------------------------
(* The invariant. The maps of keys and rows have their domains.            *)
Total == key = [p \in Procs |-> key[p]] /\ rows = [c \in Credentials |-> rows[c]]

(* A version that is stored, or that a process migrates from, promises the *)
(* tables up to it; past the migrations all are there.                     *)
Promised ==
    /\ 1..version \subseteq tables
    /\ \A p \in Procs : pc[p] = "migrate" => 1..at[p] \subseteq tables
    /\ \A p \in Procs : PastMigrations(p) => tables = 1..Latest

(* While no rotation is torn one process at most owes the file a token,    *)
(* and that is the one whose hash is stored.                               *)
Owed ==
    ~torn =>
        /\ \A p, q \in Procs : Owing(p) /\ Owing(q) => p = q
        /\ \A p \in Procs : Owing(p) => token[p] = hash
        /\ (\A p \in Procs : ~Owing(p)) => tokenFile = hash

(* The salt is drawn once: whoever has one to use has the stored one, and  *)
(* what is sealed is sealed with it.                                       *)
Salting(p) == pc[p] \in {"key", "ready", "importing", "rotating", "rewrite"}
Salted ==
    /\ \A p \in Procs : Salting(p) => salt # None /\ mySalt[p] = salt
    /\ \A p \in Procs : pc[p] = "rereadSalt" => salt # None
    /\ \A c \in Credentials : rows[c] # None =>
         salt # None /\ rows[c] = [material |-> rows[c].material, salt |-> salt]

IInv == TypeOK /\ Total /\ Promised /\ Owed /\ Salted

(* A new machine satisfies it.                                             *)
LEMMA InitIInv == Init => IInv
<1> SUFFICES ASSUME Init PROVE IInv  OBVIOUS
<1>1. TypeOK
  <2>1. /\ world \in Worlds /\ version \in 0..Latest /\ tables \subseteq 1..Latest
        /\ hash \in 0..MaxTokens /\ tokenFile \in 0..MaxTokens /\ drawn \in 0..MaxTokens
    BY BoundsAssumption DEF Init
  <2>2. /\ salt \in Procs \cup {None} /\ pc \in [Procs -> Stages]
        /\ has \in [Procs -> BOOLEAN] /\ mySalt \in [Procs -> Procs \cup {None}]
        /\ torn \in BOOLEAN
    BY DEF Init, Stages
  <2>3. at \in [Procs -> 0..Latest] /\ token \in [Procs -> 0..MaxTokens]
    BY BoundsAssumption DEF Init
  <2> QED BY <2>1, <2>2, <2>3 DEF TypeOK
<1>2. Total  BY DEF Init, Total
<1>3. Promised  BY BoundsAssumption DEF Init, Promised, PastMigrations
<1>4. Owed  BY DEF Init, Owed, Owing
<1>5. Salted  BY DEF Init, Salted, Salting
<1> QED BY <1>1, <1>2, <1>3, <1>4, <1>5 DEF IInv

-----------------------------------------------------------------------------
(* What a step of a process may do to the shared disk, whatever the reason:*)
(* Access has reasons of its own.                                          *)
Act(p) ==
    \/ Start(p) \/ OpenStore(p) \/ MigrateStep(p) \/ MigrateFails(p) \/ Migrated(p)
    \/ EnsureToken(p) \/ CommitHash(p) \/ WriteTokenFile(p) \/ WriteFails(p)
    \/ HasCredentials(p) \/ ReadSalt(p) \/ SetMetaIfAbsent(p) \/ RereadSalt(p) \/ WireVault(p)
    \/ Rotate(p) \/ Close(p) \/ Crash(p)
    \/ \E c \in Credentials : AddAPIKey(p, c) \/ DeleteCredential(p, c) \/ Import(p, c)

(* Every step of Startup is one of these.                                  *)
LEMMA NextActs == Next => \E p \in Procs : Act(p)
  BY DEF Next, Background, Serve, RotateCommand, AddKeyCommand, Act

(* A process that only moves, between stages where it owes nothing, keeps  *)
(* the invariant if the stage it moves to asks for no more.                *)
LEMMA Moving ==
    ASSUME IInv, NEW p \in Procs, NEW s \in Stages,
           Goto(p, s), UNCHANGED <<world, disk, drawn, starts, mine, torn>>,
           s \notin {"migrate", "write", "rewrite", "rereadSalt", "key"}, ~Owing(p),
           s \in {"off", "failed"} \/ PastMigrations(p)
             \/ (pc[p] = "migrate" /\ at[p] = Latest /\ s = "token"),
           s \in {"ready", "importing", "rotating"} => Salting(p)
    PROVE  IInv'
<1>1. TypeOK'  BY DEF IInv, TypeOK, Goto, disk, mine
<1>2. Total'  BY DEF IInv, Total, disk, mine
<1>3. Promised'
  BY BoundsAssumption DEF IInv, TypeOK, Promised, PastMigrations, Goto, disk, mine
<1>4. Owed'  BY DEF IInv, TypeOK, Owed, Owing, Goto, disk, mine
<1>5. Salted'  BY DEF IInv, TypeOK, Salted, Salting, Goto, disk, mine
<1> QED BY <1>1, <1>2, <1>3, <1>4, <1>5 DEF IInv
-----------------------------------------------------------------------------
(* Every step of a process preserves the invariant.                        *)
LEMMA ActPreserves == ASSUME IInv, NEW p \in Procs, Act(p) PROVE IInv'
<1> USE DEF IInv, Goto, disk, mine, built, Stages
<1>1. CASE Start(p)
  <2>1. TypeOK'  BY <1>1, BoundsAssumption DEF Start, TypeOK
  <2>2. Total'  BY <1>1 DEF Start, Total
  <2>3. Promised'  BY <1>1, BoundsAssumption DEF Start, TypeOK, Promised, PastMigrations
  <2>4. Owed'  BY <1>1 DEF Start, TypeOK, Owed, Owing
  <2>5. Salted'  BY <1>1, NoneAssumption DEF Start, TypeOK, Salted, Salting
  <2> QED BY <2>1, <2>2, <2>3, <2>4, <2>5 DEF IInv
<1>2. CASE OpenStore(p)
  <2>1. TypeOK'  BY <1>2, BoundsAssumption DEF OpenStore, TypeOK
  <2>2. Total'  BY <1>2 DEF OpenStore, Total
  <2>3. Promised'
    BY <1>2, BoundsAssumption DEF OpenStore, TypeOK, Promised, PastMigrations
  <2>4. Owed'  BY <1>2 DEF OpenStore, TypeOK, Owed, Owing
  <2>5. Salted'  BY <1>2, NoneAssumption DEF OpenStore, TypeOK, Salted, Salting
  <2> QED BY <2>1, <2>2, <2>3, <2>4, <2>5 DEF IInv
<1>3. CASE MigrateStep(p)
  <2>1. TypeOK'
    <3>1. at[p] \in 0..Latest /\ at[p] + 1 \in 1..Latest
      BY <1>3, BoundsAssumption DEF MigrateStep, TypeOK
    <3>2. version' = at[p] + 1 /\ tables' = tables \cup {at[p] + 1}
          /\ at' = [at EXCEPT ![p] = at[p] + 1]
      BY <1>3 DEF MigrateStep
    <3>3. version' \in 0..Latest  BY <3>1, <3>2, BoundsAssumption
    <3>4. tables' \subseteq 1..Latest  BY <3>1, <3>2 DEF TypeOK
    <3>5. at[p] + 1 \in 0..Latest  BY <3>1, BoundsAssumption
    <3>6. at' \in [Procs -> 0..Latest]  BY <3>2, <3>5 DEF TypeOK
    <3> QED BY <1>3, <3>3, <3>4, <3>6 DEF MigrateStep, TypeOK
  <2>2. Total'  BY <1>3 DEF MigrateStep, Total
  <2>3. Promised'
    BY <1>3, BoundsAssumption DEF MigrateStep, TypeOK, Promised, PastMigrations
  <2>4. Owed'  BY <1>3 DEF MigrateStep, TypeOK, Owed, Owing
  <2>5. Salted'  BY <1>3, NoneAssumption DEF MigrateStep, TypeOK, Salted, Salting
  <2> QED BY <2>1, <2>2, <2>3, <2>4, <2>5 DEF IInv
<1>4. CASE CommitHash(p)
  <2>1. TypeOK'  BY <1>4, BoundsAssumption DEF CommitHash, TypeOK
  <2>2. Total'  BY <1>4 DEF CommitHash, Total
  <2>3. Promised'
    BY <1>4, BoundsAssumption DEF CommitHash, TypeOK, Promised, PastMigrations
  <2>4. Owed'  BY <1>4 DEF CommitHash, TypeOK, Owed, Owing
  <2>5. Salted'  BY <1>4, NoneAssumption DEF CommitHash, TypeOK, Salted, Salting
  <2> QED BY <2>1, <2>2, <2>3, <2>4, <2>5 DEF IInv
<1>5. CASE WriteTokenFile(p)
  <2>1. TypeOK'
    BY <1>5, BoundsAssumption DEF WriteTokenFile, Owing, Written, Done, TypeOK
  <2>2. Total'  BY <1>5 DEF WriteTokenFile, Written, Done, Total
  <2>3. Promised'
    BY <1>5, BoundsAssumption
    DEF WriteTokenFile, Owing, Written, Done, TypeOK, Promised, PastMigrations
  <2>4. Owed'  BY <1>5 DEF WriteTokenFile, Written, Done, TypeOK, Owed, Owing
  <2>5. Salted'
    BY <1>5, NoneAssumption
    DEF WriteTokenFile, Owing, Written, Done, TypeOK, Salted, Salting
  <2> QED BY <2>1, <2>2, <2>3, <2>4, <2>5 DEF IInv
<1>6. CASE WriteFails(p)
  <2>1. TypeOK'  BY <1>6, BoundsAssumption DEF WriteFails, Owing, Done, TypeOK
  <2>2. Total'  BY <1>6 DEF WriteFails, Done, Total
  <2>3. Promised'
    BY <1>6, BoundsAssumption
    DEF WriteFails, Owing, Done, TypeOK, Promised, PastMigrations
  <2>4. Owed'  BY <1>6 DEF WriteFails, Done, TypeOK, Owed, Owing
  <2>5. Salted'
    BY <1>6, NoneAssumption DEF WriteFails, Owing, Done, TypeOK, Salted, Salting
  <2> QED BY <2>1, <2>2, <2>3, <2>4, <2>5 DEF IInv
<1>7. CASE HasCredentials(p)
  <2>1. TypeOK'  BY <1>7, BoundsAssumption DEF HasCredentials, TypeOK
  <2>2. Total'  BY <1>7 DEF HasCredentials, Total
  <2>3. Promised'
    BY <1>7, BoundsAssumption DEF HasCredentials, TypeOK, Promised, PastMigrations
  <2>4. Owed'  BY <1>7 DEF HasCredentials, TypeOK, Owed, Owing
  <2>5. Salted'  BY <1>7, NoneAssumption DEF HasCredentials, TypeOK, Salted, Salting
  <2> QED BY <2>1, <2>2, <2>3, <2>4, <2>5 DEF IInv
<1>8. CASE ReadSalt(p)
  <2>1. TypeOK'  BY <1>8, BoundsAssumption DEF ReadSalt, TypeOK
  <2>2. Total'  BY <1>8 DEF ReadSalt, Total
  <2>3. Promised'
    BY <1>8, BoundsAssumption DEF ReadSalt, TypeOK, Promised, PastMigrations
  <2>4. Owed'  BY <1>8 DEF ReadSalt, TypeOK, Owed, Owing
  <2>5. Salted'  BY <1>8, NoneAssumption DEF ReadSalt, TypeOK, Salted, Salting
  <2> QED BY <2>1, <2>2, <2>3, <2>4, <2>5 DEF IInv
<1>9. CASE SetMetaIfAbsent(p)
  <2>1. TypeOK'  BY <1>9, BoundsAssumption DEF SetMetaIfAbsent, TypeOK
  <2>2. Total'  BY <1>9 DEF SetMetaIfAbsent, Total
  <2>3. Promised'
    BY <1>9, BoundsAssumption DEF SetMetaIfAbsent, TypeOK, Promised, PastMigrations
  <2>4. Owed'  BY <1>9 DEF SetMetaIfAbsent, TypeOK, Owed, Owing
  <2>5. Salted'  BY <1>9, NoneAssumption DEF SetMetaIfAbsent, TypeOK, Salted, Salting
  <2> QED BY <2>1, <2>2, <2>3, <2>4, <2>5 DEF IInv
<1>10. CASE RereadSalt(p)
  <2>1. TypeOK'  BY <1>10, BoundsAssumption DEF RereadSalt, TypeOK
  <2>2. Total'  BY <1>10 DEF RereadSalt, Total
  <2>3. Promised'
    BY <1>10, BoundsAssumption DEF RereadSalt, TypeOK, Promised, PastMigrations
  <2>4. Owed'  BY <1>10 DEF RereadSalt, TypeOK, Owed, Owing
  <2>5. Salted'  BY <1>10, NoneAssumption DEF RereadSalt, TypeOK, Salted, Salting
  <2> QED BY <2>1, <2>2, <2>3, <2>4, <2>5 DEF IInv
<1>11. CASE WireVault(p)
  <2>1. TypeOK'  BY <1>11, BoundsAssumption DEF WireVault, TypeOK
  <2>2. Total'  BY <1>11 DEF WireVault, Total
  <2>3. Promised'
    BY <1>11, BoundsAssumption DEF WireVault, TypeOK, Promised, PastMigrations
  <2>4. Owed'  BY <1>11 DEF WireVault, TypeOK, Owed, Owing
  <2>5. Salted'  BY <1>11, NoneAssumption DEF WireVault, TypeOK, Salted, Salting
  <2> QED BY <2>1, <2>2, <2>3, <2>4, <2>5 DEF IInv
<1>12. CASE Crash(p)
  <2>1. TypeOK'  BY <1>12, BoundsAssumption DEF Crash, TypeOK
  <2>2. Total'  BY <1>12 DEF Crash, Total
  <2>3. Promised'  BY <1>12, BoundsAssumption DEF Crash, TypeOK, Promised, PastMigrations
  <2>4. Owed'  BY <1>12 DEF Crash, TypeOK, Owed, Owing
  <2>5. Salted'  BY <1>12, NoneAssumption DEF Crash, TypeOK, Salted, Salting
  <2> QED BY <2>1, <2>2, <2>3, <2>4, <2>5 DEF IInv
<1>13. CASE MigrateFails(p)
  BY <1>13, Moving DEF MigrateFails, Stages, Owing, PastMigrations, Salting, Goto
<1>14. CASE Migrated(p)
  BY <1>14, Moving DEF Migrated, Stages, Owing, PastMigrations, Salting, Goto
<1>15. CASE EnsureToken(p)
  BY <1>15, Moving DEF EnsureToken, Stages, Owing, PastMigrations, Salting, Goto
<1>16. CASE Rotate(p)
  BY <1>16, Moving DEF Rotate, Stages, Owing, PastMigrations, Salting, Goto
<1>17. CASE Close(p)
  BY <1>17, Moving DEF Close, Stages, Owing, PastMigrations, Salting, Goto
<1>18. ASSUME NEW c \in Credentials, AddAPIKey(p, c) PROVE IInv'
  <2>1. TypeOK'  BY <1>18, BoundsAssumption DEF AddAPIKey, TypeOK, Done
  <2>2. Total'  BY <1>18 DEF AddAPIKey, Total, Sealed, KEK, HasSecrets, Done
  <2>3. Promised'
    BY <1>18, BoundsAssumption DEF AddAPIKey, TypeOK, Promised, PastMigrations, Done
  <2>4. Owed'  BY <1>18 DEF AddAPIKey, TypeOK, Owed, Owing, Done
  <2>5. Salted'
    BY <1>18, NoneAssumption
    DEF AddAPIKey, TypeOK, Salted, Salting, Done, Sealed, KEK, HasSecrets
  <2> QED BY <2>1, <2>2, <2>3, <2>4, <2>5 DEF IInv
<1>19. ASSUME NEW c \in Credentials, DeleteCredential(p, c) PROVE IInv'
  <2>1. TypeOK'  BY <1>19, BoundsAssumption DEF DeleteCredential, TypeOK
  <2>2. Total'  BY <1>19 DEF DeleteCredential, Total
  <2>3. Promised'
    BY <1>19, BoundsAssumption DEF DeleteCredential, TypeOK, Promised, PastMigrations
  <2>4. Owed'  BY <1>19 DEF DeleteCredential, TypeOK, Owed, Owing
  <2>5. Salted'  BY <1>19, NoneAssumption DEF DeleteCredential, TypeOK, Salted, Salting
  <2> QED BY <2>1, <2>2, <2>3, <2>4, <2>5 DEF IInv
<1>20. ASSUME NEW c \in Credentials, Import(p, c) PROVE IInv'
  <2>1. TypeOK'  BY <1>20, BoundsAssumption DEF Import, TypeOK
  <2>2. Total'  BY <1>20 DEF Import, Total, storeSealed, Sealed, KEK, HasSecrets
  <2>3. Promised'  BY <1>20, BoundsAssumption DEF Import, TypeOK, Promised, PastMigrations
  <2>4. Owed'  BY <1>20 DEF Import, TypeOK, Owed, Owing
  <2>5. Salted'
    BY <1>20, NoneAssumption
    DEF Import, TypeOK, Salted, Salting, storeSealed, Sealed, KEK, HasSecrets
  <2> QED BY <2>1, <2>2, <2>3, <2>4, <2>5 DEF IInv
<1> QED
  BY <1>1, <1>2, <1>3, <1>4, <1>5, <1>6, <1>7, <1>8, <1>9, <1>10, <1>11, <1>12, <1>13,
     <1>14, <1>15, <1>16, <1>17, <1>18, <1>19, <1>20
  DEF Act
-----------------------------------------------------------------------------
(* From the invariant.                                                     *)
LEMMA InvariantImplies ==
    IInv => MigratedBeforeUse /\ TokenFileOpens /\ SealedOpens
<1> SUFFICES ASSUME IInv
             PROVE  MigratedBeforeUse /\ TokenFileOpens /\ SealedOpens
  OBVIOUS
<1>1. MigratedBeforeUse  BY DEF IInv, Promised, MigratedBeforeUse
<1>2. TokenFileOpens  BY DEF IInv, Owed, TokenFileOpens
<1>3. SealedOpens
  BY DEF IInv, Salted, Salting, SealedOpens, Running, Opens, HasSecrets, KEK
<1> QED BY <1>1, <1>2, <1>3

(* A step that leaves the processes and the disk alone keeps it.           *)
LEMMA Stuttering == ASSUME IInv, UNCHANGED vars PROVE IInv'
  BY DEF IInv, TypeOK, Total, Promised, Owed, Salted, Salting, PastMigrations, Owing, vars

(* Type correctness, and the invariant that the proofs below rest on, of   *)
(* the processes by themselves.                                            *)
THEOREM Invariant == Spec => []IInv
<1>1. IInv /\ [Next]_vars => IInv'  BY NextActs, ActPreserves, Stuttering
<1> QED BY <1>1, InitIInv, PTL DEF Spec

(* However boots overlap, fail and die, no process uses a database that    *)
(* lacks a table (store.Migrate).                                          *)
THEOREM SchemaComplete == Spec => []MigratedBeforeUse
  BY Invariant, InvariantImplies, PTL

(* The token in the file opens the daemon, unless a rotation was cut short *)
(* or overlapped another (EnsureManagementTokenHash, RotateManagementToken,*)
(* WriteTokenFile).                                                        *)
THEOREM TokenOpens == Spec => []TokenFileOpens
  BY Invariant, InvariantImplies, PTL

(* What is sealed under a key is opened by every process that has the key, *)
(* however the first boots race for the salt (LoadOrCreateSalt).           *)
THEOREM SecretsOpen == Spec => []SealedOpens
  BY Invariant, InvariantImplies, PTL

-----------------------------------------------------------------------------
(* What a process is built with: while it runs it has the settings that    *)
(* its layers call for, and the gates that those call for.                 *)
Wired ==
    /\ pc \in [Procs -> Stages]
    /\ settings = [p \in Procs |-> settings[p]] /\ gates = [p \in Procs |-> gates[p]]
    /\ \A p \in Procs : pc[p] \notin {"off", "failed"} =>
         settings[p] = load(Given(p)) /\ settings[p].ok
    /\ \A p \in Procs : pc[p] = "readSalt" =>
         /\ gates[p] = [stage \in GateStages |-> orderStage(settings[p], stage)]
         /\ GatesBuild(settings[p])

LEMMA InitWired == Init => Wired
  BY DEF Init, Wired, Stages

(* What a process that has started may do next: it stays at its stage or   *)
(* goes on to another, the daemon that serves only to serve on or to end.  *)
Goes(p) == \E s \in Stages :
    /\ Goto(p, s) /\ pc[p] \notin {"off", "failed"}
    /\ s = "readSalt" => HasCredentials(p)
    /\ Program(p) = "serve" /\ pc[p] \in {"ready", "rotating", "rewrite"}
          => s \in {"ready", "rotating", "rewrite", "off"}

LEMMA ActGoes ==
    ASSUME NEW p \in Procs, Act(p), ~Start(p)
    PROVE  /\ settings' = settings /\ world' = world /\ (gates' = gates \/ HasCredentials(p))
           /\ pc' = pc \/ Goes(p)
<1> USE DEF Goes, Stages, disk, mine, built
<1>1. CASE OpenStore(p)         BY <1>1 DEF OpenStore
<1>2. CASE MigrateStep(p)       BY <1>2 DEF MigrateStep
<1>3. CASE MigrateFails(p)      BY <1>3 DEF MigrateFails
<1>4. CASE Migrated(p)          BY <1>4 DEF Migrated
<1>5. CASE EnsureToken(p)       BY <1>5 DEF EnsureToken
<1>6. CASE CommitHash(p)        BY <1>6 DEF CommitHash
<1>7. CASE WriteTokenFile(p)    BY <1>7 DEF WriteTokenFile, Owing, Written, Done
<1>8. CASE WriteFails(p)        BY <1>8 DEF WriteFails, Owing, Done
<1>9. CASE HasCredentials(p)    BY <1>9 DEF HasCredentials
<1>10. CASE ReadSalt(p)         BY <1>10 DEF ReadSalt
<1>11. CASE SetMetaIfAbsent(p)  BY <1>11 DEF SetMetaIfAbsent
<1>12. CASE RereadSalt(p)       BY <1>12 DEF RereadSalt
<1>13. CASE WireVault(p)        BY <1>13 DEF WireVault
<1>14. CASE Rotate(p)           BY <1>14 DEF Rotate
<1>15. CASE Close(p)            BY <1>15 DEF Close
<1>16. CASE Crash(p)            BY <1>16 DEF Crash
<1>17. ASSUME NEW c \in Credentials, AddAPIKey(p, c)
       PROVE  settings' = settings /\ world' = world /\ gates' = gates /\ Goes(p)
  BY <1>17 DEF AddAPIKey, Done
<1>18. ASSUME NEW c \in Credentials, DeleteCredential(p, c)
       PROVE  settings' = settings /\ world' = world /\ gates' = gates /\ pc' = pc
  BY <1>18 DEF DeleteCredential
<1>19. ASSUME NEW c \in Credentials, Import(p, c)
       PROVE  settings' = settings /\ world' = world /\ gates' = gates /\ Goes(p)
  BY <1>19 DEF Import
<1> HIDE DEF Goes
<1> QED
  BY <1>1, <1>2, <1>3, <1>4, <1>5, <1>6, <1>7, <1>8, <1>9, <1>10, <1>11, <1>12, <1>13,
     <1>14, <1>15, <1>16, <1>17, <1>18, <1>19
  DEF Act

(* Starting loads the settings, and the wiring builds the gates; nothing   *)
(* else changes either.                                                    *)
LEMMA ActWires == ASSUME Wired, NEW p \in Procs, Act(p) PROVE Wired'
<1> USE DEF Wired, Goto, Given, Stages
<1>1. CASE Start(p)
  <2>1. PICK given : given = load(Given(p))
    OBVIOUS
  <2>2. /\ settings' = [settings EXCEPT ![p] = given] /\ gates' = [gates EXCEPT ![p] = <<>>]
        /\ pc' = [pc EXCEPT ![p] = IF given.ok THEN "open" ELSE "failed"] /\ world' = world
    BY <1>1, <2>1 DEF Start
  <2>3. /\ pc' \in [Procs -> Stages] /\ pc'[p] \in {"open", "failed"}
        /\ pc'[p] # "failed" => given.ok
        /\ settings' = [q \in Procs |-> settings'[q]] /\ settings'[p] = given
        /\ gates' = [q \in Procs |-> gates'[q]]
    BY <2>2
  <2>4. \A q \in Procs \ {p} :
          pc'[q] = pc[q] /\ settings'[q] = settings[q] /\ gates'[q] = gates[q]
    BY <2>2
  <2>5. Wired
    OBVIOUS
  <2> HIDE DEF Stages, Given
  <2>6. \A q \in Procs : Given(q)' = Given(q)
    BY <2>2 DEF Given
  <2> QED BY <2>1, <2>3, <2>4, <2>5, <2>6
<1>2. CASE HasCredentials(p)  BY <1>2 DEF HasCredentials, disk
<1>3. CASE ~Start(p) /\ ~HasCredentials(p)
  <2>1. settings' = settings /\ gates' = gates /\ world' = world /\ (pc' = pc \/ Goes(p))
    BY <1>3, ActGoes
  <2>2. CASE pc' = pc
    BY <2>1, <2>2
  <2>3. CASE Goes(p)
    <3>1. PICK s \in Stages : /\ pc' = [pc EXCEPT ![p] = s] /\ s # "readSalt"
                              /\ pc[p] \notin {"off", "failed"}
      BY <1>3, <2>3 DEF Goes
    <3>2. pc' \in [Procs -> Stages]
      BY <3>1
    <3>3. \A q \in Procs : /\ pc[q] \in {"off", "failed"} => pc'[q] \in {"off", "failed"}
                           /\ pc'[q] = "readSalt" => pc[q] = "readSalt"
      BY <3>1
    <3> QED BY <2>1, <3>2, <3>3
  <2> QED BY <2>1, <2>2, <2>3
<1> QED BY <1>1, <1>2, <1>3

LEMMA StutterWires == ASSUME Wired, UNCHANGED vars PROVE Wired'
  BY DEF Wired, vars, Given

(* The invariant of the wiring.                                           *)
THEOREM WiringInvariant == Spec => []Wired
<1>1. Wired /\ [Next]_vars => Wired'  BY NextActs, ActWires, StutterWires
<1> QED BY <1>1, InitWired, PTL DEF Spec

-----------------------------------------------------------------------------
(* The layers of settings (config/load.go).                                *)

LEMMA ProviderPlace == ASSUME NEW n, NEW i \in 1..n PROVE i > 0
  OBVIOUS

(* What is shown are fields that layers can set.                           *)
LEMMA ShownAreKnown ==
    ASSUME NEW c, NEW k \in ShownKeys(c)
    PROVE  KnownKey(k) /\ Settable(k)
<1>1. CASE k \in (Booleans \ {Engine}) \cup Numbers \cup Texts
  <2>1. k \in Booleans \cup Numbers \cup Texts /\ k[1] = 0
    BY <1>1 DEF Booleans, Numbers, Texts, Plain, Engine
  <2> QED BY <2>1 DEF KnownKey, Settable, OfProvider
<1>2. CASE IsSwitch(k) \/ k = Engine
  BY <1>2 DEF KnownKey, Settable, OfProvider, IsSwitch, Engine, Plain, Booleans
<1>3. ASSUME NEW i \in 1..c.providers, NEW n \in ProviderFields, k = Provider(i, n)
      PROVE  KnownKey(k) /\ Settable(k)
  <2>1. OfProvider(k) /\ k[2] = n
    BY <1>3, ProviderPlace DEF OfProvider, Provider
  <2> QED BY <2>1 DEF KnownKey, Settable
<1> QED BY <1>1, <1>2, <1>3 DEF ShownKeys

LEMMA EngineSettable == Settable(Engine)
  BY DEF Settable, KnownKey, OfProvider, Booleans, Engine, Plain

(* One layer over another.                                                 *)
LEMMA Layered ==
    ASSUME NEW c, NEW values, NEW source, ApplyLayer(c, values, source).ok,
           NEW k, Settable(k)
    PROVE  LET d == ApplyLayer(c, values, source) IN
           /\ c.ok
           /\ k \in DOMAIN d.value <=> k \in DOMAIN values \/ k \in DOMAIN c.value
           /\ k \in DOMAIN d.source <=> k \in DOMAIN values \/ k \in DOMAIN c.source
           /\ k \in DOMAIN values => d.value[k] = values[k] /\ d.source[k] = source
           /\ k \notin DOMAIN values /\ k \in DOMAIN c.value => d.value[k] = c.value[k]
           /\ k \notin DOMAIN values /\ k \in DOMAIN c.source => d.source[k] = c.source[k]
<1> DEFINE named   == {x \in DOMAIN values : KnownKey(x)}
           sets    == {x \in named : Settable(x)}
           entries == {c.providers} \cup {x[1] : x \in {y \in named : OfProvider(y)}}
           most    == CHOOSE n \in entries : \A m \in entries : m <= n
           d       == ApplyLayer(c, values, source)
<1>1. d = IF ~c.ok \/ \E x \in sets : ~Parses(x, values[x]) THEN Refused
          ELSE [ok |-> TRUE, value |-> Over(Only(values, sets), c.value), providers |-> most,
                source |-> Over([x \in named |-> source], c.source)]
  BY DEF ApplyLayer
<1> HIDE DEF most, d
<1>2. /\ c.ok
      /\ d.value = Over(Only(values, sets), c.value)
      /\ d.source = Over([x \in named |-> source], c.source)
  <2>1. d.ok
    BY DEF d
  <2> QED BY <1>1, <2>1 DEF Refused
<1>3. (k \in named <=> k \in DOMAIN values) /\ (k \in sets <=> k \in DOMAIN values)
  BY DEF Settable
<1> HIDE DEF named, sets
<1> QED BY <1>2, <1>3 DEF d, Only, Over

(* What has been loaded is what the highest layer that names it says.      *)
Says(env, flag, file, k, source, value) ==
    /\ k \in DOMAIN env => source = "env" /\ value = env[k]
    /\ k \in DOMAIN flag \ DOMAIN env => source = "flag" /\ value = flag[k]
    /\ k \in DOMAIN file \ (DOMAIN env \cup DOMAIN flag) => source = "file" /\ value = file[k]
    /\ k \notin DOMAIN env \cup DOMAIN flag \cup DOMAIN file
       => source = "default" /\ value = Default(k)

LEMMA LoadHonest ==
    ASSUME NEW g, load(g).ok
    PROVE  LET c == load(g) IN
           /\ Validate(c)
           /\ \A k : Settable(k) => Says(envLayer(g), flagLayer(g), fileLayer(g), k,
                                         SourceOf(c, k), Value(c, k))
<1> DEFINE E  == envLayer(g)
           G  == flagLayer(g)
           F  == fileLayer(g)
           c1 == ApplyLayer(Defaults, F, "file")
           c2 == ApplyLayer(c1, G, "flag")
           c3 == ApplyLayer(c2, E, "env")
<1>1. load(g) = c3 /\ Validate(c3) /\ c3.ok
  <2>1. load(g) = IF FileAccepted(g) /\ Validate(c3) THEN c3 ELSE Refused
    BY DEF load
  <2> HIDE DEF c3
  <2> QED BY <2>1 DEF Refused
<1>2. \A k : k \notin DOMAIN Defaults.value /\ k \notin DOMAIN Defaults.source
  BY DEF Defaults
<1>3. c2.ok
  <2> HIDE DEF c2
  <2> QED BY <1>1, Layered, EngineSettable
<1>4. c1.ok
  <2> HIDE DEF c1
  <2> QED BY <1>3, Layered, EngineSettable
<1>5. ASSUME NEW k, Settable(k)
      PROVE  Says(E, G, F, k, SourceOf(c3, k), Value(c3, k))
  <2>1. /\ k \in DOMAIN c1.value <=> k \in DOMAIN F
        /\ k \in DOMAIN c1.source <=> k \in DOMAIN F
        /\ k \in DOMAIN F => c1.value[k] = F[k] /\ c1.source[k] = "file"
    BY <1>2, <1>4, <1>5, Layered
  <2>2. /\ k \in DOMAIN c2.value <=> k \in DOMAIN G \/ k \in DOMAIN c1.value
        /\ k \in DOMAIN c2.source <=> k \in DOMAIN G \/ k \in DOMAIN c1.source
        /\ k \in DOMAIN G => c2.value[k] = G[k] /\ c2.source[k] = "flag"
        /\ k \notin DOMAIN G /\ k \in DOMAIN c1.value => c2.value[k] = c1.value[k]
        /\ k \notin DOMAIN G /\ k \in DOMAIN c1.source => c2.source[k] = c1.source[k]
    <3> HIDE DEF c1
    <3> QED BY <1>3, <1>5, Layered
  <2>3. /\ k \in DOMAIN c3.value <=> k \in DOMAIN E \/ k \in DOMAIN c2.value
        /\ k \in DOMAIN c3.source <=> k \in DOMAIN E \/ k \in DOMAIN c2.source
        /\ k \in DOMAIN E => c3.value[k] = E[k] /\ c3.source[k] = "env"
        /\ k \notin DOMAIN E /\ k \in DOMAIN c2.value => c3.value[k] = c2.value[k]
        /\ k \notin DOMAIN E /\ k \in DOMAIN c2.source => c3.source[k] = c2.source[k]
    <3> HIDE DEF c2
    <3> QED BY <1>1, <1>5, Layered
  <2> HIDE DEF c1, c2, c3, E, G, F
  <2> QED BY <2>1, <2>2, <2>3 DEF Says, SourceOf, Value
<1> HIDE DEF c3
<1> QED BY <1>1, <1>5

LEMMA DefaultOff == Default(Plain("server.allow_remote")) = "false"
<1> DEFINE k == Plain("server.allow_remote")
<1>1. /\ k # Plain("server.host") /\ k # Plain("server.port") /\ k # Plain("log.level")
      /\ k # Plain("store.path") /\ k # Plain("store.token_path")
      /\ k # Plain("features.gates.security.pii_policy")
      /\ k # Plain("features.gates.security.injection_policy")
      /\ k # Engine
  BY DEF Plain, Engine
<1>2. IsBoolean(k)
  BY DEF IsBoolean, Booleans
<1> HIDE DEF k
<1>3. Default(k) = "false"
  BY <1>1, <1>2 DEF Default
<1> QED BY <1>3 DEF k

(* A process has the configuration its layers call for, each source named  *)
(* after the layer that set the value, whatever the layers hold; and it    *)
(* opens to the network only if one of them says so (Load, Validate).      *)
THEOREM SettingsAreHonest == Spec => []SettingsHonest
<1>1. ASSUME Wired, NEW p \in Procs, pc[p] = "open"
      PROVE  LET c == settings[p]
                 shown == RedactedFields(c)
             IN  /\ \A k \in DOMAIN shown :
                      Says(envLayer(Given(p)), flagLayer(Given(p)), fileLayer(Given(p)), k,
                           shown[k].source, Value(c, k))
                 /\ ~IsLoopback(Value(c, Plain("server.host")))
                    => shown[Plain("server.allow_remote")].source # "default"
  <2> DEFINE g == Given(p)
             c == settings[p]
             shown  == RedactedFields(c)
             remote == Plain("server.allow_remote")
  <2>1. c = load(g) /\ load(g).ok
    BY <1>1 DEF Wired
  <2>2. \A k \in DOMAIN shown : shown[k].source = SourceOf(c, k) /\ Settable(k)
    BY ShownAreKnown DEF RedactedFields
  <2>3. \A k : Settable(k) => Says(envLayer(g), flagLayer(g), fileLayer(g), k,
                                   SourceOf(c, k), Value(c, k))
    <3> HIDE DEF g
    <3> QED BY <2>1, LoadHonest
  <2>4. ~IsLoopback(Value(c, Plain("server.host"))) => shown[remote].source # "default"
    <3> SUFFICES ASSUME ~IsLoopback(Value(c, Plain("server.host"))), shown[remote].source = "default"
                 PROVE  FALSE
      OBVIOUS
    <3>1. Value(c, remote) = "true"
      <4>1. Validate(c)
        <5> HIDE DEF g, c
        <5> QED BY <2>1, LoadHonest
      <4> HIDE DEF c
      <4> QED BY <4>1 DEF Validate, IsOn, remote
    <3>2. remote \in Booleans /\ remote # Engine
      BY DEF Booleans, Engine, Plain
    <3>3. remote \in DOMAIN shown
      BY <3>2 DEF RedactedFields, ShownKeys
    <3>4. Settable(remote) /\ SourceOf(c, remote) = "default"
      BY <2>2, <3>3
    <3>5. Default(remote) = "false"
      BY DefaultOff
    <3> HIDE DEF g, c, remote
    <3> QED BY <2>3, <3>1, <3>4, <3>5 DEF Says
  <2> HIDE DEF g, shown, c
  <2>5. \A k \in DOMAIN shown : Says(envLayer(g), flagLayer(g), fileLayer(g), k,
                                     shown[k].source, Value(c, k))
    BY <2>2, <2>3
  <2> QED BY <2>4, <2>5 DEF g, shown, c
<1>2. ASSUME Wired, NEW p \in Procs, pc[p] = "open"
      PROVE  LET c == settings[p]
                 shown == RedactedFields(c)
                 env   == envLayer(Given(p))
                 flag  == flagLayer(Given(p))
                 file  == fileLayer(Given(p))
                 From(layer, name, ks) ==
                     \A k \in ks : shown[k].source = name /\ Value(c, k) = layer[k]
             IN  /\ From(env, "env", DOMAIN shown \cap DOMAIN env)
                 /\ From(flag, "flag", (DOMAIN shown \cap DOMAIN flag) \ DOMAIN env)
                 /\ From(file, "file", (DOMAIN shown \cap DOMAIN file)
                                          \ (DOMAIN env \cup DOMAIN flag))
                 /\ \A k \in DOMAIN shown \ (DOMAIN env \cup DOMAIN flag \cup DOMAIN file) :
                      shown[k].source = "default" /\ Value(c, k) = Default(k)
                 /\ ~IsLoopback(Value(c, Plain("server.host")))
                    => shown[Plain("server.allow_remote")].source # "default"
  BY <1>1, <1>2 DEF Says
<1>3. Wired => SettingsHonest  BY <1>2 DEF SettingsHonest
<1> QED BY <1>3, WiringInvariant, PTL

-----------------------------------------------------------------------------
(* The order of the gates (gates/registry.go). A set of numbers has a least*)
(* one, which is what an induction over numbers rests on here.             *)
LEMMA Least == ASSUME NEW T \in SUBSET Nat, T # {} PROVE \E n \in T : \A m \in T : n <= m
<1> DEFINE Under(n) == {m \in Nat : m < n}
           unders == {Under(n) : n \in T}
<1>1. \A n \in T : Under(n) \in SUBSET Nat /\ IsFiniteSet(Under(n))
  <2> SUFFICES ASSUME NEW n \in T PROVE IsFiniteSet(Under(n))
    OBVIOUS
  <2>1. n \in Nat /\ \A m \in Under(n) : m <= n
    OBVIOUS
  <2>2. Under(n) \in SUBSET Nat
    OBVIOUS
  <2> HIDE DEF Under
  <2> QED BY <2>1, <2>2, FS_BoundedSetOfNaturals
<1>2. unders \subseteq FiniteSubsetsOf(Nat) /\ unders # {}
  BY <1>1 DEF FiniteSubsetsOf
<1>3. IsWellFoundedOn(StrictSubsetOrdering(Nat), FiniteSubsetsOf(Nat))
  BY FS_StrictSubsetOrderingWellFounded
<1> HIDE DEF unders
<1>4. \E A \in unders : \A B \in unders : ~(<<B, A>> \in StrictSubsetOrdering(Nat))
  BY <1>2, <1>3, WFMin
<1>5. PICK n \in T : \A m \in T : ~(<<Under(m), Under(n)>> \in StrictSubsetOrdering(Nat))
  BY <1>4 DEF unders
<1>6. ASSUME NEW m \in T, m < n PROVE FALSE
  <2>1. Under(m) \subseteq Under(n) /\ m \in Under(n) /\ m \notin Under(m)
    BY <1>6
  <2>2. <<Under(m), Under(n)>> \in (SUBSET Nat) \X (SUBSET Nat)
    BY <1>1
  <2> HIDE DEF Under
  <2> QED BY <1>5, <2>1, <2>2 DEF StrictSubsetOrdering
<1>7. \A m \in T : n <= m
  BY <1>6
<1> QED BY <1>7

(* A function may be given by its first value and a step.                  *)
Stepwise(f, N, base, step) ==
    f = [n \in 0..N |-> IF n = 0 THEN base ELSE step[<<n, f[n-1]>>]]

LEMMA StepwiseExists ==
    ASSUME NEW N \in Nat, NEW base, NEW step
    PROVE  \E f : Stepwise(f, N, base, step)
<1> DEFINE Missing == {m \in Nat : ~\E f : Stepwise(f, m, base, step)}
<1>1. SUFFICES ASSUME Missing # {} PROVE FALSE
  OBVIOUS
<1>2. PICK m \in Missing : \A l \in Missing : m <= l
  BY <1>1, Least
<1>3. m # 0
  <2> DEFINE f == [n \in 0..0 |-> base]
  <2>1. Stepwise(f, 0, base, step)
    BY DEF Stepwise
  <2> QED BY <2>1
<1>4. m \in Nat /\ m - 1 \in Nat /\ m - 1 \notin Missing
  BY <1>2, <1>3
<1>5. PICK f : Stepwise(f, m - 1, base, step)
  BY <1>4
<1> DEFINE g == [n \in 0..m |-> IF n = m THEN step[<<m, f[m - 1]>>] ELSE f[n]]
           h == [n \in 0..m |-> IF n = 0 THEN base ELSE step[<<n, g[n - 1]>>]]
<1>6. ASSUME NEW n \in 0..m PROVE g[n] = h[n]
  <2>1. CASE n = m
    BY <1>4, <2>1
  <2>2. CASE n # m
    <3>1. n \in 0 .. m - 1 /\ (n # 0 => n - 1 \in 0..m /\ n - 1 # m)
      BY <1>4, <2>2
    <3>2. f[n] = IF n = 0 THEN base ELSE step[<<n, f[n - 1]>>]
      BY <1>5, <3>1 DEF Stepwise
    <3> QED BY <2>2, <3>1, <3>2
  <2> QED BY <2>1, <2>2
<1>7. g = h
  BY <1>6
<1>8. Stepwise(g, m, base, step)
  BY <1>7 DEF Stepwise
<1> QED BY <1>2, <1>8

(* Sequences without repetition.                                           *)
Names(s)    == {s[i] : i \in DOMAIN s}
Distinct(s) == \A i, j \in DOMAIN s : s[i] = s[j] => i = j

(* A sequence without repetition counts what is in it.                     *)
LEMMA DistinctCounts ==
    ASSUME NEW S, NEW s \in Seq(S), Distinct(s)
    PROVE  IsFiniteSet(Names(s)) /\ Cardinality(Names(s)) = Len(s)
<1>1. s \in Bijection(1..Len(s), Names(s))
  BY DEF Names, Distinct, Bijection, Injection, Surjection, IsInjective
<1>2. IsFiniteSet(1..Len(s)) /\ Cardinality(1..Len(s)) = Len(s)
  <2>1. Len(s) \in Nat
    OBVIOUS
  <2> QED BY <2>1, FS_Interval
<1>3. ExistsBijection(1..Len(s), Names(s))
  BY <1>1 DEF ExistsBijection
<1> QED BY <1>2, <1>3, FS_Bijection

LEMMA NamesConcat ==
    ASSUME NEW S, NEW s \in Seq(S), NEW t \in Seq(S)
    PROVE  s \o t \in Seq(S) /\ Names(s \o t) = Names(s) \cup Names(t)
<1>1. /\ s \o t \in Seq(S) /\ Len(s \o t) = Len(s) + Len(t)
      /\ \A i \in 1 .. Len(s) + Len(t) :
           (s \o t)[i] = IF i <= Len(s) THEN s[i] ELSE t[i - Len(s)]
  BY ConcatProperties
<1>2. /\ DOMAIN (s \o t) = 1 .. Len(s) + Len(t) /\ DOMAIN s = 1..Len(s) /\ DOMAIN t = 1..Len(t)
      /\ Len(s) \in Nat /\ Len(t) \in Nat
  BY <1>1
<1>3. ASSUME NEW i \in DOMAIN (s \o t) PROVE (s \o t)[i] \in Names(s) \cup Names(t)
  <2>1. CASE i <= Len(s)
    BY <1>1, <1>2, <2>1 DEF Names
  <2>2. CASE ~(i <= Len(s))
    <3>1. i - Len(s) \in DOMAIN t /\ (s \o t)[i] = t[i - Len(s)]
      BY <1>1, <1>2, <2>2
    <3> QED BY <3>1 DEF Names
  <2> QED BY <2>1, <2>2
<1>4. ASSUME NEW i \in DOMAIN s PROVE s[i] \in Names(s \o t)
  <2>1. i \in DOMAIN (s \o t) /\ (s \o t)[i] = s[i]
    BY <1>1, <1>2
  <2> QED BY <2>1 DEF Names
<1>5. ASSUME NEW i \in DOMAIN t PROVE t[i] \in Names(s \o t)
  <2>1. i + Len(s) \in DOMAIN (s \o t) /\ (s \o t)[i + Len(s)] = t[i]
    <3>1. i + Len(s) \in 1 .. Len(s) + Len(t) /\ ~(i + Len(s) <= Len(s)) /\ i + Len(s) - Len(s) = i
      BY <1>2
    <3> QED BY <1>1, <1>2, <3>1
  <2> QED BY <2>1 DEF Names
<1> QED BY <1>1, <1>3, <1>4, <1>5 DEF Names

LEMMA DistinctMore ==
    ASSUME NEW S, NEW s \in Seq(S), NEW e \in S
    PROVE  /\ Append(s, e) \in Seq(S)
           /\ Names(Append(s, e)) = Names(s) \cup {e}
           /\ Distinct(s) /\ e \notin Names(s) => Distinct(Append(s, e))
<1>1. /\ Append(s, e) \in Seq(S) /\ Len(Append(s, e)) = Len(s) + 1
      /\ \A i \in 1..Len(s) : Append(s, e)[i] = s[i]
      /\ Append(s, e)[Len(s) + 1] = e
  BY AppendProperties
<1>2. /\ DOMAIN s = 1..Len(s) /\ DOMAIN Append(s, e) = 1 .. Len(s) + 1 /\ Len(s) \in Nat
  BY <1>1
<1>3. Names(Append(s, e)) = Names(s) \cup {e}
  BY <1>1, <1>2 DEF Names
<1>4. ASSUME Distinct(s), e \notin Names(s) PROVE Distinct(Append(s, e))
  BY <1>1, <1>2, <1>4 DEF Names, Distinct
<1> QED BY <1>1, <1>3, <1>4

LEMMA EnabledFinite == ASSUME NEW c PROVE IsFiniteSet(Enabled(c))
<1> DEFINE T == {GateNames[i] : i \in DOMAIN GateNames}
<1>1. GateNames \in Surjection(1..9, T) /\ DOMAIN GateNames = 1..9
  BY DEF GateNames, Surjection
<1>2. IsFiniteSet(1..9)
  <2>1. 1 \in Int /\ 9 \in Int
    OBVIOUS
  <2> QED BY ONLY <2>1, FS_Interval
<1>3. IsFiniteSet(T)
  <2> HIDE DEF T
  <2> QED BY <1>1, <1>2, FS_Surjection
<1>4. Enabled(c) \in SUBSET T
  BY DEF Enabled
<1> HIDE DEF T
<1> QED BY <1>3, <1>4, FS_Subset

LEMMA ActingFinite ==
    ASSUME NEW c, NEW stage
    PROVE  IsFiniteSet(Acting(c, stage)) /\ Cardinality(Acting(c, stage)) \in Nat
<1>1. Acting(c, stage) \in SUBSET Enabled(c)
  BY DEF Acting
<1>2. IsFiniteSet(Acting(c, stage))
  BY <1>1, EnabledFinite, FS_Subset
<1> QED BY <1>2, FS_CardinalityType

-----------------------------------------------------------------------------
(* A gate is placed after all that come before it.                         *)
Settled(c, stage, s) ==
    /\ s \in Seq(Acting(c, stage)) /\ Distinct(s)
    /\ \A k \in DOMAIN s : \A w \in Before(c, Acting(c, stage), s[k]) :
         \E i \in 1..(k-1) : s[i] = w

LEMMA PlacingSettles ==
    ASSUME NEW c, NEW stage, NEW s, Settled(c, stage, s)
    PROVE  Settled(c, stage, PlaceNext(c, Acting(c, stage), s))
<1> DEFINE done  == Names(s)
           ready == {i \in DOMAIN GateNames : /\ GateNames[i] \in Acting(c, stage) \ done
                                              /\ Before(c, Acting(c, stage), GateNames[i]) \subseteq done}
           least == CHOOSE i \in ready : \A j \in ready : i <= j
           next  == GateNames[least]
<1>1. PlaceNext(c, Acting(c, stage), s) = IF ready = {} THEN s ELSE Append(s, next)
  BY DEF PlaceNext, Names
<1>2. CASE ready = {}
  BY <1>1, <1>2
<1>3. CASE ready # {}
  <2>1. ready \in SUBSET Nat
    BY DEF GateNames
  <2>2. least \in ready
    BY <1>3, <2>1, Least
  <2>3. /\ next \in Acting(c, stage) /\ next \notin done
        /\ Before(c, Acting(c, stage), next) \subseteq done
    BY <2>2
  <2> HIDE DEF ready, least, next
  <2>4. s \in Seq(Acting(c, stage)) /\ Distinct(s)
    BY DEF Settled
  <2>5. Append(s, next) \in Seq(Acting(c, stage)) /\ Distinct(Append(s, next))
    BY <2>3, <2>4, DistinctMore
  <2>6. /\ Len(Append(s, next)) = Len(s) + 1 /\ Len(s) \in Nat
        /\ \A i \in 1..Len(s) : Append(s, next)[i] = s[i]
        /\ Append(s, next)[Len(s) + 1] = next
        /\ DOMAIN s = 1..Len(s) /\ DOMAIN Append(s, next) = 1 .. Len(s) + 1
    BY <2>3, <2>4, AppendProperties
  <2>7. ASSUME NEW k \in DOMAIN Append(s, next),
               NEW w \in Before(c, Acting(c, stage), Append(s, next)[k])
        PROVE  \E i \in 1..(k-1) : Append(s, next)[i] = w
    <3>1. CASE k \in 1..Len(s)
      <4>1. PICK i \in 1..(k-1) : s[i] = w
        BY <2>6, <2>7, <3>1 DEF Settled
      <4>2. i \in 1..Len(s)
        BY <2>6, <3>1
      <4> QED BY <2>6, <4>1, <4>2
    <3>2. CASE k = Len(s) + 1
      <4>1. w \in Names(s)
        BY <2>3, <2>6, <2>7, <3>2
      <4>2. PICK i \in 1..Len(s) : s[i] = w
        BY <2>6, <4>1 DEF Names
      <4>3. i \in 1..(k-1)
        BY <2>6, <3>2
      <4> QED BY <2>6, <4>2, <4>3
    <3> QED BY <2>6, <3>1, <3>2
  <2>8. Settled(c, stage, Append(s, next))
    BY <2>5, <2>7 DEF Settled
  <2> QED BY <1>1, <1>3, <2>8
<1> QED BY <1>2, <1>3

LEMMA NothingSettled == ASSUME NEW c, NEW stage PROVE Settled(c, stage, <<>>)
  BY DEF Settled, Distinct

LEMMA OrderSettled ==
    ASSUME NEW c, NEW stage
    PROVE  Settled(c, stage, orderStage(c, stage))
<1> DEFINE N    == Cardinality(Acting(c, stage))
           S    == Seq(Acting(c, stage))
           Placing(f) == f = [n \in 0..N |-> IF n = 0 THEN <<>>
                                             ELSE PlaceNext(c, Acting(c, stage), f[n-1])]
           step == [x \in (1..N) \X S |-> PlaceNext(c, Acting(c, stage), x[2])]
           f    == CHOOSE g : Placing(g)
<1>1. N \in Nat
  BY ActingFinite
<1>2. \E g : Placing(g)
  <2>1. PICK g : Stepwise(g, N, <<>>, step)
    <3> HIDE DEF N, step
    <3> QED BY <1>1, StepwiseExists
  <2> DEFINE h == [n \in 0..N |-> IF n = 0 THEN <<>> ELSE PlaceNext(c, Acting(c, stage), g[n-1])]
  <2>2. \A n \in 0..N : g[n] = IF n = 0 THEN <<>> ELSE step[<<n, g[n-1]>>]
    <3> HIDE DEF N, step
    <3> QED BY <2>1 DEF Stepwise
  <2> DEFINE Odd == {n \in 0..N : ~(Settled(c, stage, g[n]) /\ g[n] = h[n])}
  <2>3. Odd = {}
    <3>1. SUFFICES ASSUME Odd # {} PROVE FALSE
      OBVIOUS
    <3>2. PICK m \in Odd : \A l \in Odd : m <= l
      <4>1. Odd \in SUBSET Nat
        BY <1>1
      <4> HIDE DEF Odd
      <4> QED BY <3>1, <4>1, Least
    <3>3. m # 0
      BY <1>1, <2>2, NothingSettled
    <3>4. m \in 1..N /\ m - 1 \in 0..N /\ m - 1 \notin Odd
      BY <1>1, <3>2, <3>3
    <3>5. Settled(c, stage, g[m-1]) /\ g[m-1] \in S
      BY <3>4 DEF Settled
    <3>6. g[m] = PlaceNext(c, Acting(c, stage), g[m-1])
      <4>1. g[m] = step[<<m, g[m-1]>>]
        <5>1. m \in 0..N
          BY <1>1, <3>4
        <5> HIDE DEF step, N
        <5> QED BY <2>2, <3>3, <5>1
      <4>2. <<m, g[m-1]>> \in (1..N) \X S
        <5> HIDE DEF S, N
        <5> QED BY <3>4, <3>5
      <4> QED BY <4>1, <4>2
    <3>7. Settled(c, stage, g[m])
      BY <3>5, <3>6, PlacingSettles
    <3> QED BY <1>1, <3>2, <3>3, <3>6, <3>7
  <2>4. g = h
    <3>1. \A n \in 0..N : g[n] = h[n]
      BY <2>3
    <3>2. g = [n \in 0..N |-> g[n]]
      <4> HIDE DEF N, step
      <4> QED BY <2>1 DEF Stepwise
    <3> HIDE DEF N
    <3> QED BY <3>1, <3>2
  <2> QED BY <2>4
<1>3. orderStage(c, stage) = f[N]
  BY DEF orderStage
<1>4. Placing(f)
  BY <1>2
<1> HIDE DEF f
<1>5. \A n \in 0..N : f[n] = IF n = 0 THEN <<>> ELSE PlaceNext(c, Acting(c, stage), f[n-1])
  <2> HIDE DEF N
  <2> QED BY <1>4
<1> DEFINE Odd == {n \in 0..N : ~Settled(c, stage, f[n])}
<1>6. Odd = {}
  <2>1. SUFFICES ASSUME Odd # {} PROVE FALSE
    OBVIOUS
  <2>2. PICK m \in Odd : \A l \in Odd : m <= l
    <3>1. Odd \in SUBSET Nat
      BY <1>1
    <3> HIDE DEF Odd
    <3> QED BY <2>1, <3>1, Least
  <2>3. m # 0
    BY <1>1, <1>5, NothingSettled
  <2>4. m \in 1..N /\ m - 1 \in 0..N /\ m - 1 \notin Odd
    BY <1>1, <2>2, <2>3
  <2>5. Settled(c, stage, f[m-1]) /\ f[m] = PlaceNext(c, Acting(c, stage), f[m-1])
    BY <1>5, <2>3, <2>4
  <2> QED BY <2>2, <2>5, PlacingSettles
<1> QED BY <1>1, <1>3, <1>6

LEMMA SettledInOrder ==
    ASSUME NEW c, NEW stage, NEW s, Settled(c, stage, s),
           NEW i \in DOMAIN s, NEW j \in 1..i,
           Declared(c, s[i]).writes \cap Declared(c, s[j]).reads # {}
    PROVE  i = j
<1> SUFFICES ASSUME i # j PROVE FALSE
  OBVIOUS
<1>1. /\ s \in Seq(Acting(c, stage)) /\ Distinct(s)
      /\ DOMAIN s = 1..Len(s) /\ Len(s) \in Nat
  BY DEF Settled
<1>2. i \in Nat /\ j \in Nat /\ j < i /\ j \in DOMAIN s
  BY <1>1
<1>3. s[i] \in Acting(c, stage) /\ s[i] # s[j]
  BY <1>1, <1>2 DEF Distinct
<1>4. s[i] \in Before(c, Acting(c, stage), s[j])
  BY <1>3 DEF Before
<1>5. PICK l \in 1..(j-1) : s[l] = s[i]
  BY <1>2, <1>4 DEF Settled
<1>6. l \in DOMAIN s /\ l # i
  BY <1>1, <1>2
<1> QED BY <1>1, <1>5, <1>6 DEF Distinct

-----------------------------------------------------------------------------
(* The list of gates holds what has been seen, each once.                  *)
Lists(all, n, s) ==
    /\ s \in Seq(Names(all)) /\ Distinct(s)
    /\ Names(s) = {all[i] : i \in 1..n}

LEMMA ListingLists ==
    ASSUME NEW S, NEW all \in Seq(S), NEW n \in 1..Len(all), NEW s, Lists(all, n - 1, s)
    PROVE  Lists(all, n, ListNext(all, n, s))
<1>1. n - 1 \in Nat /\ n \in Nat /\ DOMAIN all = 1..Len(all)
  OBVIOUS
<1>2. {all[i] : i \in 1..n} = {all[i] : i \in 1..(n-1)} \cup {all[n]}
  <2>1. 1..n = (1..(n-1)) \cup {n}
    BY <1>1
  <2> QED BY <2>1
<1>3. s \in Seq(Names(all)) /\ Distinct(s) /\ Names(s) = {all[i] : i \in 1..(n-1)}
  BY DEF Lists
<1>4. CASE \E i \in 1..(n-1) : all[i] = all[n]
  <2>1. all[n] \in Names(s)
    BY <1>3, <1>4
  <2>2. ListNext(all, n, s) = s
    BY <1>4 DEF ListNext
  <2> QED BY <1>2, <1>3, <2>1, <2>2 DEF Lists
<1>5. CASE ~\E i \in 1..(n-1) : all[i] = all[n]
  <2>1. all[n] \notin Names(s) /\ all[n] \in Names(all)
    BY <1>1, <1>3, <1>5 DEF Names
  <2>2. ListNext(all, n, s) = Append(s, all[n])
    BY <1>5 DEF ListNext
  <2> QED BY <1>2, <1>3, <2>1, <2>2, DistinctMore DEF Lists
<1> QED BY <1>4, <1>5

LEMMA NothingListed == ASSUME NEW all PROVE Lists(all, 0, <<>>)
  BY DEF Lists, Names, Distinct

LEMMA InfosList ==
    ASSUME NEW c, NEW S, NEW all \in Seq(S),
           all = orderStage(c, "pre") \o orderStage(c, "chunk") \o orderStage(c, "post")
    PROVE  Lists(all, Len(all), GateInfos(c))
<1> DEFINE N == Len(all)
           X == Seq(Names(all))
           Listing(f) == f = [n \in 0..N |-> IF n = 0 THEN <<>> ELSE ListNext(all, n, f[n-1])]
           step == [x \in (1..N) \X X |-> ListNext(all, x[1], x[2])]
           f    == CHOOSE g : Listing(g)
<1>1. N \in Nat
  OBVIOUS
<1>2. \E g : Listing(g)
  <2>1. PICK g : Stepwise(g, N, <<>>, step)
    <3> HIDE DEF N, step
    <3> QED BY <1>1, StepwiseExists
  <2> DEFINE h == [n \in 0..N |-> IF n = 0 THEN <<>> ELSE ListNext(all, n, g[n-1])]
  <2>2. \A n \in 0..N : g[n] = IF n = 0 THEN <<>> ELSE step[<<n, g[n-1]>>]
    <3> HIDE DEF N, step
    <3> QED BY <2>1 DEF Stepwise
  <2> DEFINE Odd == {n \in 0..N : ~(Lists(all, n, g[n]) /\ g[n] = h[n])}
  <2>3. Odd = {}
    <3>1. SUFFICES ASSUME Odd # {} PROVE FALSE
      OBVIOUS
    <3>2. PICK m \in Odd : \A l \in Odd : m <= l
      <4>1. Odd \in SUBSET Nat
        BY <1>1
      <4> HIDE DEF Odd
      <4> QED BY <3>1, <4>1, Least
    <3>3. m # 0
      BY <1>1, <2>2, NothingListed
    <3>4. m \in 1..N /\ m \in 0..N /\ m - 1 \in 0..N /\ m - 1 \notin Odd
      BY <1>1, <3>2, <3>3
    <3>5. Lists(all, m - 1, g[m-1]) /\ g[m-1] \in X
      BY <3>4 DEF Lists
    <3>6. g[m] = ListNext(all, m, g[m-1])
      <4>1. g[m] = step[<<m, g[m-1]>>]
        <5> HIDE DEF step, N
        <5> QED BY <2>2, <3>3, <3>4
      <4>2. <<m, g[m-1]>> \in (1..N) \X X
        <5> HIDE DEF X, N
        <5> QED BY <3>4, <3>5
      <4> QED BY <4>1, <4>2
    <3>7. Lists(all, m, g[m])
      <4>1. m \in 1..Len(all)
        BY <3>4
      <4> HIDE DEF Odd, X, step, N, h
      <4> QED BY <3>5, <3>6, <4>1, ListingLists
    <3> QED BY <1>1, <3>2, <3>3, <3>6, <3>7
  <2>4. g = h
    <3>1. \A n \in 0..N : g[n] = h[n]
      BY <2>3
    <3>2. g = [n \in 0..N |-> g[n]]
      <4> HIDE DEF N, step
      <4> QED BY <2>1 DEF Stepwise
    <3> HIDE DEF N
    <3> QED BY <3>1, <3>2
  <2> QED BY <2>4
<1>3. GateInfos(c) = f[N]
  BY DEF GateInfos
<1>4. Listing(f)
  BY <1>2
<1> HIDE DEF f
<1>5. \A n \in 0..N : f[n] = IF n = 0 THEN <<>> ELSE ListNext(all, n, f[n-1])
  <2> HIDE DEF N
  <2> QED BY <1>4
<1> DEFINE Odd == {n \in 0..N : ~Lists(all, n, f[n])}
<1>6. Odd = {}
  <2>1. SUFFICES ASSUME Odd # {} PROVE FALSE
    OBVIOUS
  <2>2. PICK m \in Odd : \A l \in Odd : m <= l
    <3>1. Odd \in SUBSET Nat
      BY <1>1
    <3> HIDE DEF Odd
    <3> QED BY <2>1, <3>1, Least
  <2>3. m # 0
    BY <1>1, <1>5, NothingListed
  <2>4. m \in 1..N /\ m - 1 \in 0..N /\ m - 1 \notin Odd
    BY <1>1, <2>2, <2>3
  <2>5. Lists(all, m - 1, f[m-1]) /\ f[m] = ListNext(all, m, f[m-1])
    BY <1>5, <2>3, <2>4
  <2> QED BY <2>2, <2>4, <2>5, ListingLists
<1> QED BY <1>1, <1>3, <1>6

(* Every gate that is on acts in some stage.                               *)
LEMMA EnabledActs ==
    ASSUME NEW c, GatesBuild(c)
    PROVE  Enabled(c) = Acting(c, "pre") \cup Acting(c, "chunk") \cup Acting(c, "post")
<1>1. ASSUME NEW g \in Enabled(c)
      PROVE  Declared(c, g).stages \subseteq GateStages
  <2>1. g \in {"credential-masker", "injection-guard", "logger", "memory-retriever",
               "memory-writer", "pii-masker", "rate-limit", "ssrf-guard", "token"}
    BY <1>1 DEF Enabled, GateNames
  <2> QED BY <2>1 DEF Declared, GateStages
<1>2. ASSUME NEW g \in Enabled(c)
      PROVE  g \in Acting(c, "pre") \cup Acting(c, "chunk") \cup Acting(c, "post")
  <2>1. Declared(c, g).stages # {}
    BY <1>2 DEF GatesBuild, Registers
  <2> QED BY <1>1, <1>2, <2>1 DEF Acting, GateStages
<1> QED BY <1>2 DEF Acting

(* An order that is complete has every gate of its stage.                  *)
LEMMA OrderComplete ==
    ASSUME NEW c, GatesBuild(c), NEW stage \in GateStages
    PROVE  /\ orderStage(c, stage) \in Seq(Acting(c, stage))
           /\ Names(orderStage(c, stage)) = Acting(c, stage)
<1> DEFINE s == orderStage(c, stage)
           S == Acting(c, stage)
<1>1. s \in Seq(S) /\ Distinct(s)
  BY OrderSettled DEF Settled
<1>2. Len(s) = Cardinality(S)
  BY DEF GatesBuild
<1>3. IsFiniteSet(S)
  BY ActingFinite
<1> HIDE DEF s, S
<1>4. Cardinality(Names(s)) = Cardinality(S)
  BY <1>1, <1>2, DistinctCounts
<1>5. Names(s) \in SUBSET S
  BY <1>1 DEF Names
<1>6. Names(s) = S
  BY <1>3, <1>4, <1>5, FS_Subset
<1> QED BY <1>1, <1>6 DEF s, S

LEMMA InfosComplete ==
    ASSUME NEW c, GatesBuild(c)
    PROVE  /\ {GateInfos(c)[i] : i \in DOMAIN GateInfos(c)} = Enabled(c)
           /\ Len(GateInfos(c)) = Cardinality(Enabled(c))
<1> DEFINE E    == Enabled(c)
           pre   == orderStage(c, "pre")
           chunk == orderStage(c, "chunk")
           post  == orderStage(c, "post")
           all   == pre \o chunk \o post
           infos == GateInfos(c)
<1>1. "pre" \in GateStages /\ "chunk" \in GateStages /\ "post" \in GateStages
  BY DEF GateStages
<1>2. E = Acting(c, "pre") \cup Acting(c, "chunk") \cup Acting(c, "post")
  BY EnabledActs
<1>3. /\ pre \in Seq(Acting(c, "pre")) /\ Names(pre) = Acting(c, "pre")
      /\ chunk \in Seq(Acting(c, "chunk")) /\ Names(chunk) = Acting(c, "chunk")
      /\ post \in Seq(Acting(c, "post")) /\ Names(post) = Acting(c, "post")
  BY <1>1, OrderComplete
<1> HIDE DEF pre, chunk, post, E
<1>4. /\ pre \in Seq(E) /\ chunk \in Seq(E) /\ post \in Seq(E)
      /\ Names(pre) \cup Names(chunk) \cup Names(post) = E
  BY <1>2, <1>3
<1>5. all \in Seq(E) /\ Names(all) = E
  <2> DEFINE front == pre \o chunk
  <2>1. Names(front) = Names(pre) \cup Names(chunk) /\ front \in Seq(E)
    BY <1>4, NamesConcat
  <2> HIDE DEF front
  <2>2. Names(front \o post) = Names(front) \cup Names(post) /\ front \o post \in Seq(E)
    BY <1>4, <2>1, NamesConcat
  <2>3. all = front \o post
    BY DEF front
  <2> HIDE DEF all
  <2> QED BY <1>4, <2>1, <2>2, <2>3
<1>6. Lists(all, Len(all), infos)
  <2>1. all = orderStage(c, "pre") \o orderStage(c, "chunk") \o orderStage(c, "post")
    BY DEF pre, chunk, post
  <2> HIDE DEF all, infos
  <2> QED BY <1>5, <2>1, InfosList DEF infos
<1> HIDE DEF all, infos
<1>7. Names(infos) = E /\ infos \in Seq(Names(all)) /\ Distinct(infos)
  <2>1. {all[i] : i \in 1..Len(all)} = Names(all)
    BY <1>5 DEF Names
  <2> QED BY <1>5, <1>6, <2>1 DEF Lists
<1>8. Len(infos) = Cardinality(E)
  BY <1>7, DistinctCounts
<1> QED BY <1>7, <1>8 DEF infos, E, Names

(* In every stage a gate runs after those that write what it reads, for    *)
(* any settings; and the list of gates has each once (kahn, GateInfos).    *)
THEOREM OrderIsSound == Spec => []GatesInOrder
<1>1. ASSUME Wired, NEW p \in Procs, pc[p] = "readSalt"
      PROVE  LET c == settings[p]
                 shown == GateInfos(c)
             IN  /\ \A stage \in GateStages :
                      LET order == gates[p][stage] IN
                      \A i \in DOMAIN order : \A j \in 1..i :
                          Declared(c, order[i]).writes \cap Declared(c, order[j]).reads # {}
                          => i = j
                 /\ {shown[i] : i \in DOMAIN shown} = Enabled(c)
                 /\ Len(shown) = Cardinality(Enabled(c))
  <2> DEFINE c == settings[p]
  <2>1. /\ gates[p] = [stage \in GateStages |-> orderStage(c, stage)]
        /\ GatesBuild(c)
    BY <1>1 DEF Wired
  <2> HIDE DEF c
  <2>2. ASSUME NEW stage \in GateStages,
               NEW i \in DOMAIN gates[p][stage], NEW j \in 1..i,
               Declared(c, gates[p][stage][i]).writes
                 \cap Declared(c, gates[p][stage][j]).reads # {}
        PROVE  i = j
    <3>1. gates[p][stage] = orderStage(c, stage)
      BY <2>1
    <3>2. Settled(c, stage, gates[p][stage])
      BY <3>1, OrderSettled
    <3> QED BY <2>2, <3>2, SettledInOrder
  <2>3. /\ {GateInfos(c)[i] : i \in DOMAIN GateInfos(c)} = Enabled(c)
        /\ Len(GateInfos(c)) = Cardinality(Enabled(c))
    BY <2>1, InfosComplete
  <2> QED BY <2>2, <2>3 DEF c
<1>2. Wired => GatesInOrder  BY <1>1 DEF GatesInOrder
<1> QED BY <1>2, WiringInvariant, PTL

-----------------------------------------------------------------------------
(* Requests as steps of processes.                                         *)

(* What a step of a process leaves alone, and what it may draw.            *)
LEMMA ActKeeps ==
    ASSUME TypeOK, NEW p \in Procs, Act(p)
    PROVE  /\ world' = world
           /\ drawn' \in Nat /\ drawn' >= drawn
           /\ hash' = hash \/ hash' > drawn
<1> USE BoundsAssumption
        DEF Act, Start, OpenStore, MigrateStep, MigrateFails, Migrated, EnsureToken,
            CommitHash, WriteTokenFile, WriteFails, HasCredentials, ReadSalt, SetMetaIfAbsent,
            RereadSalt, WireVault, Rotate, Close, Crash, AddAPIKey, DeleteCredential, Import,
            disk
<1>1. world' = world  OBVIOUS
<1>2. \/ drawn' = drawn /\ hash' = hash
      \/ drawn' = drawn + 1 /\ hash' = drawn + 1
  OBVIOUS
<1>3. drawn \in Nat  BY DEF TypeOK
<1> QED BY <1>1, <1>2, <1>3

(* A step of Access is a step of the daemon or of a command, or none.      *)
LEMMA AccessActs ==
    ASSUME [AccessNext]_allVars, world \in Worlds
    PROVE  [Next]_vars
<1>1. Program(Daemon) = "serve"  BY WorldsAssumption DEF Program
<1>2. CASE Elsewhere  BY <1>2 DEF Elsewhere, Next
<1>3. CASE Tick  BY <1>3 DEF Tick
<1>4. ASSUME NEW r \in Requests, Handler(r) PROVE [Next]_vars
  <2>1. CASE RotateToken(r)
    BY <2>1, <1>1, AccessAssumption DEF RotateToken, Next, Serve
  <2>2. CASE AddCredential(r)
    BY <2>2, <1>1, AccessAssumption DEF AddCredential, Next, Serve
  <2>3. CASE RemoveCredential(r)
    BY <2>3, <1>1, AccessAssumption DEF RemoveCredential, Next, Serve
  <2>4. CASE ~(RotateToken(r) \/ AddCredential(r) \/ RemoveCredential(r))
    BY <1>4, <2>4 DEF Handler, OnlyRequests, Arrive, Allow, RetryAfter, VerifyManagementToken,
       VerifyFails, RecordFailure, Success, VerifyClientKey, PreRequest, Ungated,
       CreateClientKey, RevokeClientKey, Reply
  <2> QED BY <2>1, <2>2, <2>3, <2>4
<1>5. ASSUME NEW p \in Procs, KeyCommand(p) PROVE [Next]_vars
  BY <1>5 DEF KeyCommand, Next, Background
<1>6. CASE UNCHANGED allVars  BY <1>6 DEF allVars
<1> QED BY <1>2, <1>3, <1>4, <1>5, <1>6 DEF AccessNext

(* The world is given once and for all.                                    *)
LEMMA NextWorld == ASSUME [Next]_vars PROVE world' = world
<1>1. ASSUME NEW p \in Procs, Act(p) PROVE world' = world
  BY <1>1 DEF Act, Start, OpenStore, MigrateStep, MigrateFails, Migrated, EnsureToken,
     CommitHash, WriteTokenFile, WriteFails, HasCredentials, ReadSalt, SetMetaIfAbsent,
     RereadSalt, WireVault, Rotate, Close, Crash, AddAPIKey, DeleteCredential, Import
<1> QED BY <1>1, NextActs DEF vars

(* Requests do to the disk what the daemon of Startup may do by itself     *)
(* (mgmt.rotateToken, CreateCredential, DeleteCredential).                 *)
THEOREM Implements == AccessSpec => Spec
<1>1. AccessInit => Init /\ world \in Worlds  BY DEF AccessInit, Init
<1>2. world \in Worlds /\ [AccessNext]_allVars => (world \in Worlds)'
  <2> SUFFICES ASSUME world \in Worlds, [Next]_vars PROVE (world \in Worlds)'
    BY AccessActs
  <2> QED BY NextWorld
<1>3. world \in Worlds /\ [AccessNext]_allVars => [Next]_vars  BY AccessActs
<1> QED BY <1>1, <1>2, <1>3, PTL DEF AccessSpec, Spec

(* So what holds of the disk holds of it under traffic, whatever requests  *)
(* are under way.                                                          *)
THEOREM DiskUnderTraffic ==
    AccessSpec => [](MigratedBeforeUse /\ TokenFileOpens /\ SealedOpens)
  BY Implements, SchemaComplete, TokenOpens, SecretsOpen, PTL

(* And each start is as the theorems above say, whatever requests ask of   *)
(* the daemon meanwhile.                                                   *)
THEOREM StartsUnderTraffic == AccessSpec => [](SettingsHonest /\ GatesInOrder)
  BY Implements, SettingsAreHonest, OrderIsSound, PTL

-----------------------------------------------------------------------------
(* What is known of a request under way.                                   *)

Fields == {"route", "method", "authorization", "header", "peer", "host", "origin", "query",
           "body", "secret", "client", "stale", "stage"}

(* It has passed the guards, as they are while the daemon runs.            *)
Cleared(q) ==
    /\ q.peer = "loopback" /\ q.host # "foreign"
    /\ isMutating(q) /\ (Mgmt(q) \/ q.route = "web") => q.origin # "foreign"
    /\ KeyNeeded(q) /\ ExtractClientKey(q) = None
       => ~IsOn(Config, Plain("security.require_client_key"))

(* Its secret exists, and one that was dead when it came is dead now.      *)
Known(q) ==
    /\ q.secret \in [kind : {"token", "key", "junk"}, n : Nat]
    /\ q.secret.kind = "token" => q.secret.n <= drawn
    /\ q.secret.kind = "key" => q.secret.n \in KeyIds /\ keys[q.secret.n] # "none"
    /\ q.stale => Dead(q.secret)

(* It is where its route and its secret can have brought it.               *)
Placed(q) ==
    /\ Mgmt(q) => q.stage \in {"throttle", "limited", "token", "wrong", "right", "served"}
    /\ Mgmt(q) /\ q.stage \in {"right", "served"} => q.secret.kind = "token" /\ ~q.stale
    /\ ~Mgmt(q) => q.stage \in {"key", "gates", "served"}
    /\ q.stage = "key" => ExtractClientKey(q) # None
    /\ KeyNeeded(q) /\ q.stage \in {"gates", "served"} =>
         IF ExtractClientKey(q) # None
         THEN q.secret.kind = "key" /\ ~q.stale /\ q.client = q.secret.n
         ELSE q.client = None

Lawful(q) == DOMAIN q = Fields /\ Cleared(q) /\ Known(q) /\ Placed(q)

(* The daemon has the settings that its world gives it.                    *)
Loaded == Config = load(Given(Daemon)) /\ Config.ok

(* Requests are under way only while the daemon runs.                      *)
Requested ==
    /\ request = [r \in Requests |-> request[r]]
    /\ keys \in [KeyIds -> {"none", "live", "revoked"}]
    /\ settings = [p \in Procs |-> settings[p]]
    /\ pc[Daemon] \notin {"off", "failed"} => Loaded
    /\ \A r \in Requests : request[r] # Idle => Serving /\ Lawful(request[r])

(* The settings of the daemon change when it starts, and only then; what   *)
(* runs goes on running until it is off.                                   *)
LEMMA ActSettings ==
    ASSUME TypeOK, NEW p \in Procs, Act(p), Program(Daemon) = "serve",
           settings = [q \in Procs |-> settings[q]],
           pc[Daemon] \notin {"off", "failed"} => Loaded
    PROVE  /\ settings' = [q \in Procs |-> settings'[q]]
           /\ pc'[Daemon] \notin {"off", "failed"} => Loaded'
           /\ Serving => Config' = Config /\ (Serving' \/ pc'[Daemon] = "off")
<1> USE AccessAssumption DEF Loaded, Config, Given, Goto, TypeOK, Serving
<1>1. CASE Start(p)  BY <1>1 DEF Start
<1>2. CASE ~Start(p)
  <2>1. settings' = settings /\ world' = world /\ (pc' = pc \/ Goes(p))
    BY <1>2, ActGoes
  <2>2. CASE pc' = pc
    BY <2>1, <2>2
  <2>3. CASE Goes(p)
    <3>1. PICK s \in Stages :
            /\ pc' = [pc EXCEPT ![p] = s] /\ pc[p] \notin {"off", "failed"}
            /\ Program(p) = "serve" /\ pc[p] \in {"ready", "rotating", "rewrite"}
                  => s \in {"ready", "rotating", "rewrite", "off"}
      BY <2>3 DEF Goes
    <3>2. pc[Daemon] \in {"off", "failed"} => pc'[Daemon] = pc[Daemon]
      BY <3>1
    <3>3. Serving => Serving' \/ pc'[Daemon] = "off"
      BY <3>1
    <3> QED BY <2>1, <3>2, <3>3
  <2> QED BY <2>1, <2>2, <2>3
<1> QED BY <1>1, <1>2

-----------------------------------------------------------------------------
(* Lemmas about one request.                                               *)

(* Tokens only get newer and keys deader.                                  *)
Moves ==
    /\ Config' = Config
    /\ drawn' \in Nat /\ drawn' >= drawn /\ (hash' = hash \/ hash' > drawn)
    /\ \A k \in KeyIds :
         \/ keys'[k] = keys[k]
         \/ keys[k] = "none" /\ keys'[k] = "live"
         \/ keys'[k] = "revoked"

(* The guards' verdict lasts as long as the settings.                      *)
LEMMA StaysCleared == ASSUME NEW q, Cleared(q), Config' = Config PROVE Cleared(q)'
<1>1. Cleared(q)' <=> Cleared(q)
  BY DEF Cleared, isMutating, Mgmt, KeyNeeded, Inference, ExtractClientKey, IsOn, Value, Config
<1> QED BY <1>1

(* What is dead stays dead: a token is never drawn, nor a key made, again. *)
LEMMA StaysKnown ==
    ASSUME NEW q, Known(q), Moves, drawn \in Nat, hash \in Nat
    PROVE  Known(q)'
<1>1. q.secret \in [kind : {"token", "key", "junk"}, n : Nat]  BY DEF Known
<1>2. ASSUME q.secret.kind = "token" PROVE Known(q)'
  <2>1. q.secret.n \in Nat /\ q.secret.n <= drawn  BY <1>1, <1>2 DEF Known
  <2>2. q.stale => q.secret.n # hash  BY <1>2 DEF Known, Dead
  <2>3. q.secret.n <= drawn'  BY <2>1 DEF Moves
  <2>4. q.stale => q.secret.n # hash'  BY <2>1, <2>2 DEF Moves
  <2> QED BY <1>1, <1>2, <2>3, <2>4 DEF Known, Dead
<1>3. ASSUME q.secret.kind = "key" PROVE Known(q)'
  <2>1. q.secret.n \in KeyIds /\ keys[q.secret.n] # "none"  BY <1>3 DEF Known
  <2>2. q.stale => keys[q.secret.n] # "live"  BY <1>3 DEF Known, Dead
  <2> QED BY <1>1, <1>3, <2>1, <2>2 DEF Known, Dead, Moves
<1>4. ASSUME q.secret.kind = "junk" PROVE Known(q)'  BY <1>1, <1>4 DEF Known, Dead
<1> QED BY <1>1, <1>2, <1>3, <1>4

(* So a request stays lawful while others work.                            *)
LEMMA StaysLawful ==
    ASSUME NEW q, Lawful(q), Moves, drawn \in Nat, hash \in Nat
    PROVE  Lawful(q)'
<1>1. Cleared(q)'  BY StaysCleared DEF Lawful, Moves
<1>2. Known(q)'  BY StaysKnown DEF Lawful
<1>3. Placed(q)'
  BY DEF Lawful, Placed, Mgmt, KeyNeeded, Inference, isMutating, ExtractClientKey
<1> QED BY <1>1, <1>2, <1>3 DEF Lawful

(* Where its stage goes, a request remains what it is.                     *)
LEMMA Advances ==
    ASSUME NEW q, NEW s, Lawful(q), Placed([q EXCEPT !.stage = s])
    PROVE  Lawful([q EXCEPT !.stage = s])
  BY DEF Lawful, Fields, Cleared, Known, Dead, Mgmt, KeyNeeded, Inference, isMutating,
         ExtractClientKey

(* The invariant holds after a step that only moves on if the requests it  *)
(* leaves under way are lawful before it.                                  *)
LEMMA Settles ==
    ASSUME TypeOK, Requested, Moves,
           request' = [r \in Requests |-> request'[r]],
           keys' \in [KeyIds -> {"none", "live", "revoked"}],
           settings' = [p \in Procs |-> settings'[p]],
           pc'[Daemon] \notin {"off", "failed"} => Loaded',
           \A r \in Requests : request'[r] # Idle => Serving' /\ Lawful(request'[r])
    PROVE  Requested'
<1>1. drawn \in Nat /\ hash \in Nat  BY BoundsAssumption DEF TypeOK
<1>2. \A q : Lawful(q) => Lawful(q)'  BY <1>1, StaysLawful
<1>3. ASSUME NEW r \in Requests, request'[r] # Idle PROVE Lawful(request[r])'
  BY <1>2, <1>3 DEF Lawful, Cleared, Known, Placed
<1> QED BY <1>3 DEF Requested

(* One slot, and nothing of the processes.                                 *)
LEMMA PutKeeps ==
    ASSUME TypeOK, Requested, NEW r \in Requests, NEW q, Put(r, q), UNCHANGED vars, Serving,
           q = Idle \/ Lawful(q),
           keys' \in [KeyIds -> {"none", "live", "revoked"}],
           keys' = keys \/ \E k \in KeyIds : Create(k) \/ Revoke(k)
    PROVE  Requested'
<1>1. Moves
  <2>1. drawn \in Nat /\ hash \in Nat  BY BoundsAssumption DEF TypeOK
  <2>2. \A k \in KeyIds :
          \/ keys'[k] = keys[k]
          \/ keys[k] = "none" /\ keys'[k] = "live"
          \/ keys'[k] = "revoked"
    BY DEF Requested, Create, Revoke
  <2> QED BY <2>1, <2>2 DEF Moves, Config, vars
<1>2. \A x \in Requests : request'[x] # Idle => Lawful(request'[x])
  BY DEF Put, Requested
<1>3. Serving'  BY DEF Serving, vars
<1>4. request' = [x \in Requests |-> request'[x]]  BY DEF Put, Requested
<1>5. /\ settings' = [p \in Procs |-> settings'[p]]
      /\ pc'[Daemon] \notin {"off", "failed"} => Loaded'
  BY DEF Requested, vars, Loaded, Config, Given
<1> QED BY <1>1, <1>2, <1>3, <1>4, <1>5, Settles

(* A request that moves on within the rules.                               *)
LEMMA MoveKeeps ==
    ASSUME TypeOK, Requested, NEW r \in Requests, NEW s, request[r] # Idle, MoveTo(r, s),
           OnlyRequests, Placed([request[r] EXCEPT !.stage = s])
    PROVE  Requested'
<1>1. Serving /\ Lawful(request[r])  BY DEF Requested
<1>2. Lawful([request[r] EXCEPT !.stage = s])  BY <1>1, Advances
<1> QED
  BY <1>1, <1>2, PutKeeps DEF MoveTo, OnlyRequests, Requested

(* A request that is over.                                                 *)
LEMMA AnswerKeeps ==
    ASSUME TypeOK, Requested, NEW r \in Requests, Serving, Answered(r), OnlyRequests
    PROVE  Requested'
  BY PutKeeps DEF Answered, OnlyRequests, Requested

-----------------------------------------------------------------------------
(* The handlers.                                                           *)

(* Only what the guards let through arrives (app.Handler).                 *)
LEMMA ArriveKeeps ==
    ASSUME TypeOK, Requested, NEW r \in Requests, NEW sent \in world.traffic,
           NEW secret \in Secrets(sent), Arrive(r, sent, secret)
    PROVE  Requested'
<1> DEFINE q == Received(sent, secret)
           n == [q EXCEPT !.stage = Behind(q)]
<1>1. /\ DOMAIN q = Fields /\ q.secret = secret /\ q.client = None /\ q.stale = Dead(secret)
  BY DEF Received, Fields
<1>2. /\ LocalOnly(q) = Pass /\ HostGuard(q) = Pass /\ CORS(q) = Pass
      /\ OriginGuard(q) = Pass /\ KeyForm(q) = Pass
  <2>1. \A i \in 1..5 : Guards(q)[i] = Pass  BY DEF Arrive, Refusals, Guards
  <2> QED BY <2>1 DEF Guards
<1>3. Cleared(q)
  <2>1. Config.ok /\ Config = load(Given(Daemon)) /\ world \in Worlds
    BY DEF Arrive, Serving, Requested, Loaded, TypeOK
  <2>2. "foreign" \notin hostAllowlist(Config)
        /\ Value(Config, Plain("security.cors_allowed_origins")) # "foreign"
    BY <2>1, WorldsAssumption DEF Given
  <2>3. q.peer = "loopback"  BY <1>2 DEF LocalOnly, Pass
  <2>4. q.host # "foreign"  BY <1>2, <2>2 DEF HostGuard, Pass, IsLoopback
  <2>5. isMutating(q) /\ (Mgmt(q) \/ q.route = "web") => q.origin # "foreign"
    BY <1>2, <2>2 DEF OriginGuard, ConfiguredOrigin, Pass, IsLoopback
  <2>6. KeyNeeded(q) /\ ExtractClientKey(q) = None
        => ~IsOn(Config, Plain("security.require_client_key"))
    BY <1>2 DEF KeyForm, KeyNeeded, Pass
  <2> QED BY <2>3, <2>4, <2>5, <2>6 DEF Cleared
<1>4. Known(q)
  <2>1. secret \in Presentable  BY DEF Secrets, Presentable
  <2> QED BY <1>1, <2>1, BoundsAssumption, AccessAssumption
          DEF Known, Presentable, Secret, Junk, TypeOK
<1>5. Placed(n)
  BY <1>1 DEF Placed, Behind, Fields, Mgmt, Inference, KeyNeeded, isMutating, ExtractClientKey
<1>6. Lawful(n)
  BY <1>1, <1>3, <1>4, <1>5
  DEF Lawful, Fields, Cleared, Known, Dead, Mgmt, KeyNeeded, Inference, isMutating,
      ExtractClientKey
<1> QED BY <1>6, PutKeeps DEF Arrive, OnlyRequests, Requested

(* Who is at the management API's handlers has shown the token of the time *)
(* (ManagementAuth).                                                       *)
LEMMA TokenKeeps ==
    ASSUME TypeOK, Requested, NEW r \in Requests, VerifyManagementToken(r)
    PROVE  Requested'
<1> DEFINE q == request[r]
<1>1. q # Idle /\ q.stage = "token"  BY DEF VerifyManagementToken, At, Idle
<1>2. Lawful(q)  BY <1>1 DEF Requested
<1>3. CASE extractToken(q) = Secret("token", hash)
  <2>1. Secret("token", hash) # None
    BY AccessAssumption, BoundsAssumption DEF Secret, TypeOK
  <2>2. q.secret.kind = "token" /\ ~q.stale
    BY <1>2, <1>3, <2>1 DEF extractToken, Lawful, Known, Dead, Secret
  <2>3. Placed([q EXCEPT !.stage = "right"])
    BY <1>1, <1>2, <2>2
    DEF Lawful, Placed, Fields, Mgmt, KeyNeeded, Inference, isMutating, ExtractClientKey
  <2> QED BY <1>1, <1>3, <2>3, MoveKeeps DEF VerifyManagementToken
<1>4. CASE extractToken(q) # Secret("token", hash)
  <2>1. Placed([q EXCEPT !.stage = "wrong"])
    BY <1>1, <1>2
    DEF Lawful, Placed, Fields, Mgmt, KeyNeeded, Inference, isMutating, ExtractClientKey
  <2> QED BY <1>1, <1>4, <2>1, MoveKeeps DEF VerifyManagementToken
<1> QED BY <1>3, <1>4

(* A client is who its live key says (ClientAuth, ClientKeyStore.Verify).  *)
LEMMA KeyKeeps ==
    ASSUME TypeOK, Requested, NEW r \in Requests, VerifyClientKey(r)
    PROVE  Requested'
<1> DEFINE q == request[r]
<1>1. q # Idle /\ q.stage = "key" /\ Serving  BY DEF VerifyClientKey, At, Idle
<1>2. Lawful(q)  BY <1>1 DEF Requested
<1>3. PICK id \in {lookup(ExtractClientKey(q)), None} :
        IF id = None THEN Answered(r)
        ELSE Put(r, [q EXCEPT !.stage = "gates", !.client = id])
  BY DEF VerifyClientKey
<1>4. OnlyRequests  BY DEF VerifyClientKey
<1>5. CASE id = None  BY <1>1, <1>3, <1>4, <1>5, AnswerKeeps
<1>6. CASE id # None
  <2> DEFINE n == [q EXCEPT !.stage = "gates", !.client = id]
  <2>1. ExtractClientKey(q) = q.secret
    BY <1>1, <1>2 DEF Lawful, Placed, ExtractClientKey
  <2>2. q.secret.kind = "key" /\ ~q.stale /\ id = q.secret.n
    BY <1>2, <1>3, <1>6, <2>1 DEF lookup, Lawful, Known, Dead
  <2>3. Lawful(n)
    BY <1>1, <1>2, <2>2
    DEF Lawful, Fields, Cleared, Known, Dead, Placed, Mgmt, KeyNeeded, Inference, isMutating,
        ExtractClientKey
  <2> QED BY <1>1, <1>3, <1>4, <1>6, <2>3, PutKeeps DEF OnlyRequests, Requested
<1> QED BY <1>5, <1>6

(* The steps of a request that only move it on.                            *)
LEMMA StepKeeps ==
    ASSUME TypeOK, Requested, NEW r \in Requests,
           \/ Allow(r) \/ RetryAfter(r) \/ VerifyFails(r) \/ RecordFailure(r) \/ Success(r)
           \/ PreRequest(r) \/ Ungated(r) \/ Reply(r)
    PROVE  Requested'
<1> DEFINE q == request[r]
           Later(s) == [q EXCEPT !.stage = s]
<1> USE DEF At, Idle
<1>1. ASSUME q.stage \in {"throttle", "token"}, NEW s \in {"limited", "token", "wrong"}
      PROVE  Placed(Later(s))
  BY <1>1 DEF Requested, Lawful, Placed, Fields, Mgmt, KeyNeeded, Inference, isMutating,
     ExtractClientKey
<1>2. ASSUME q.stage \in {"right", "gates"} PROVE Placed(Later("served"))
  BY <1>2 DEF Requested, Lawful, Placed, Fields, Mgmt, KeyNeeded, Inference, isMutating,
     ExtractClientKey
<1>3. CASE Allow(r)  BY <1>3, <1>1, MoveKeeps DEF Allow
<1>4. CASE RetryAfter(r)  BY <1>4, AnswerKeeps DEF RetryAfter
<1>5. CASE VerifyFails(r)  BY <1>5, <1>1, MoveKeeps DEF VerifyFails
<1>6. CASE RecordFailure(r)  BY <1>6, AnswerKeeps DEF RecordFailure
<1>7. CASE Success(r)  BY <1>7, <1>2, MoveKeeps DEF Success
<1>8. CASE PreRequest(r)  BY <1>8, <1>2, MoveKeeps, AnswerKeeps DEF PreRequest
<1>9. CASE Ungated(r)  BY <1>9, <1>2, MoveKeeps DEF Ungated
<1>10. CASE Reply(r)  BY <1>10, AnswerKeeps DEF Reply
<1> QED BY <1>3, <1>4, <1>5, <1>6, <1>7, <1>8, <1>9, <1>10

(* The steps on client keys, of requests and of commands.                  *)
LEMMA KeysKeep ==
    ASSUME TypeOK, Requested, NEW r \in Requests, CreateClientKey(r) \/ RevokeClientKey(r)
    PROVE  Requested'
<1>1. Serving /\ Answered(r) /\ UNCHANGED vars
  BY DEF CreateClientKey, RevokeClientKey, At, Handles
<1>2. /\ keys' \in [KeyIds -> {"none", "live", "revoked"}]
      /\ \E k \in KeyIds : Create(k) \/ Revoke(k)
  BY DEF CreateClientKey, RevokeClientKey, Create, Revoke, Requested
<1> QED BY <1>1, <1>2, PutKeeps DEF Answered

(* A step of a process, whatever becomes of the keys and the requests.     *)
LEMMA ProcessKeeps ==
    ASSUME TypeOK, Requested, NEW p \in Procs, Act(p),
           keys' \in [KeyIds -> {"none", "live", "revoked"}],
           keys' = keys \/ \E k \in KeyIds : Create(k) \/ Revoke(k),
           request' = [r \in Requests |-> request'[r]],
           \A r \in Requests : request'[r] # Idle => request'[r] = request[r],
           pc'[Daemon] = "off" => \A r \in Requests : request'[r] = Idle
    PROVE  Requested'
<1>1. Program(Daemon) = "serve"  BY WorldsAssumption DEF Program, TypeOK
<1>2. /\ settings' = [q \in Procs |-> settings'[q]]
      /\ pc'[Daemon] \notin {"off", "failed"} => Loaded'
      /\ Serving => Config' = Config /\ (Serving' \/ pc'[Daemon] = "off")
  BY <1>1, ActSettings DEF Requested
<1>3. /\ drawn' \in Nat /\ drawn' >= drawn
      /\ hash' = hash \/ hash' > drawn
  BY ActKeeps
<1>4. \A k \in KeyIds :
        \/ keys'[k] = keys[k]
        \/ keys[k] = "none" /\ keys'[k] = "live"
        \/ keys'[k] = "revoked"
  BY DEF Requested, Create, Revoke
<1>5. CASE Serving
  <2>1. Moves  BY <1>2, <1>3, <1>4, <1>5 DEF Moves
  <2>2. \A r \in Requests : request'[r] # Idle => Serving' /\ Lawful(request'[r])
    BY <1>2, <1>5 DEF Requested
  <2> QED BY <1>2, <2>1, <2>2, Settles
<1>6. CASE ~Serving
  <2>1. \A r \in Requests : request'[r] = Idle  BY <1>6 DEF Requested
  <2> QED BY <1>2, <2>1 DEF Requested
<1> QED BY <1>5, <1>6

(* A step that touches no request, process or key.                         *)
LEMMA UntouchedKeeps ==
    ASSUME TypeOK, Requested, UNCHANGED <<vars, keys, request>>
    PROVE  Requested'
<1>1. drawn \in Nat  BY BoundsAssumption DEF TypeOK
<1>2. Moves /\ Serving' = Serving  BY <1>1 DEF Moves, vars, Config, Serving
<1>3. /\ settings' = [p \in Procs |-> settings'[p]]
      /\ pc'[Daemon] \notin {"off", "failed"} => Loaded'
  BY DEF Requested, vars, Loaded, Config, Given
<1> QED BY <1>2, <1>3, Settles DEF Requested

(* Every step of Access keeps the invariant.                               *)
LEMMA AccessPreserves ==
    ASSUME TypeOK, Requested, [AccessNext]_allVars
    PROVE  Requested'
<1>1. /\ keys \in [KeyIds -> {"none", "live", "revoked"}]
      /\ request = [r \in Requests |-> request[r]]
  BY DEF Requested
<1>2. CASE Elsewhere
  <2>1. PICK p \in Procs : Act(p)
    BY <1>2, NextActs DEF Elsewhere, Next
  <2>2. keys' = keys  BY <1>2 DEF Elsewhere
  <2>3. CASE pc'[Daemon] = "off"
    <3>1. request' = [r \in Requests |-> Idle]  BY <1>2, <2>3 DEF Elsewhere, Forget
    <3> QED BY <1>1, <2>1, <2>2, <3>1, ProcessKeeps
  <2>4. CASE pc'[Daemon] # "off"
    <3>1. request' = request  BY <1>2, <2>4 DEF Elsewhere, memory
    <3> QED BY <1>1, <2>1, <2>2, <2>4, <3>1, ProcessKeeps
  <2> QED BY <2>3, <2>4
<1>3. CASE Tick
  BY <1>3, UntouchedKeeps DEF Tick, memory
<1>4. ASSUME NEW r \in Requests, Handler(r) PROVE Requested'
  <2>1. CASE RotateToken(r) \/ AddCredential(r) \/ RemoveCredential(r)
    <3>1. Act(Daemon)
      BY <2>1 DEF RotateToken, AddCredential, RemoveCredential, Act
    <3>2. /\ Answered(r) /\ keys' = keys /\ pc'[Daemon] # "off"
      BY <2>1, AccessAssumption, WorldsAssumption
      DEF RotateToken, AddCredential, RemoveCredential, Rotate, AddAPIKey, DeleteCredential,
          Goto, Done, Program, TypeOK
    <3>3. /\ request' = [x \in Requests |-> request'[x]]
          /\ \A x \in Requests : request'[x] # Idle => request'[x] = request[x]
      BY <1>1, <3>2 DEF Answered, Put
    <3> QED BY <1>1, <3>1, <3>2, <3>3, AccessAssumption, ProcessKeeps
  <2>2. CASE CreateClientKey(r) \/ RevokeClientKey(r)  BY <2>2, KeysKeep
  <2>3. CASE \E sent \in world.traffic : \E secret \in Secrets(sent) : Arrive(r, sent, secret)
    BY <2>3, ArriveKeeps
  <2>4. CASE VerifyManagementToken(r)  BY <2>4, TokenKeeps
  <2>5. CASE VerifyClientKey(r)  BY <2>5, KeyKeeps
  <2> QED BY <1>4, <2>1, <2>2, <2>3, <2>4, <2>5, StepKeeps DEF Handler
<1>5. ASSUME NEW p \in Procs, KeyCommand(p) PROVE Requested'
  <2>1. p # Daemon
    BY <1>5, WorldsAssumption DEF KeyCommand, Program, TypeOK
  <2>2. Act(p) /\ request' = request /\ pc'[Daemon] = pc[Daemon]
    BY <1>5, <2>1, AccessAssumption DEF KeyCommand, Act, Close, Goto, memory, TypeOK
  <2>3. /\ keys' \in [KeyIds -> {"none", "live", "revoked"}]
        /\ \E k \in KeyIds : Create(k) \/ Revoke(k)
    BY <1>1, <1>5 DEF KeyCommand, Create, Revoke
  <2>4. pc'[Daemon] = "off" => \A r \in Requests : request'[r] = Idle
    BY <2>2 DEF Requested, Serving
  <2> QED BY <1>1, <2>2, <2>3, <2>4, ProcessKeeps
<1>6. CASE UNCHANGED allVars
  BY <1>6, UntouchedKeeps DEF allVars, accessVars, memory
<1> QED BY <1>2, <1>3, <1>4, <1>5, <1>6 DEF AccessNext

(* At first nothing is requested.                                          *)
LEMMA InitRequested == AccessInit => Requested
  BY AccessAssumption DEF AccessInit, Init, Requested, Loaded, Config, Idle

-----------------------------------------------------------------------------
(* The invariant of the requests.                                          *)
THEOREM RequestInvariant == AccessSpec => [](TypeOK /\ Requested)
<1>1. AccessSpec => []TypeOK
  <2>1. IInv => TypeOK  BY DEF IInv
  <2> QED BY <2>1, Implements, Invariant, PTL
<1>2. TypeOK /\ Requested /\ [AccessNext]_allVars => Requested'  BY AccessPreserves
<1> QED BY <1>1, <1>2, InitRequested, PTL DEF AccessSpec

(* Whoever is served is entitled to it: local, under a local name, no      *)
(* foreign page, with the token or a client's key as they were when the    *)
(* request came or later (Handler's guards, ManagementAuth, ClientAuth).   *)
THEOREM OnlyEntitled == AccessSpec => []OnlyEntitledServed
<1>1. TypeOK /\ Requested => OnlyEntitledServed
  <2> SUFFICES ASSUME TypeOK, Requested, NEW r \in Requests, request[r].stage = "served"
               PROVE  LET q == request[r] IN
        /\ q.peer = "loopback" /\ q.host # "foreign"
        /\ isMutating(q) /\ (Mgmt(q) \/ q.route = "web") => q.origin # "foreign"
        /\ Mgmt(q) => q.secret.kind = "token" /\ ~q.stale
        /\ Inference(q) /\ isMutating(q) =>
             IF ExtractClientKey(q) # None
             THEN q.secret.kind = "key" /\ ~q.stale /\ q.client = q.secret.n
             ELSE q.client = None /\ ~IsOn(Config, Plain("security.require_client_key"))
    BY DEF OnlyEntitledServed
  <2>1. Lawful(request[r])  BY DEF Requested, Idle
  <2> QED BY <2>1 DEF Lawful, Cleared, Placed, KeyNeeded
<1> QED BY <1>1, RequestInvariant, PTL
-----------------------------------------------------------------------------
(* What the daemon remembers of time: the throttle and the limiter.        *)

(* The throttle's entry e and the wrong tokens f, at the time c: the last  *)
(* e.failures of them are of the entry's own window, the others came       *)
(* before it and all but a window's worth of them long before it; a lock   *)
(* lasts until the last of them is over.                                   *)
Entries == [failures : Nat, start : Nat, until : Nat \cup {None}]
Throttles(e, f, c) ==
    LET before == Len(f) - e.failures IN
    /\ e \in Entries /\ e.start <= c /\ before >= 0
    /\ \A i \in 1..Len(f) : i <= before => f[i] <= e.start
    /\ \A i \in 1..Len(f) :
         i <= before - (LoginLimit - 1) => f[i] <= e.start - LoginWindow
    /\ IF e.until = None THEN e.failures < LoginLimit
       ELSE /\ e.failures >= LoginLimit
            /\ \A i \in 1..Len(f) : f[i] <= e.until - LoginWindow
Recorded(e, f, c) ==
    /\ f \in Seq(Nat) /\ \A i \in 1..Len(f) : f[i] <= c
    /\ IF e = None THEN f = <<>> ELSE Throttles(e, f, c)

(* A bucket b and the times it let a request through, at the time c: what  *)
(* it let through since any of them, and what it still holds, come from    *)
(* its burst and from what it gained since.                                *)
Paid(b, times, c) ==
    /\ b \in [tokens : Nat, last : Nat] /\ b.tokens <= Capacity /\ b.last <= c
    /\ times \in Seq(Nat)
    /\ \A i \in 1..Len(times) : times[i] <= b.last
    /\ \A i \in 1..Len(times) :
         (Len(times) - i + 1) * Interval + b.tokens
            <= Capacity + (b.last - times[i]) * Rate
    /\ \A i, j \in 1..Len(times) : i <= j =>
         (j - i + 1) * Interval <= Capacity + (times[j] - times[i]) * Rate
Spends ==
    /\ buckets = [k \in DOMAIN buckets |-> buckets[k]]
    /\ admitted = [k \in DOMAIN admitted |-> admitted[k]]
    /\ DOMAIN admitted \subseteq DOMAIN buckets
    /\ \A k \in DOMAIN buckets : Paid(buckets[k], TimesOf(admitted, k), clock)

Remembered == clock \in Nat /\ Recorded(entry, failed, clock) /\ Spends

(* Looking at the entry keeps it, or opens a new window for it.            *)
LEMMA EntryLocked ==
    ASSUME Remembered
    PROVE  /\ Throttles(entryLocked, failed, clock)
           /\ ~Locks(entryLocked.until) => clock - entryLocked.start < LoginWindow
<1> DEFINE new == [failures |-> 0, start |-> clock, until |-> None]
<1>1. /\ clock \in Nat /\ LoginLimit \in Nat \ {0} /\ LoginWindow \in Nat \ {0}
      /\ None \notin Nat
  BY AccessAssumption DEF Remembered
<1>2. /\ failed \in Seq(Nat) /\ Len(failed) \in Nat
      /\ \A i \in 1..Len(failed) : failed[i] \in Nat /\ failed[i] <= clock
  BY DEF Remembered, Recorded
<1>3. /\ new \in Entries /\ new.failures = 0 /\ new.start = clock /\ new.until = None
  BY <1>1 DEF Entries
<1> HIDE DEF new
<1>4. CASE entry = None
  <2>1. entryLocked = new
    BY <1>4 DEF entryLocked, new
  <2>2. failed = <<>> /\ Len(failed) = 0
    BY <1>4 DEF Remembered, Recorded
  <2> QED BY <1>1, <1>3, <2>1, <2>2 DEF Throttles, Locks
<1>5. CASE entry # None
  <2>1. Throttles(entry, failed, clock)
    BY <1>5 DEF Remembered, Recorded
  <2>2. CASE Locks(entry.until) \/ clock - entry.start < LoginWindow
    BY <1>5, <2>1, <2>2 DEF entryLocked
  <2>3. CASE ~(Locks(entry.until) \/ clock - entry.start < LoginWindow)
    <3>1. entryLocked = new
      BY <1>5, <2>3 DEF entryLocked, new
    <3>2. /\ entry.failures \in Nat /\ entry.start \in Nat /\ entry.start <= clock
          /\ entry.until \in Nat \cup {None}
      BY <2>1 DEF Throttles, Entries
    <3>3. ASSUME NEW i \in 1..Len(failed), i <= Len(failed) - (LoginLimit - 1)
          PROVE  failed[i] <= clock - LoginWindow
      <4>1. CASE entry.until = None
        <5>1. entry.failures < LoginLimit
          BY <2>1, <4>1 DEF Throttles
        <5>2. i <= Len(failed) - entry.failures
          BY <1>1, <1>2, <3>2, <3>3, <5>1
        <5>3. failed[i] <= entry.start
          BY <2>1, <5>2 DEF Throttles
        <5> QED BY <1>1, <1>2, <2>3, <3>2, <5>3
      <4>2. CASE entry.until # None
        <5>1. failed[i] <= entry.until - LoginWindow
          BY <2>1, <4>2 DEF Throttles
        <5>2. entry.until <= clock
          BY <1>1, <2>3, <3>2, <4>2 DEF Locks
        <5> QED BY <1>1, <1>2, <3>2, <4>2, <5>1, <5>2
      <4> QED BY <4>1, <4>2
    <3>4. Throttles(new, failed, clock)
      BY <1>1, <1>2, <1>3, <3>3 DEF Throttles
    <3> QED BY <1>1, <1>3, <3>1, <3>4
  <2> QED BY <2>2, <2>3
<1> QED BY <1>4, <1>5

(* A wrong token is recorded, in the window of the moment (RecordFailure). *)
LEMMA FailureRecorded ==
    ASSUME Remembered, NEW r, RecordFailure(r)
    PROVE  Recorded(entry', failed', clock)
<1> DEFINE e0 == entryLocked
           n  == Len(failed)
           e  == [e0 EXCEPT !.failures = @ + 1]
           e2 == [e EXCEPT !.until = clock + LoginWindow]
<1>1. /\ clock \in Nat /\ LoginLimit \in Nat \ {0} /\ LoginWindow \in Nat \ {0}
      /\ None \notin Nat
  BY AccessAssumption DEF Remembered
<1>2. /\ failed \in Seq(Nat) /\ n \in Nat
      /\ \A i \in 1..n : failed[i] \in Nat /\ failed[i] <= clock
  BY DEF Remembered, Recorded
<1>3. /\ failed' = Append(failed, clock)
      /\ entry' = IF e.failures >= LoginLimit THEN e2 ELSE e
  BY DEF RecordFailure
<1>4. /\ failed' \in Seq(Nat) /\ Len(failed') = n + 1 /\ failed'[n + 1] = clock
      /\ \A i \in 1..n : failed'[i] = failed[i]
  BY <1>1, <1>2, <1>3
<1>5. /\ Throttles(e0, failed, clock)
      /\ ~Locks(e0.until) => clock - e0.start < LoginWindow
  BY EntryLocked
<1> HIDE DEF e0, n
<1>6. /\ e0 \in Entries /\ e0.failures \in Nat /\ e0.start \in Nat
      /\ e0.until \in Nat \cup {None} /\ e0.start <= clock
  BY <1>5 DEF Throttles, Entries
<1>7. /\ e \in Entries /\ e.failures = e0.failures + 1 /\ e.start = e0.start
      /\ e.until = e0.until
  BY <1>6 DEF Entries
<1> HIDE DEF e
<1>8. /\ e2 \in Entries /\ e2.failures = e.failures /\ e2.start = e.start
      /\ e2.until = clock + LoginWindow /\ e2.until # None
  BY <1>1, <1>7 DEF Entries
<1> HIDE DEF e2
<1>9. PICK m \in Nat : m = n - e0.failures
  <2>1. n - e0.failures >= 0
    BY <1>5 DEF Throttles, n
  <2> QED BY <1>2, <1>6, <2>1
<1>10. Len(failed') - e.failures = m /\ Len(failed') - e2.failures = m
  BY <1>2, <1>4, <1>6, <1>7, <1>8, <1>9
<1>11. \A i \in 1..Len(failed') :
         /\ failed'[i] \in Nat /\ failed'[i] <= clock
         /\ i <= m => failed'[i] <= e0.start
         /\ i <= m - (LoginLimit - 1) => failed'[i] <= e0.start - LoginWindow
  <2> SUFFICES ASSUME NEW i \in 1..Len(failed')
               PROVE  /\ failed'[i] \in Nat /\ failed'[i] <= clock
                      /\ i <= m => failed'[i] <= e0.start
                      /\ i <= m - (LoginLimit - 1) => failed'[i] <= e0.start - LoginWindow
    OBVIOUS
  <2>1. CASE i = n + 1
    <3>1. ~(i <= m) /\ ~(i <= m - (LoginLimit - 1))
      BY <1>1, <1>2, <1>6, <1>9, <2>1
    <3> QED BY <1>1, <1>4, <2>1, <3>1
  <2>2. CASE i \in 1..n
    <3>1. failed'[i] = failed[i] /\ failed[i] \in Nat /\ failed[i] <= clock
      BY <1>2, <1>4, <2>2
    <3>2. /\ i <= m => failed[i] <= e0.start
          /\ i <= m - (LoginLimit - 1) => failed[i] <= e0.start - LoginWindow
      BY <1>5, <1>9, <2>2 DEF Throttles, n
    <3> QED BY <3>1, <3>2
  <2> QED BY <1>2, <1>4, <2>1, <2>2
<1>12. CASE e.failures >= LoginLimit
  <2>1. \A i \in 1..Len(failed') : failed'[i] <= e2.until - LoginWindow
    BY <1>1, <1>8, <1>11
  <2>2. e2.start = e0.start /\ e2.failures >= LoginLimit /\ e2.until # None
    BY <1>7, <1>8, <1>12
  <2>3. Throttles(e2, failed', clock)
    BY <1>6, <1>8, <1>10, <1>11, <2>1, <2>2 DEF Throttles
  <2>4. entry' = e2 /\ e2 # None
    BY <1>3, <1>8, <1>12, AccessAssumption DEF Entries
  <2> QED BY <1>4, <1>11, <2>3, <2>4 DEF Recorded
<1>13. CASE ~(e.failures >= LoginLimit)
  <2>1. e0.until = None
    BY <1>1, <1>5, <1>6, <1>7, <1>13 DEF Throttles
  <2>2. e.start = e0.start /\ e.failures < LoginLimit /\ e.until = None
    BY <1>1, <1>6, <1>7, <1>13, <2>1
  <2>3. Throttles(e, failed', clock)
    BY <1>6, <1>7, <1>10, <1>11, <2>2 DEF Throttles
  <2>4. entry' = e /\ e # None
    BY <1>3, <1>13, <1>7, AccessAssumption DEF Entries
  <2> QED BY <1>4, <1>11, <2>3, <2>4 DEF Recorded
<1> QED BY <1>12, <1>13

(* Time passes: nothing is spent.                                          *)
LEMMA PaidLater ==
    ASSUME NEW b, NEW times, NEW c \in Nat, Paid(b, times, c)
    PROVE  Paid(b, times, c + 1)
BY DEF Paid

(* What is gained in two stretches of time is gained in both together.     *)
LEMMA Gains ==
    ASSUME NEW a \in Nat, NEW b \in Nat, NEW c \in Nat, NEW r \in Nat, b <= c
    PROVE  /\ (b - a) * r + (c - b) * r = (c - a) * r
           /\ (c - b) * r \in Nat
<1>1. (b - a) * r + (c - b) * r = (c - a) * r
  OBVIOUS
<1>2. PICK d \in Nat : d = c - b
  OBVIOUS
<1>3. d * r \in Nat
  OBVIOUS
<1> QED BY <1>1, <1>2, <1>3

(* A bucket that is looked at has gained what the time since is worth, and *)
(* not more than it holds (refill).                                        *)
LEMMA Refills ==
    ASSUME NEW b, NEW times, Paid(b, times, clock), clock \in Nat
    PROVE  Paid(refill(b), times, clock) /\ refill(b).last = clock
<1> DEFINE now  == b.tokens + (clock - b.last) * Rate
           full == Rate * Interval
<1>1. /\ Rate \in Nat /\ Interval \in Nat /\ full \in Nat /\ Capacity = full
  BY AccessAssumption DEF Capacity
<1>2. /\ b.tokens \in Nat /\ b.last \in Nat /\ b.last <= clock /\ b.tokens <= full
      /\ times \in Seq(Nat) /\ Len(times) \in Nat
      /\ \A i \in 1..Len(times) : times[i] \in Nat /\ times[i] <= b.last
  <2>1. /\ b \in [tokens : Nat, last : Nat] /\ b.tokens <= Capacity /\ b.last <= clock
        /\ times \in Seq(Nat) /\ \A i \in 1..Len(times) : times[i] <= b.last
    BY Zenon DEF Paid
  <2> HIDE DEF full
  <2> QED BY <1>1, <2>1
<1>3. (clock - b.last) * Rate \in Nat /\ now \in Nat
  <2>1. PICK last \in Nat, tokens \in Nat :
          last = b.last /\ tokens = b.tokens /\ last <= clock
    BY <1>2
  <2>2. (last - 0) * Rate + (clock - last) * Rate = (clock - 0) * Rate
        /\ (clock - last) * Rate \in Nat
    BY <1>1, <2>1, Gains
  <2>3. tokens + (clock - last) * Rate \in Nat
    BY <2>2
  <2> QED BY <2>1, <2>2, <2>3
<1>4. PICK t \in Nat : t = (IF now > full THEN full ELSE now) /\ t <= full /\ t <= now
  BY <1>1, <1>3
<1>5. refill(b) = [tokens |-> t, last |-> clock]
  BY <1>1, <1>4 DEF refill
<1>6. ASSUME NEW i \in 1..Len(times)
      PROVE  (Len(times) - i + 1) * Interval + t <= full + (clock - times[i]) * Rate
  <2>1. (Len(times) - i + 1) * Interval + b.tokens <= full + (b.last - times[i]) * Rate
    BY <1>1 DEF Paid
  <2>2. (b.last - times[i]) * Rate + (clock - b.last) * Rate = (clock - times[i]) * Rate
    <3>1. PICK last \in Nat, when \in Nat : last = b.last /\ when = times[i]
      BY <1>2
    <3>2. when <= last /\ last <= clock
      BY <1>2, <3>1
    <3>3. (last - when) * Rate + (clock - last) * Rate = (clock - when) * Rate
      BY ONLY <1>1, <3>2, clock \in Nat, last \in Nat, when \in Nat, Gains
    <3> QED BY ONLY <3>1, <3>3
  <2>3. PICK x \in Int, y \in Int, z \in Int, v \in Int :
          /\ x = (Len(times) - i + 1) * Interval /\ y = (b.last - times[i]) * Rate
          /\ z = (clock - b.last) * Rate /\ v = (clock - times[i]) * Rate
    <3>1. PICK last \in Nat, when \in Nat, len \in Nat, k \in Nat :
            last = b.last /\ when = times[i] /\ len = Len(times) /\ k = i
      BY <1>2
    <3>2. /\ (len - k + 1) * Interval \in Int /\ (last - when) * Rate \in Int
          /\ (clock - last) * Rate \in Int /\ (clock - when) * Rate \in Int
      BY <1>1
    <3> QED BY <3>1, <3>2
  <2> HIDE DEF full
  <2>4. x + b.tokens <= full + y /\ y + z = v /\ t <= b.tokens + z
    BY <1>4, <2>1, <2>2, <2>3
  <2>5. x + t <= full + v
    BY <1>1, <1>2, <2>4
  <2> QED BY <2>3, <2>5
<1>7. /\ [tokens |-> t, last |-> clock] \in [tokens : Nat, last : Nat]
      /\ [tokens |-> t, last |-> clock].tokens = t
      /\ [tokens |-> t, last |-> clock].last = clock
  BY <1>4
<1>8. \A i \in 1..Len(times) : times[i] <= clock
  BY <1>2
<1>9. \A i, j \in 1..Len(times) : i <= j =>
        (j - i + 1) * Interval <= Capacity + (times[j] - times[i]) * Rate
  BY DEF Paid
<1> QED BY <1>1, <1>2, <1>4, <1>5, <1>6, <1>7, <1>8, <1>9 DEF Paid

(* A request that is let through is paid for.                              *)
LEMMA Pays ==
    ASSUME NEW b, NEW times, Paid(b, times, clock), clock \in Nat, b.last = clock,
           b.tokens >= Interval
    PROVE  Paid([b EXCEPT !.tokens = @ - Interval], Append(times, clock), clock)
<1> DEFINE n    == Len(times)
           b2   == [b EXCEPT !.tokens = @ - Interval]
           more == Append(times, clock)
<1>1. /\ Rate \in Nat /\ Interval \in Nat /\ Capacity \in Nat
  BY AccessAssumption DEF Capacity
<1>2. /\ b \in [tokens : Nat, last : Nat] /\ b.tokens \in Nat /\ b.tokens <= Capacity
      /\ times \in Seq(Nat) /\ n \in Nat
      /\ \A i \in 1..n : times[i] \in Nat /\ times[i] <= clock
  BY DEF Paid
<1>3. PICK t \in Nat : t = b.tokens - Interval
  BY <1>1, <1>2
<1>4. b2 \in [tokens : Nat, last : Nat] /\ b2.tokens = t /\ b2.last = clock
  BY <1>2, <1>3
<1> HIDE DEF b2
<1>5. /\ more \in Seq(Nat) /\ Len(more) = n + 1 /\ more[n + 1] = clock
      /\ \A i \in 1..n : more[i] = times[i]
  BY <1>2
<1> HIDE DEF more
<1>6. ASSUME NEW i \in 1..n
      PROVE  (n + 1 - i + 1) * Interval + t <= Capacity + (clock - times[i]) * Rate
  <2>1. (n - i + 1) * Interval + b.tokens <= Capacity + (clock - times[i]) * Rate
    BY DEF Paid
  <2>2. (n + 1 - i + 1) * Interval = (n - i + 1) * Interval + Interval
    BY <1>1, <1>2
  <2>3. PICK x \in Int, v \in Int :
          x = (n - i + 1) * Interval /\ v = (clock - times[i]) * Rate
    BY <1>1, <1>2
  <2> HIDE DEF n
  <2>4. x + Interval + t <= Capacity + v
    BY <1>1, <1>2, <1>3, <2>1, <2>3
  <2> QED BY <2>2, <2>3, <2>4
<1>7. (n + 1 - (n + 1) + 1) * Interval + t <= Capacity + (clock - clock) * Rate
  BY <1>1, <1>2, <1>3
<1>8. ASSUME NEW i \in 1..n
      PROVE  (n + 1 - i + 1) * Interval <= Capacity + (clock - times[i]) * Rate
  <2>1. PICK x \in Int, v \in Int :
          x = (n + 1 - i + 1) * Interval /\ v = (clock - times[i]) * Rate
    BY <1>1, <1>2
  <2>2. x + t <= Capacity + v
    BY <1>6, <2>1
  <2>3. x <= Capacity + v
    BY <1>1, <2>2
  <2> QED BY <2>1, <2>3
<1>9. \A i \in 1..Len(more) :
        (Len(more) - i + 1) * Interval + t <= Capacity + (clock - more[i]) * Rate
  <2> SUFFICES ASSUME NEW i \in 1..Len(more)
               PROVE  (n + 1 - i + 1) * Interval + t <= Capacity + (clock - more[i]) * Rate
    BY <1>5
  <2>1. CASE i = n + 1
    BY <1>5, <1>7, <2>1
  <2>2. CASE i \in 1..n
    BY <1>5, <1>6, <2>2
  <2> QED BY <1>2, <1>5, <2>1, <2>2
<1>10. \A i, j \in 1..Len(more) : i <= j =>
         (j - i + 1) * Interval <= Capacity + (more[j] - more[i]) * Rate
  <2> SUFFICES ASSUME NEW i \in 1..Len(more), NEW j \in 1..Len(more), i <= j
               PROVE  (j - i + 1) * Interval <= Capacity + (more[j] - more[i]) * Rate
    OBVIOUS
  <2>1. CASE i \in 1..n /\ j \in 1..n
    BY <1>5, <2>1 DEF Paid
  <2>2. CASE i \in 1..n /\ j = n + 1
    BY <1>5, <1>8, <2>2
  <2>3. CASE i = n + 1 /\ j = n + 1
    <3>1. (j - i + 1) * Interval = Interval /\ (more[j] - more[i]) * Rate = 0
      BY <1>1, <1>2, <1>5, <2>3
    <3> QED BY <1>1, <1>2, <3>1
  <2>4. (i \in 1..n \/ i = n + 1) /\ (j \in 1..n \/ j = n + 1)
    BY <1>2, <1>5
  <2>5. ~(i = n + 1 /\ j \in 1..n)
    BY <1>2
  <2> QED BY ONLY <2>1, <2>2, <2>3, <2>4, <2>5
<1>11. \A i \in 1..Len(more) : more[i] <= b2.last
  <2> SUFFICES ASSUME NEW i \in 1..Len(more) PROVE more[i] <= b2.last
    OBVIOUS
  <2>1. CASE i = n + 1
    BY <1>4, <1>5, <2>1
  <2>2. CASE i \in 1..n
    BY <1>2, <1>4, <1>5, <2>2
  <2> QED BY <1>2, <1>5, <2>1, <2>2
<1>12. t <= Capacity
  BY <1>1, <1>2, <1>3
<1>13. Paid(b2, more, clock)
  BY <1>4, <1>5, <1>9, <1>10, <1>11, <1>12 DEF Paid
<1> QED BY <1>13 DEF b2, more

(* The limiter's part of a request (RateLimiter.PreRequest).               *)
LEMMA LimiterKeeps ==
    ASSUME Remembered, NEW r, PreRequest(r)
    PROVE  Remembered'
<1> DEFINE k     == defaultKeyOf(request[r])
           times == TimesOf(admitted, k)
           b     == IF k \in DOMAIN buckets THEN refill(buckets[k]) ELSE Full
<1>1. clock \in Nat /\ Capacity \in Nat /\ Interval \in Nat
  BY AccessAssumption DEF Remembered, Capacity
<1>2. Paid(b, times, clock) /\ b.last = clock
  <2>1. CASE k \in DOMAIN buckets
    BY <1>1, <2>1, Refills DEF Remembered, Spends
  <2>2. CASE k \notin DOMAIN buckets
    <3>1. times = <<>>
      BY <2>2 DEF Remembered, Spends, TimesOf
    <3>2. /\ Full \in [tokens : Nat, last : Nat] /\ Full.tokens = Capacity
          /\ Full.last = clock
      BY <1>1 DEF Full
    <3>3. Paid(Full, <<>>, clock)
      BY <1>1, <3>2 DEF Paid
    <3> QED BY <2>2, <3>1, <3>2, <3>3
  <2> QED BY <2>1, <2>2
<1>3. \/ /\ b.tokens >= Interval
         /\ buckets' = With(buckets, k, [b EXCEPT !.tokens = @ - Interval])
         /\ admitted' = With(admitted, k, Append(times, clock))
      \/ buckets' = With(buckets, k, b) /\ admitted' = admitted
  BY DEF PreRequest
<1>4. UNCHANGED <<clock, entry, failed>>
  BY DEF PreRequest, OnlyRequests
<1> HIDE DEF b, times, k
<1>5. PICK b2, more :
        /\ Paid(b2, more, clock) /\ buckets' = With(buckets, k, b2)
        /\ \/ admitted' = With(admitted, k, more)
           \/ admitted' = admitted /\ more = times
  <2>1. CASE /\ b.tokens >= Interval
             /\ buckets' = With(buckets, k, [b EXCEPT !.tokens = @ - Interval])
             /\ admitted' = With(admitted, k, Append(times, clock))
    <3>1. Paid([b EXCEPT !.tokens = @ - Interval], Append(times, clock), clock)
      BY <1>1, <1>2, <2>1, Pays
    <3> QED BY <2>1, <3>1
  <2>2. CASE buckets' = With(buckets, k, b) /\ admitted' = admitted
    BY <1>2, <2>2
  <2> QED BY <1>3, <2>1, <2>2
<1>6. /\ buckets' = [x \in DOMAIN buckets \cup {k} |-> IF x = k THEN b2 ELSE buckets[x]]
      /\ DOMAIN buckets' = DOMAIN buckets \cup {k}
  BY <1>5 DEF With
<1>7. /\ DOMAIN admitted' \subseteq DOMAIN buckets'
      /\ admitted' = [x \in DOMAIN admitted' |-> admitted'[x]]
      /\ TimesOf(admitted', k) = more
      /\ \A x : x # k => TimesOf(admitted', x) = TimesOf(admitted, x)
  <2>1. CASE admitted' = With(admitted, k, more)
    <3>1. /\ admitted' = [x \in DOMAIN admitted \cup {k} |->
                            IF x = k THEN more ELSE admitted[x]]
          /\ DOMAIN admitted' = DOMAIN admitted \cup {k}
      BY <2>1 DEF With
    <3>2. /\ TimesOf(admitted', k) = more
          /\ \A x : x # k => TimesOf(admitted', x) = TimesOf(admitted, x)
      BY <3>1 DEF TimesOf
    <3> QED BY <1>6, <3>1, <3>2 DEF Remembered, Spends
  <2>2. CASE admitted' = admitted /\ more = times
    BY <1>6, <2>2 DEF Remembered, Spends, times
  <2> QED BY <1>5, <2>1, <2>2
<1>8. \A x \in DOMAIN buckets' : Paid(buckets'[x], TimesOf(admitted', x), clock)
  <2> SUFFICES ASSUME NEW x \in DOMAIN buckets'
               PROVE  Paid(buckets'[x], TimesOf(admitted', x), clock)
    OBVIOUS
  <2>1. CASE x = k
    BY <1>5, <1>6, <1>7, <2>1
  <2>2. CASE x # k
    <3>1. x \in DOMAIN buckets /\ buckets'[x] = buckets[x]
      BY <1>6, <2>2
    <3>2. Paid(buckets[x], TimesOf(admitted, x), clock)
      BY <3>1 DEF Remembered, Spends
    <3> QED BY <1>7, <2>2, <3>1, <3>2
  <2> QED BY <2>1, <2>2
<1>9. buckets' = [x \in DOMAIN buckets' |-> buckets'[x]]
  BY <1>6
<1>10. Spends'
  BY <1>4, <1>7, <1>8, <1>9 DEF Spends
<1> QED BY <1>4, <1>10 DEF Remembered

(* A step that changes nothing of it.                                      *)
LEMMA RememberedStays ==
    ASSUME Remembered, UNCHANGED <<clock, entry, failed, buckets, admitted>>
    PROVE  Remembered'
BY DEF Remembered, Recorded, Throttles, Spends, TimesOf

(* The memory of a daemon that has just started, or is no more.            *)
LEMMA NothingRemembered ==
    ASSUME clock \in Nat, entry = None, failed = <<>>, buckets = <<>>, admitted = <<>>
    PROVE  Remembered
<1>1. Recorded(entry, failed, clock)
  BY DEF Recorded
<1>2. DOMAIN buckets = {} /\ DOMAIN admitted = {}
  OBVIOUS
<1>3. Spends
  BY <1>2 DEF Spends
<1> QED BY <1>1, <1>3 DEF Remembered

(* Every step keeps what the daemon remembers truthful.                    *)
LEMMA RememberedKeeps ==
    ASSUME Remembered, [AccessNext]_allVars
    PROVE  Remembered'
<1>1. clock \in Nat
  BY DEF Remembered
<1>2. CASE Elsewhere
  <2>1. CASE Forget
    <3>1. /\ clock' = clock /\ entry' = None /\ failed' = <<>>
          /\ buckets' = <<>> /\ admitted' = <<>>
      BY <1>2, <2>1 DEF Elsewhere, Forget
    <3>2. Recorded(entry', failed', clock')
      BY <3>1 DEF Recorded
    <3>3. DOMAIN buckets' = {} /\ DOMAIN admitted' = {}
      BY <3>1
    <3>4. Spends'
      BY <3>1, <3>3 DEF Spends
    <3> QED BY <1>1, <3>1, <3>2, <3>4 DEF Remembered
  <2>2. CASE UNCHANGED memory
    BY <1>2, <2>2, RememberedStays DEF Elsewhere, memory
  <2> QED BY <1>2, <2>1, <2>2 DEF Elsewhere
<1>3. CASE Tick
  <2>1. clock' = clock + 1 /\ UNCHANGED <<entry, failed, buckets, admitted>>
    BY <1>3 DEF Tick, memory
  <2>2. Recorded(entry, failed, clock + 1)
    <3>1. \A i \in 1..Len(failed) : failed[i] <= clock + 1
      BY <1>1 DEF Remembered, Recorded
    <3>2. entry # None => Throttles(entry, failed, clock + 1)
      BY <1>1 DEF Remembered, Recorded, Throttles, Entries
    <3> QED BY <3>1, <3>2 DEF Remembered, Recorded
  <2>3. \A k \in DOMAIN buckets : Paid(buckets[k], TimesOf(admitted, k), clock + 1)
    BY <1>1, PaidLater DEF Remembered, Spends
  <2>4. Spends'
    BY <2>1, <2>3 DEF Remembered, Spends, TimesOf
  <2> QED BY <1>1, <2>1, <2>2, <2>4 DEF Remembered
<1>4. ASSUME NEW r \in Requests, Handler(r)
      PROVE  Remembered'
  <2>1. CASE Allow(r) \/ RetryAfter(r)
    <3>1. entry' = entryLocked /\ UNCHANGED <<clock, failed, buckets, admitted>>
      BY <2>1 DEF Allow, RetryAfter, OnlyRequests
    <3>2. Throttles(entryLocked, failed, clock)
      BY EntryLocked
    <3>3. entryLocked # None
      BY <3>2, AccessAssumption DEF Throttles, Entries
    <3>4. Recorded(entryLocked, failed, clock)
      BY <3>2, <3>3 DEF Remembered, Recorded
    <3>5. Spends'
      BY <3>1 DEF Remembered, Spends, TimesOf
    <3> QED BY <1>1, <3>1, <3>4, <3>5 DEF Remembered
  <2>2. CASE RecordFailure(r)
    <3>1. Recorded(entry', failed', clock)
      BY <2>2, FailureRecorded
    <3>2. UNCHANGED <<clock, buckets, admitted>>
      BY <2>2 DEF RecordFailure, OnlyRequests
    <3>3. Spends'
      BY <3>2 DEF Remembered, Spends, TimesOf
    <3> QED BY <1>1, <3>1, <3>2, <3>3 DEF Remembered
  <2>3. CASE Success(r)
    <3>1. entry' = None /\ failed' = <<>> /\ UNCHANGED <<clock, buckets, admitted>>
      BY <2>3 DEF Success, OnlyRequests
    <3>2. Recorded(entry', failed', clock)
      BY <3>1 DEF Recorded
    <3>3. Spends'
      BY <3>1 DEF Remembered, Spends, TimesOf
    <3> QED BY <1>1, <3>1, <3>2, <3>3 DEF Remembered
  <2>4. CASE PreRequest(r)
    BY <2>4, LimiterKeeps
  <2>5. CASE \/ \E sent \in world.traffic : \E secret \in Secrets(sent) : Arrive(r, sent, secret)
             \/ VerifyManagementToken(r) \/ VerifyFails(r) \/ VerifyClientKey(r)
             \/ Ungated(r) \/ RotateToken(r) \/ AddCredential(r) \/ RemoveCredential(r)
             \/ CreateClientKey(r) \/ RevokeClientKey(r) \/ Reply(r)
    <3>1. UNCHANGED <<clock, entry, failed, buckets, admitted>>
      BY <2>5 DEF Arrive, VerifyManagementToken, VerifyFails, VerifyClientKey, Ungated,
         RotateToken, AddCredential, RemoveCredential, CreateClientKey, RevokeClientKey,
         Reply, OnlyRequests
    <3> QED BY <3>1, RememberedStays
  <2> QED BY <1>4, <2>1, <2>2, <2>3, <2>4, <2>5 DEF Handler
<1>5. CASE \E p \in Procs : KeyCommand(p)
  BY <1>5, RememberedStays DEF KeyCommand, memory
<1>6. CASE UNCHANGED allVars
  BY <1>6, RememberedStays DEF allVars, accessVars, memory
<1> QED BY <1>2, <1>3, <1>4, <1>5, <1>6 DEF AccessNext

(* The invariant of what the daemon remembers.                             *)
THEOREM MemoryInvariant == AccessSpec => []Remembered
<1>1. AccessInit => Remembered
  BY NothingRemembered DEF AccessInit
<1>2. Remembered /\ [AccessNext]_allVars => Remembered'
  BY RememberedKeeps
<1> QED BY <1>1, <1>2, PTL DEF AccessSpec

(* No stretch of time sees more requests of a bucket than its burst and    *)
(* what it gained (RateLimiter.PreRequest).                                *)
THEOREM RateIsHonoured == AccessSpec => []RateHonoured
<1>1. Remembered => RateHonoured
  <2> SUFFICES ASSUME Remembered, NEW k \in DOMAIN admitted,
                      NEW i \in DOMAIN admitted[k], NEW j \in DOMAIN admitted[k], i <= j
               PROVE  (j - i + 1) * Interval
                        <= Capacity + (admitted[k][j] - admitted[k][i]) * Rate
    BY DEF RateHonoured
  <2>1. Paid(buckets[k], admitted[k], clock)
    BY DEF Remembered, Spends, TimesOf
  <2>2. DOMAIN admitted[k] = 1..Len(admitted[k])
    BY <2>1 DEF Paid
  <2> QED BY <2>1, <2>2 DEF Paid
<1> QED BY <1>1, MemoryInvariant, PTL

(* Only Allow lets a request try its token.                                *)
LEMMA OnlyAllowAdmits ==
    ASSUME Requested, AccessNext, NEW r \in Requests, Admits(r)
    PROVE  /\ Allow(r)
           /\ ~Locks(entryLocked.until) /\ ~(entryLocked.failures >= LoginLimit)
<1>1. /\ request = [x \in Requests |-> request[x]]
      /\ request[r].stage = "throttle" /\ request'[r].stage = "token"
      /\ request[r] # Idle
  BY DEF Requested, Admits, Idle
<1>2. ~(UNCHANGED request) /\ request'[r] # Idle
  BY <1>1 DEF Idle
<1>3. PICK s \in Requests : Handler(s)
  <2>1. ~Elsewhere
    BY <1>2 DEF Elsewhere, Forget, memory
  <2>2. ~Tick /\ ~(\E p \in Procs : KeyCommand(p))
    BY <1>2 DEF Tick, KeyCommand, memory
  <2> QED BY <2>1, <2>2 DEF AccessNext
<1>4. ASSUME NEW q, Put(s, q)
      PROVE  s = r /\ q # Idle /\ q.stage = "token"
  BY <1>1, <1>2, <1>4 DEF Put
<1>5. ~Answered(s)
  BY <1>4 DEF Answered
<1>6. s = r
  <2>1. \E q : Put(s, q)
    BY <1>3 DEF Handler, Arrive, Allow, RetryAfter, VerifyManagementToken, VerifyFails,
       RecordFailure, Success, VerifyClientKey, PreRequest, Ungated, RotateToken,
       AddCredential, RemoveCredential, CreateClientKey, RevokeClientKey, Reply, MoveTo,
       Answered
  <2> QED BY <1>4, <2>1
<1>7. ~At(s, "new") /\ \A x : At(s, x) => x = "throttle"
  BY <1>1, <1>6 DEF At
<1>8. Allow(s)
  BY <1>1, <1>3, <1>5, <1>6, <1>7 DEF Handler, Arrive, RetryAfter, VerifyManagementToken,
     VerifyFails, RecordFailure, Success, VerifyClientKey, PreRequest, Ungated, RotateToken,
     AddCredential, RemoveCredential, CreateClientKey, RevokeClientKey, Reply, Handles
<1>9. DOMAIN request[r] = Fields
  BY <1>1 DEF Requested, Lawful
<1>10. CASE Locks(entryLocked.until) \/ entryLocked.failures >= LoginLimit
  <2>1. MoveTo(s, "limited")
    BY <1>8, <1>10 DEF Allow
  <2>2. [request[r] EXCEPT !.stage = "limited"].stage = "limited"
    BY <1>9 DEF Fields
  <2> QED BY <1>4, <1>6, <2>1, <2>2 DEF MoveTo
<1>11. CASE ~(Locks(entryLocked.until) \/ entryLocked.failures >= LoginLimit)
  BY <1>6, <1>8, <1>11
<1> QED BY <1>10, <1>11

(* However the requests of a peer overlap, one is let to try a token only  *)
(* while fewer wrong ones than two windows' worth lie within the last      *)
(* window (LoginThrottle).                                                 *)
THEOREM GuessesAreBounded == AccessSpec => GuessesBounded
<1>1. ASSUME Requested, Remembered, AccessNext, NEW r \in Requests, Admits(r)
      PROVE  Cardinality(Recent) <= 2 * (LoginLimit - 1)
  <2> DEFINE n == Len(failed)
             e == entryLocked
             m == 2 * (LoginLimit - 1)
  <2>1. /\ clock \in Nat /\ LoginLimit \in Nat \ {0} /\ LoginWindow \in Nat \ {0}
        /\ m \in Nat
    BY <1>1, AccessAssumption DEF Remembered
  <2>2. /\ failed \in Seq(Nat) /\ n \in Nat
        /\ \A i \in 1..n : failed[i] \in Nat /\ failed[i] <= clock
    BY <1>1 DEF Remembered, Recorded
  <2>3. /\ Throttles(e, failed, clock) /\ e.failures \in Nat /\ e.failures < LoginLimit
    <3>1. Throttles(e, failed, clock) /\ ~(e.failures >= LoginLimit)
      BY <1>1, EntryLocked, OnlyAllowAdmits
    <3>2. e.failures \in Nat
      BY <3>1 DEF Throttles, Entries
    <3> QED BY <2>1, <3>1, <3>2
  <2>4. e.failures \in Nat /\ e.start \in Nat /\ e.start <= clock
    BY <2>3 DEF Throttles, Entries
  <2> HIDE DEF e
  <2>5. ASSUME NEW i \in 1..n, i <= n - m
        PROVE  failed[i] <= clock - LoginWindow
    <3>1. i <= n - e.failures - (LoginLimit - 1)
      BY <2>1, <2>2, <2>3, <2>4, <2>5
    <3>2. failed[i] <= e.start - LoginWindow
      BY <2>3, <3>1 DEF Throttles
    <3> QED BY <2>1, <2>2, <2>4, <3>2
  <2>6. Recent \subseteq (n - m + 1)..n
    <3> SUFFICES ASSUME NEW i \in Recent
                 PROVE  i \in (n - m + 1)..n
      OBVIOUS
    <3>1. i \in 1..n /\ failed[i] > clock - LoginWindow
      BY <2>2 DEF Recent
    <3>2. ~(i <= n - m)
      BY <2>1, <2>2, <2>5, <3>1
    <3> QED BY <2>1, <2>2, <3>1, <3>2
  <2> HIDE DEF m, n
  <2>7. IsFiniteSet((n - m + 1)..n) /\ Cardinality((n - m + 1)..n) = m
    <3>1. n - m + 1 \in Int /\ n \in Int
      BY <2>1, <2>2
    <3>2. /\ IsFiniteSet((n - m + 1)..n)
          /\ Cardinality((n - m + 1)..n) = IF n - m + 1 > n THEN 0 ELSE n - (n - m + 1) + 1
      BY <3>1, FS_Interval
    <3> QED BY <2>1, <2>2, <3>2
  <2>8. Cardinality(Recent) <= m
    BY <2>6, <2>7, FS_Subset
  <2> QED BY <2>8 DEF m
<1>2. Requested /\ Remembered /\ [AccessNext]_allVars
        => [\A r \in Requests : Admits(r) => Cardinality(Recent) <= 2 * (LoginLimit - 1)]_allVars
  BY <1>1
<1> QED BY <1>2, RequestInvariant, MemoryInvariant, PTL DEF AccessSpec, GuessesBounded
=============================================================================
