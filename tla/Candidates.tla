----------------------------- MODULE Candidates -----------------------------
(***************************************************************************)
(* The candidates the Router plans and the circuits each of them touches   *)
(* (src/internal/contracts/breaker.go, KeyFor, and the typed fan-out of    *)
(* src/internal/breaker/breaker.go).                                       *)
(***************************************************************************)
EXTENDS Circuit, Sequences

CONSTANTS
    Providers, Models, Credentials,
    None            \* the zero model or credential

ASSUME NoneAssumption == None \notin Providers \cup Models \cup Credentials

Candidates == [provider   : Providers,
               model      : Models \cup {None},
               credential : Credentials \cup {None}]

Keys == ({"Provider"} \X Providers \X {None})
   \cup ({"Model"} \X Providers \X Models)
   \cup ({"Credential"} \X Providers \X Credentials)

providerKey(c)    == <<"Provider", c.provider, None>>
modelKeys(c)      == IF c.model = None THEN <<>>
                     ELSE << <<"Model", c.provider, c.model>> >>
credentialKeys(c) == IF c.credential = None THEN <<>>
                     ELSE << <<"Credential", c.provider, c.credential>> >>

(* Every circuit a candidate touches, in the order Allow visits them.      *)
allKeysFor(c) == <<providerKey(c)>> \o modelKeys(c) \o credentialKeys(c)

(* The circuits that an outcome is recorded on.                            *)
keysFor(c, o) ==
    IF o.success                     THEN allKeysFor(c)
    ELSE IF o.scope = "Credential"   THEN credentialKeys(c)
    ELSE IF o.scope = "Provider"     THEN <<providerKey(c)>> \o modelKeys(c)
    ELSE <<>>
=============================================================================
