------------------------------ MODULE Routing -------------------------------
(***************************************************************************)
(* The table of combos under concurrent edits, and the requests that are   *)
(* routed by it: the combo store (src/internal/store/combo_store.go) as    *)
(* the management API and the command line call it, the gateway's look-up  *)
(* (gateway.go, resolveTarget) and Resolver.Resolve                        *)
(* (src/internal/router/resolver.go) with its shared cursor.               *)
(*                                                                         *)
(* Every statement of the store is one step; a save is several of them.    *)
(* The command line is a process of its own on the same database.          *)
(***************************************************************************)
EXTENDS Strategies

CONSTANTS
    Worlds,     \* what the database holds at the start, what operators save,
                \* what requests name as their model: [rows, edits, targets]
    Editors,    \* concurrent calls that change combos
    Requests,   \* concurrent requests
    Absent      \* no combo, no plan

(* What the database holds at the start are combos saved before.           *)
ASSUME WorldsAssumption ==
    \A w \in Worlds : /\ DOMAIN w.rows \subseteq Names
                      /\ \A n \in DOMAIN w.rows : IsCombo(w.rows[n].combo)
                      /\ \A e \in w.edits : e.name \in Names

(* A table in which no references close a cycle: whatever combos are taken *)
(* of it, one refers to none of them.                                      *)
Acyclic(t) ==
    \A S \in SUBSET DOMAIN t :
        S # {} => \E n \in S : References(t[n]) \cap S = {}

(* They were saved without a race, by builds with the same families.       *)
ASSUME SavedAssumption ==
    \A w \in Worlds :
      LET t == [n \in DOMAIN w.rows |-> w.rows[n].combo]
      IN  /\ Acyclic(t)
          /\ \A n \in DOMAIN t :
                /\ References(t[n]) \subseteq Names
                /\ \A s \in ToSet(t[n].steps) :
                      s.kind = "provider-wildcard" => s.ref \in Providers

VARIABLES
    world,      \* environment: one of the worlds
    rows,       \* the table: rows with the combo, its depth and whether its
                \* schema version is this build's
    edit,       \* the call each editor is in
    req,        \* the request each client is in
    cursor,     \* the Router's rotation state
    raced,      \* history: a save has been written over an unseen save
    sound,      \* history: the combos saved since anything else changed
    round       \* history: for each rotation its length and who was first

routingVars == <<world, rows, edit, req, cursor, raced, sound, round>>

Idle == [pc |-> "idle"]

RoutingInit ==
    /\ world \in Worlds
    /\ rows = world.rows
    /\ edit = [x \in Editors |-> Idle]
    /\ req = [r \in Requests |-> Idle]
    /\ cursor = NewCursor
    /\ raced = FALSE
    /\ sound = {}
    /\ round = <<>>

table == [n \in DOMAIN rows |-> rows[n].combo]

(* Get and List: a row of another schema version is refused, and with it   *)
(* the whole list.                                                         *)
Stored(n) == n \in DOMAIN rows
Readable(n) == Stored(n) /\ rows[n].current
AllReadable == \A n \in DOMAIN rows : rows[n].current

-----------------------------------------------------------------------------
(* Editors.                                                                *)

Goto(x, call) == edit' = [edit EXCEPT ![x] = call]
GiveUp(x) == edit' = [edit EXCEPT ![x] = Idle]

(* What the other editors have missed since they validated.                *)
Missed(x, what) ==
    [y \in Editors |-> IF y # x /\ edit[y].pc = "write"
                       THEN [edit[y] EXCEPT !.missed = @ \cup {what}]
                       ELSE edit[y]]

UnchangedByEdit == UNCHANGED <<world, rows, req, cursor, raced, sound, round>>

(* A POST of the management API, or "combo create" on the command line,    *)
(* which updates if it can read the combo and creates otherwise.           *)
Ask(x) ==
    /\ edit[x].pc = "idle"
    /\ \E e \in world.edits :
       \E call \in {"save", "create"}
                    \cup IF Readable(e.name) THEN {"update"} ELSE {} :
         Goto(x, [pc |-> "exists", call |-> call, what |-> e])
    /\ UnchangedByEdit

(* Save, Create and Update begin with a Get.                               *)
Exists(x) ==
    /\ edit[x].pc = "exists"
    /\ LET n == edit[x].what.name
           allowed == CASE edit[x].call = "save"   -> ~Stored(n) \/ Readable(n)
                        [] edit[x].call = "create" -> ~Stored(n)
                        [] edit[x].call = "update" -> Readable(n)
       IN  IF allowed
           THEN Goto(x, [pc |-> "validate", what |-> edit[x].what,
                         insert |-> ~Stored(n)])
           ELSE GiveUp(x)
    /\ UnchangedByEdit

Validate(x) ==
    /\ edit[x].pc = "validate"
    /\ LET e == edit[x].what
           depth == ValidateGraph(e.name, e.combo, table)
       IN  IF AllReadable /\ depth # Refused
           THEN Goto(x, [pc |-> "write", what |-> e, insert |-> edit[x].insert,
                         depth |-> depth, missed |-> {}])
           ELSE GiveUp(x)
    /\ UnchangedByEdit

(* INSERT fails on a name that has appeared, UPDATE finds no row that has  *)
(* gone.                                                                   *)
WriteRow(x) ==
    /\ edit[x].pc = "write"
    /\ LET e == edit[x].what
       IN  IF edit[x].insert = Stored(e.name)
           THEN /\ GiveUp(x)
                /\ UNCHANGED <<rows, raced, sound>>
           ELSE /\ rows' = [n \in DOMAIN rows \cup {e.name} |->
                               IF n = e.name
                               THEN [combo |-> e.combo, current |-> TRUE,
                                     depth |-> edit[x].depth]
                               ELSE rows[n]]
                /\ edit' = [Missed(x, "save") EXCEPT ![x] = Idle]
                /\ raced' = (raced \/ "save" \in edit[x].missed)
                /\ sound' = IF edit[x].missed = {} THEN {e.name} ELSE {}
    /\ UNCHANGED <<world, req, cursor, round>>

(* The statement of any step may fail; nothing is written.                 *)
StoreFails(x) ==
    /\ edit[x].pc # "idle"
    /\ GiveUp(x)
    /\ UnchangedByEdit

(* DELETE asks nothing of the combos that refer to it.                     *)
Delete(x) ==
    /\ edit[x].pc = "idle"
    /\ \E n \in DOMAIN rows \cap {e.name : e \in world.edits} :
         rows' = [m \in DOMAIN rows \ {n} |-> rows[m]]
    /\ edit' = Missed(x, "delete")
    /\ sound' = {}
    /\ UNCHANGED <<world, req, cursor, raced, round>>

Edit(x) == Ask(x) \/ Exists(x) \/ Validate(x) \/ WriteRow(x) \/ StoreFails(x)
           \/ Delete(x)

-----------------------------------------------------------------------------
(* Requests.                                                               *)

Step(r, call) == req' = [req EXCEPT ![r] = call]
Reply(r, plan) == req' = [req EXCEPT ![r] = [pc |-> "done", plan |-> plan]]

UnchangedByRequest == UNCHANGED <<world, rows, edit, cursor, raced, sound, round>>

(* resolveTarget: a model that is the name of a combo is that combo; any   *)
(* error makes it a model.  resolveAuto needs no table.                    *)
LookUp(r) ==
    /\ req[r].pc = "idle"
    /\ \E t \in world.targets :
         \/ Readable(t) /\ Step(r, [pc |-> "get", target |-> t])
         \/ LET step == [kind |-> "model", ref |-> t, weight |-> 1,
                         allowed |-> <<>>]
                auto == [strategy |-> "auto", steps |-> <<step>>]
            IN  IF SpreadModel(1, step) = <<>> THEN Reply(r, Absent)
                ELSE Step(r, [pc |-> "order", target |-> Absent, combo |-> auto,
                              entries |-> SpreadModel(1, step)])
    /\ UnchangedByRequest

Get(r) ==
    /\ req[r].pc = "get"
    /\ IF Readable(req[r].target)
       THEN Step(r, [pc |-> "list", target |-> req[r].target,
                     combo |-> rows[req[r].target].combo])
       ELSE Reply(r, Absent)
    /\ UnchangedByRequest

(* List, and the expansion of what both reads returned.                    *)
List(r) ==
    /\ req[r].pc = "list"
    /\ LET t   == req[r].target
           all == [n \in DOMAIN rows \cup {t} |->
                      IF n = t THEN req[r].combo ELSE rows[n].combo]
           x   == Expand(all, t)
       IN  IF AllReadable /\ x.entries # <<>>
           THEN Step(r, [pc |-> "order", target |-> t, combo |-> req[r].combo,
                         entries |-> x.entries])
           ELSE Reply(r, Absent)
    /\ UnchangedByRequest

(* History: who is first in a step's rotation, since its length changed.   *)
firsts(name, kept) ==
    LET keys == {<<name, i>> : i \in Steps(kept)}
        n(k) == size(kept, k[2])
        old(k) == IF k \in DOMAIN round /\ round[k].size = n(k)
                  THEN round[k].first ELSE {}
        new(k) == old(k) \cup {next(cursor.roundRobin, k, n(k))}
    IN  [k \in DOMAIN round \cup keys |->
            IF k \notin keys THEN round[k]
            ELSE [size |-> n(k), first |->
                  IF Cardinality(new(k)) = n(k) THEN {} ELSE new(k)]]

(* The preflight keeps some of the entries; then the strategy, under the   *)
(* Router's lock, and the stages.                                          *)
Order(r) ==
    /\ req[r].pc = "order"
    /\ \E keep \in SUBSET DOMAIN req[r].entries :
       LET c      == req[r].combo
           kept   == Selected(req[r].entries, keep)
           ran    == Arrange(c.strategy, req[r].target, kept, cursor)
           order  == demote(ran.order)
           stages == IF c.strategy \in {"fusion", "pipeline"}
                     THEN groupByStep(order, kept) ELSE <<>>
       IN  /\ cursor' = ran.cursor
           /\ round' = IF c.strategy = "round-robin" THEN firsts(req[r].target, kept)
                       ELSE round
           /\ IF \/ kept = <<>>
                 \/ c.strategy = "fusion" /\ Len(stages) > MaxFanout
              THEN Reply(r, Absent)
              ELSE Reply(r, [kind     |-> c.strategy,
                             kept     |-> kept,
                             attempts |-> order,
                             stages   |-> stages,
                             rounds   |-> IF req[r].target = Absent THEN 1
                                          ELSE maxRounds(c.strategy, c, Len(kept))])
    /\ UNCHANGED <<world, rows, edit, raced, sound>>

ReadFails(r) ==
    /\ req[r].pc \in {"get", "list"}
    /\ Reply(r, Absent)
    /\ UnchangedByRequest

Answered(r) ==
    /\ req[r].pc = "done"
    /\ req' = [req EXCEPT ![r] = Idle]
    /\ UnchangedByRequest

Route(r) == LookUp(r) \/ Get(r) \/ List(r) \/ ReadFails(r) \/ Order(r)
            \/ Answered(r)

RoutingNext == (\E x \in Editors : Edit(x)) \/ (\E r \in Requests : Route(r))

RoutingSpec == RoutingInit /\ [][RoutingNext]_routingVars

-----------------------------------------------------------------------------
(* The chains of references that begin at n, up to a length.               *)
Chains(n, len) ==
    {p \in BoundedSeq(Names, len) :
        /\ p # <<>> /\ p[1] = n
        /\ \A i \in 1 .. Len(p) - 1 :
              p[i] \in DOMAIN table /\ p[i + 1] \in References(table[p[i]])}

(* Validation and write are two statements (Save, combo_store.go:95-117).  *)
(* The stored references close a cycle only if some save was written over  *)
(* a table that had gained another combo since it was validated; deletes,  *)
(* failures and single saves in any order never do it.                     *)
CyclesNeedARace ==
    ~raced => \A n \in DOMAIN rows :
                 \A p \in Chains(n, Cardinality(Names) + 1) :
                    Len(p) > 1 => Last(p) # n

(* The validation on saving and the guards on routing are two pieces of    *)
(* code with their own caps (validate.go, expand.go).  They agree: a combo *)
(* that was just saved is not refused, and its stored depth is the longest *)
(* chain from it.                                                          *)
SavedComboRoutes ==
    \A n \in sound :
        /\ ~Expand(table, n).refused
        /\ rows[n].depth =
              Max({Len(p) - 1 : p \in Chains(n, Cardinality(Names) + 1)})

(* expand against its meaning, on every table that edits can leave behind, *)
(* cyclic, dangling or too deep: it refuses exactly the combos with a bad  *)
(* chain, and otherwise yields for each step what the combos below it name.*)
ExpandsEveryChain ==
    \A n \in DOMAIN rows :
      LET x      == Expand(table, n)
          chains == Chains(n, MaxDepth + 2)
          bad(p) == \/ Last(p) \notin DOMAIN table
                    \/ Len(p) = MaxDepth + 2
                    \/ \E i \in 1 .. Len(p) - 1 : p[i] = Last(p)
          (* The combos whose own targets belong to step i of n.           *)
          below(i) == LET s == table[n].steps[i]
                      IN  IF s.kind # "combo-ref" THEN {<<s>>}
                          ELSE {table[Last(p)].steps : p \in
                                  {q \in chains : Len(q) > 1 /\ q[2] = s.ref}}
          named(s) == {pair \in Catalog :
                          \/ s.kind = "model" /\ pair[2] = s.ref
                          \/ s.kind = "provider-wildcard" /\ pair[1] = s.ref}
      IN  /\ x.refused <=> \E p \in chains : bad(p)
          /\ ~x.refused =>
                {<<e.step, <<e.provider, e.model>>>> : e \in ToSet(x.entries)}
                = UNION {{i} \X UNION {named(s) : s \in UNION
                              {ToSet(ss) : ss \in below(i)}} :
                         i \in DOMAIN table[n].steps}

(* "It never drops a candidate" (strategy.go:11-15): whatever strategy and *)
(* cursor, a plan's attempts are the kept entries, each once, with a       *)
(* credential only from the step's own list; the strategies that follow    *)
(* the steps do so, and the stages split the attempts.  Nothing is said of *)
(* the order that weighted gives: ADR-0009 par. 2 promises a draw.         *)
Strategic(plan) ==
    \E f \in Bijection(DOMAIN plan.kept, DOMAIN plan.kept) :
      LET of(i) == plan.kept[f[i]]
          Match(c, e) == /\ c.provider = e.provider /\ c.model = e.model
                         /\ IF plan.kind = "fill-first" /\ e.allowed # <<>>
                            THEN c.credential \in ToSet(e.allowed)
                            ELSE c.credential = 0
      IN  /\ DOMAIN plan.attempts = DOMAIN plan.kept
          /\ \A i \in DOMAIN plan.kept : Match(plan.attempts[i], of(i))
          /\ plan.kind \in {"priority", "fallback", "round-robin", "fusion",
                            "pipeline"} =>
                \A i, j \in DOMAIN plan.kept : i < j => of(i).step <= of(j).step

PlansKeepCandidates ==
    \A r \in Requests : req[r].pc = "done" /\ req[r].plan # Absent =>
      LET plan == req[r].plan
      IN  /\ Strategic(plan)
          /\ plan.stages # <<>> =>
                ToBag(FlattenSeq(plan.stages)) = ToBag(plan.attempts)

(* A rotation is fair across concurrent requests: as long as the step      *)
(* keeps its number of candidates, the one that comes first has not been   *)
(* first since all the others were (cursor.go, nextRR).                    *)
RotationIsFair ==
    \A k \in DOMAIN round :
        next(cursor.roundRobin, k, round[k].size) \notin round[k].first

(* What is stored can be routed (Save, combo_store.go:95-117).             *)
TableSound == CyclesNeedARace /\ SavedComboRoutes

(* What is routed is what is stored (Resolve, resolver.go:84-180).         *)
PlansFaithful == ExpandsEveryChain /\ PlansKeepCandidates
=============================================================================
