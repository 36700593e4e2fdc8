----------------------------- MODULE Structural -----------------------------
(***************************************************************************)
(* The plans with a shape (dispatcher/structural.go): a fusion, whose      *)
(* panels run at once, and a pipeline, whose steps run one after another,  *)
(* each in an attempt loop of its own over the same circuits as everybody  *)
(* else. The Router makes one part of each step of the combo, after one    *)
(* preflight over all of them. The daemon gives it no judge, so a fusion   *)
(* answers with a panel.                                                   *)
(***************************************************************************)
EXTENDS Dispatcher
Seqs == INSTANCE SequencesExt

CONSTANTS
    Shapes,     \* combos: [kind, steps], of each step its candidates, sorted
    Loops,      \* the attempt loops of the parts, a sequence of Requests
    Linear      \* the clients with plans of no shape

ASSUME ShapesAssumption ==
    /\ Shapes \subseteq [kind : {"fusion", "pipeline"}, steps : Seq(Seq(Candidates))]
    /\ \A s \in Shapes : Len(s.steps) \in 1..Len(Loops)
    /\ Loops \in Seq(Requests) /\ Linear \subseteq Requests \ KeysOf(Loops)
    /\ \A i, j \in DOMAIN Loops : Loops[i] = Loops[j] => i = j

VARIABLE job    \* the client with such a plan; parts: the steps it has left

shaped == <<job, vars>>

NoJob == [stage |-> "idle", kind |-> "none", parts |-> {}, turn |-> 0,
          reply |-> "none", winner |-> 0]

Working   == {Loops[i] : i \in job.parts}
Loop(i)   == req[Loops[i]]
PartOf(r) == CHOOSE i \in DOMAIN Loops : Loops[i] = r

StructuralInit == Init /\ job = NoJob

(* The request arrives; its candidates wait for the preflight.             *)
Waiting(step) == [Idle EXCEPT !.pc = "preflight", !.todo = step,
                              !.plan = [steps |-> step, auto |-> FALSE]]
ArriveJob ==
    /\ job.stage = "idle" /\ \A i \in DOMAIN Loops : Loop(i).pc = "idle"
    /\ \E s \in Shapes :
         /\ job' = [NoJob EXCEPT !.stage = "preflight", !.kind = s.kind,
                                 !.parts = DOMAIN s.steps]
         /\ req' = [r \in Requests |-> IF \E i \in DOMAIN s.steps : Loops[i] = r
                                       THEN Waiting(s.steps[PartOf(r)]) ELSE req[r]]
    /\ UNCHANGED <<circuits, world, blame>>

(* The preflight takes the candidates in the order of the steps.           *)
PreflightJob ==
    /\ job.stage = "preflight"
    /\ \E i \in job.parts :
         /\ \A j \in job.parts : j < i => Loop(j).todo = <<>>
         /\ AllowCandidate(Loops[i])
    /\ UNCHANGED job

(* groupByStep: a part is what a step has left. A candidate that several   *)
(* steps have left, its key being the same, belongs to the last of them as *)
(* often as it occurs.                                                     *)
Group(i) ==
    LET left(j)  == KeysOf(Loop(j).kept)
        own(c)   == c \in left(i) /\ \A j \in job.parts : j > i => c \notin left(j)
        share(s) == Seqs!FlattenSeq([n \in DOMAIN s |-> IF own(s[n]) THEN <<s[n]>> ELSE <<>>])
    IN  Seqs!FlattenSeq([j \in DOMAIN Loops |-> share(Loop(j).kept)])

(* A step without candidates leaves the plan. All panels start, or the     *)
(* first step does; the others of a pipeline wait.                         *)
Planned(q, g) == [q EXCEPT !.plan.steps = g, !.kept = g]
Start(q)      == [q EXCEPT !.pc = "next", !.todo = q.kept]
PlanJob ==
    LET left  == {i \in job.parts : Group(i) # <<>>}
        first == Seqs!Min(left)
    IN  /\ job.stage = "preflight" /\ \A i \in job.parts : Loop(i).todo = <<>>
        /\ job' = IF left = {}
                  THEN [job EXCEPT !.parts = {}, !.stage = "done", !.reply = "no candidate"]
                  ELSE [job EXCEPT !.parts = left, !.stage = "running", !.turn = first]
        /\ req' = [r \in Requests |->
             IF r \notin Working THEN req[r]
             ELSE LET i == PartOf(r)
                      q == Planned(req[r], Group(i))
                  IN  IF i \notin left THEN Idle
                      ELSE IF job.kind = "fusion" \/ i = first THEN Start(q) ELSE q]
        /\ UNCHANGED <<circuits, world, blame>>

(* A loop at work. Only the last step of a pipeline may stream.            *)
Streaming(i) == IF job.kind = "pipeline" /\ \A j \in job.parts : j <= i
                THEN Streams ELSE {FALSE}
RunPart(r) ==
    /\ job.stage = "running"
    /\ \E i \in job.parts : Loops[i] = r /\ Attempt(r, Streaming(i))
    /\ UNCHANGED job

(* runFusion: when all panels have ended (wg.Wait) the first of them, in   *)
(* the order of the plan, that has succeeded is the answer.                *)
Succeeded == {i \in job.parts : Loop(i).reply = "ok"}
Ended(i)  == Loop(i).pc = "done"
Fused ==
    IF Succeeded = {} THEN [job EXCEPT !.stage = "done", !.reply = "all failed"]
    ELSE [job EXCEPT !.stage = "done", !.reply = "ok", !.winner = Seqs!Min(Succeeded)]
Fuse_First ==       \* Mutant: the first success answers, the others run on.
    /\ job.stage = "running" /\ job.kind = "fusion"
    /\ (\A i \in job.parts : Ended(i)) \/ Succeeded # {}
    /\ job' = Fused
    /\ UNCHANGED vars
Fuse ==
    /\ job.stage = "running" /\ job.kind = "fusion"
    /\ \A i \in job.parts : Ended(i)
    /\ job' = Fused
    /\ UNCHANGED vars

(* runPipeline: a step that succeeds starts the next; the first failure,   *)
(* or the last success, is the answer.                                     *)
Chain ==
    LET later == {i \in job.parts : i > job.turn}
        next  == Seqs!Min(later)
        ok    == Loop(job.turn).reply = "ok"
    IN  /\ job.stage = "running" /\ job.kind = "pipeline" /\ Ended(job.turn)
        /\ IF ok /\ later # {}
           THEN /\ job' = [job EXCEPT !.turn = next]
                /\ req' = [req EXCEPT ![Loops[next]] = Start(@)]
           ELSE /\ job' = [job EXCEPT !.stage = "done", !.reply = Loop(job.turn).reply,
                                      !.winner = IF ok THEN job.turn ELSE 0]
                /\ UNCHANGED req
        /\ UNCHANGED <<circuits, world, blame>>

(* The client leaves; all the loops share its context.                     *)
CancelJob ==
    /\ MayCancel /\ job.stage \in {"preflight", "running"}
    /\ \E r \in Working : ~req[r].cancelled
    /\ req' = [r \in Requests |-> IF r \in Working THEN [req[r] EXCEPT !.cancelled = TRUE]
                                  ELSE req[r]]
    /\ UNCHANGED <<job, circuits, world, blame>>

AnsweredJob ==
    /\ job.stage = "done"
    /\ job' = NoJob
    /\ req' = [r \in Requests |-> IF r \in KeysOf(Loops) THEN Idle ELSE req[r]]
    /\ UNCHANGED <<circuits, world, blame>>

Lead == PreflightJob \/ PlanJob \/ Fuse \/ Chain \/ AnsweredJob

Beside(A) == A /\ UNCHANGED job
StructuralNext ==
    \/ ArriveJob \/ Lead \/ CancelJob
    \/ \E r \in Requests : RunPart(r)
    \/ Beside(Tick) \/ Beside(Heal)
    \/ \E r \in Linear : Beside(Arrive(r)) \/ Beside(Serve(r)) \/ Beside(Cancel(r))

StructuralSpec == StructuralInit /\ [][StructuralNext]_shaped

(* A call whose client stays and whose upstream may keep its answer back   *)
(* can last for ever: no deadline bounds the reading of a body             *)
(* (egress/policy.go:114-117 sets no Client.Timeout; executor.go:291,      *)
(* cloudcode/executor.go:138).                                             *)
Waits(r) == req[r].pc = "call" /\ ~world.healthy /\ ~req[r].cancelled

(* Every goroutine that can run does: the one that leads a plan and those  *)
(* of its loops, and the ones of requests without a shape. Nothing is      *)
(* asked of the clients, nor of a call that waits for its upstream.        *)
FairStructuralSpec ==
    /\ StructuralSpec
    /\ WF_shaped(Lead)
    /\ \A r \in Requests : WF_shaped(RunPart(r) /\ ~Waits(r))
    /\ \A r \in Linear : WF_shaped(Beside(Serve(r)) /\ ~Waits(r))

-----------------------------------------------------------------------------
(* What the answer to a plan with a shape says about the calls made for    *)
(* its parts, over every order in which panels succeed, fail and are       *)
(* denied by each other's probes. When it is given no call of it is under  *)
(* way and none will follow: no panel outlives its fusion. A fusion fails  *)
(* only if every panel has, and its answer depends on the plan's order and *)
(* not on who was fast. A step of a pipeline calls only when those before  *)
(* it have been answered, so a failure is the last thing that happened     *)
(* (runFusion, runPanels, runPipeline).                                    *)
LastCall(i) == LET calls == Loop(i).calls IN
               IF calls = <<>> THEN "none" ELSE calls[Len(calls)].end
Begun(q) == q.pc \notin {"preflight", "idle"}
ShapeHonest ==
    /\ job.stage = "done" =>
         /\ \A r \in Working : Begun(req[r]) => req[r].pc = "done"
         /\ job.winner > 0 => LastCall(job.winner) = "ok"
         /\ \A i \in job.parts : LET ok == LastCall(i) = "ok" IN
              IF job.kind = "fusion"
              THEN IF job.winner > 0 THEN i < job.winner => ~ok ELSE ~ok
              ELSE job.winner > 0 => ok
    /\ job.kind = "pipeline" =>
         \A i, j \in job.parts : j < i /\ Begun(Loop(i)) => LastCall(j) = "ok"

(* Whichever candidates fail, are denied or cannot be called, whoever      *)
(* probes, and even if the client leaves, a request is answered, a plan    *)
(* with a shape too, unless it is for ever in one call: nothing else of    *)
(* the Dispatcher holds it up, no circuit and no other part, and no loop   *)
(* goes round without end (run, dispatcher.go:150-224; wg.Wait,            *)
(* structural.go:118-144).  So once the upstreams answer every call, or    *)
(* when the client has left, it is answered.                               *)
ServesOn ==
    /\ \A r \in Linear : req[r].pc # "idle" ~> (req[r].pc = "idle" \/ []Waits(r))
    /\ job.stage # "idle" ~> (job.stage = "idle" \/ \E r \in KeysOf(Loops) : []Waits(r))
=============================================================================
