----------------------------- MODULE AgentPlans -----------------------------
(* A deployment plan of an agent from its snapshot to the instance made of   *)
(* it: planned, applied under an idempotency key, executed by the worker of  *)
(* some manager process, and swept once it expired, while operations are     *)
(* swept after their retention (agent/service.py, agent/operations.py,       *)
(* registry/dao.py).                                                         *)
EXTENDS Integers, FiniteSets

CONSTANTS PlanId, Key, Request, PlanWorker,
          SourceFile,   \* the files of a source directory
          PlanTtl,      \* PLAN_TTL_SECONDS, in ticks of the clock
          Retention,    \* OPERATION_RETENTION_SECONDS, in ticks
          MaxClock,     \* bound: ticks
          MaxDeploy,    \* bound: operations
          MaxLoss       \* bound: workers that die, leases that lapse under a live one

ASSUME PlanAssumption ==
    /\ {PlanTtl, Retention} \subseteq Nat \ {0} /\ PlanTtl <= Retention
    /\ {MaxClock, MaxDeploy, MaxLoss} \subseteq Nat

Deploy == 1..MaxDeploy
NoDeploy == 0

VARIABLES
    clock,     \* the time
    plans,     \* agent_plans: the row is there, and when the plan expires
    shot,      \* run/agent-plans/<id>: the files of each snapshot
    asks,      \* the requests to apply a plan
    deploys,   \* agent_operations: the deployments
    hand,      \* the worker threads
    made,      \* what instances were made of: deployment, key, plan and files
    loss       \* bounds; lapsed: a lease lapsed while its worker lived

planVars == <<clock, plans, shot, asks, deploys, hand, made, loss>>

Ended == {"succeeded", "failed", "needs_input", "interrupted"}
NoRow == [status |-> "absent", key |-> "", plan |-> "", lease |-> FALSE, owner |-> "", at |-> 0]
Rest  == [pc |-> "rest", op |-> NoDeploy, todo |-> {}, got |-> {}]

Unexpired(p) == clock < plans[p].expires
Holds(k) == {o \in Deploy : deploys[o].status # "absent" /\ deploys[o].key = k}
UnusedIds == {o \in Deploy : deploys[o].status = "absent" /\ \A m \in made : m.op # o}
Refers(p) == \E o \in Deploy : deploys[o].plan = p /\ deploys[o].status \in {"queued", "running"}

----------------------------------------------------------------------------
(* Plans and requests                                                        *)

(* plan_deployment: the source is copied, then the row is inserted.          *)
CopiesSource(p) ==
    /\ plans[p].state = "new"
    /\ plans' = [plans EXCEPT ![p].state = "copied"] /\ shot' = [shot EXCEPT ![p] = SourceFile]
    /\ UNCHANGED <<clock, asks, deploys, hand, made, loss>>
InsertsPlan(p) ==
    /\ plans[p].state = "copied"
    /\ plans' = [plans EXCEPT ![p] = [state |-> "row", expires |-> clock + PlanTtl]]
    /\ UNCHANGED <<clock, shot, asks, deploys, hand, made, loss>>

Replies(r, pc) == asks' = [asks EXCEPT ![r].pc = pc]

(* apply_deployment: an operation of the key answers, whatever its plan has  *)
(* become.                                                                   *)
AsksToApply(r, k, p) ==
    /\ asks[r].pc = "new"
    /\ asks' = [asks EXCEPT ![r] = [pc |-> IF Holds(k) # {} THEN "done" ELSE "checks", key |-> k, plan |-> p]]
    /\ UNCHANGED <<clock, plans, shot, deploys, hand, made, loss>>

(* load_plan, assert_plan_fresh, and checks that may refuse.                 *)
ChecksPlan(r) ==
    /\ asks[r].pc = "checks"
    /\ \/ plans[asks[r].plan].state = "row" /\ Unexpired(asks[r].plan) /\ Replies(r, "inserts")
       \/ Replies(r, "done")
    /\ UNCHANGED <<clock, plans, shot, deploys, hand, made, loss>>

(* _accept: the key is unique among the rows.                                *)
InsertsDeploy(r) ==
    /\ asks[r].pc = "inserts" /\ Replies(r, "done")
    /\ IF Holds(asks[r].key) # {} THEN UNCHANGED deploys
       ELSE \E o \in UnusedIds :
                /\ \A q \in UnusedIds : o <= q
                /\ deploys' = [deploys EXCEPT ![o] = [NoRow EXCEPT !.status = "queued",
                                   !.key = asks[r].key, !.plan = asks[r].plan, !.at = clock]]
    /\ UNCHANGED <<clock, plans, shot, hand, made, loss>>

----------------------------------------------------------------------------
(* The worker of a manager process                                           *)

(* _finish: only an operation that still runs.                               *)
Closes(o, status) ==
    deploys' = IF deploys[o].status # "running" THEN deploys
               ELSE [deploys EXCEPT ![o].status = status, ![o].at = clock]

ClaimsDeploy(w, o) ==
    /\ hand[w] = Rest /\ deploys[o].status = "queued"
    /\ deploys' = [deploys EXCEPT ![o].status = "running", ![o].owner = w, ![o].lease = TRUE, ![o].at = clock]
    /\ hand' = [hand EXCEPT ![w] = [Rest EXCEPT !.pc = "validate", !.op = o]]
    /\ UNCHANGED <<clock, plans, shot, asks, made, loss>>

(* Mutant: the plan is taken as it is, its time is not looked at again.      *)
MayExecute_Expired(p) == plans[p].state = "row"
(* load_plan and assert_plan_fresh at the time of execution.                 *)
MayExecute(p) == plans[p].state = "row" /\ Unexpired(p)

(* Then the snapshot is packed: its files are listed, and read one by one; a *)
(* file that is gone by then is left out with a warning.                     *)
ValidatesPlan(w) ==
    LET o == hand[w].op p == deploys[o].plan IN
    /\ hand[w].pc = "validate"
    /\ IF MayExecute(p) /\ shot[p] # {}
       THEN /\ hand' = [hand EXCEPT ![w].pc = "pack", ![w].todo = shot[p]] /\ UNCHANGED deploys
       ELSE /\ Closes(o, "needs_input") /\ hand' = [hand EXCEPT ![w] = Rest]
    /\ UNCHANGED <<clock, plans, shot, asks, made, loss>>

PacksFile(w, f) ==
    /\ hand[w].pc = "pack" /\ f \in hand[w].todo
    /\ hand' = [hand EXCEPT ![w].todo = @ \ {f}, ![w].got = @ \cup ({f} \cap shot[deploys[hand[w].op].plan])]
    /\ UNCHANGED <<clock, plans, shot, asks, deploys, made, loss>>

(* import_zip makes an instance of what was packed, or refuses; the instance *)
(* is associated with its operation, told its source and started.            *)
ImportsPacked(w) ==
    LET o == hand[w].op IN
    /\ hand[w].pc = "pack" /\ hand[w].todo = {}
    /\ \/ /\ made' = made \cup {[op |-> o, key |-> deploys[o].key, plan |-> deploys[o].plan,
                                     files |-> hand[w].got]}
          /\ hand' = [hand EXCEPT ![w].pc = "start"] /\ UNCHANGED deploys
       \/ Closes(o, "failed") /\ hand' = [hand EXCEPT ![w] = Rest] /\ UNCHANGED made
    /\ UNCHANGED <<clock, plans, shot, asks, loss>>

EndsDeploy(w) ==
    /\ hand[w].pc = "start" /\ hand' = [hand EXCEPT ![w] = Rest]
    /\ \E status \in {"succeeded", "failed"} : Closes(hand[w].op, status)
    /\ UNCHANGED <<clock, plans, shot, asks, made, loss>>

(* recover_stale: who lost its lease, or its process, is interrupted and not *)
(* tried again.                                                              *)
Recovers(w, o) ==
    /\ hand[w] = Rest /\ deploys[o].status = "running"
    /\ ~deploys[o].lease \/ hand[deploys[o].owner].pc = "dead"
    /\ Closes(o, "interrupted") /\ UNCHANGED <<clock, plans, shot, asks, hand, made, loss>>

(* Mutant: an operation is deleted as soon as it ended.                      *)
Forgettable_AtOnce(o) == deploys[o].status \in Ended
(* Operations that ended long ago.                                           *)
Forgettable(o) == deploys[o].status \in Ended /\ clock > deploys[o].at + Retention

(* sweep: ended operations go; then the plans that expired and that no       *)
(* operation in progress refers to are selected, ...                         *)
SweepsDeploy(w, o) ==
    /\ hand[w] = Rest /\ Forgettable(o) /\ \A v \in PlanWorker : hand[v].op # o
    /\ deploys' = [deploys EXCEPT ![o] = NoRow]
    /\ UNCHANGED <<clock, plans, shot, asks, hand, made, loss>>
SelectsPlans(w) ==
    /\ hand[w] = Rest
    /\ LET old == {p \in PlanId : plans[p].state = "row" /\ clock > plans[p].expires /\ ~Refers(p)}
       IN old # {} /\ hand' = [hand EXCEPT ![w] = [Rest EXCEPT !.pc = "delete", !.todo = old]]
    /\ UNCHANGED <<clock, plans, shot, asks, deploys, made, loss>>
(* ... deleted in a second transaction, ...                                  *)
DeletesPlans(w) ==
    /\ hand[w].pc = "delete"
    /\ plans' = [p \in PlanId |-> IF p \in hand[w].todo THEN [plans[p] EXCEPT !.state = "gone"] ELSE plans[p]]
    /\ hand' = [hand EXCEPT ![w].pc = "clear"]
    /\ UNCHANGED <<clock, shot, asks, deploys, made, loss>>
(* ... and their snapshots removed, file by file.                            *)
ClearsSnapshot(w) ==
    /\ hand[w].pc = "clear"
    /\ \/ \E p \in hand[w].todo : \E f \in shot[p] :
              shot' = [shot EXCEPT ![p] = @ \ {f}] /\ UNCHANGED hand
       \/ /\ \A p \in hand[w].todo : shot[p] = {}
          /\ hand' = [hand EXCEPT ![w] = Rest] /\ UNCHANGED shot
    /\ UNCHANGED <<clock, plans, asks, deploys, made, loss>>

----------------------------------------------------------------------------
Ticks == clock < MaxClock /\ clock' = clock + 1 /\ UNCHANGED <<plans, shot, asks, deploys, hand, made, loss>>

(* A process dies; or it sleeps so long that its lease is over.              *)
WorkerDies(w) ==
    /\ hand[w].pc # "dead" /\ loss.n < MaxLoss
    /\ hand' = [hand EXCEPT ![w] = [Rest EXCEPT !.pc = "dead"]]
    /\ loss' = [loss EXCEPT !.n = @ + 1] /\ UNCHANGED <<clock, plans, shot, asks, deploys, made>>
LeaseLapses(o) ==
    /\ deploys[o].status = "running" /\ deploys[o].lease /\ loss.n < MaxLoss
    /\ deploys' = [deploys EXCEPT ![o].lease = FALSE]
    /\ loss' = [n |-> loss.n + 1, lapsed |-> TRUE]
    /\ UNCHANGED <<clock, plans, shot, asks, hand, made>>

PlanInit ==
    /\ clock = 0
    /\ plans = [p \in PlanId |-> [state |-> "new", expires |-> 0]]
    /\ shot = [p \in PlanId |-> {}]
    /\ asks = [r \in Request |-> [pc |-> "new", key |-> "", plan |-> ""]]
    /\ deploys = [o \in Deploy |-> NoRow]
    /\ hand = [w \in PlanWorker |-> Rest]
    /\ made = {}
    /\ loss = [n |-> 0, lapsed |-> FALSE]

PlanNext ==
    \/ \E p \in PlanId : CopiesSource(p) \/ InsertsPlan(p)
    \/ \E r \in Request : \/ \E k \in Key, p \in PlanId : AsksToApply(r, k, p)
                          \/ ChecksPlan(r) \/ InsertsDeploy(r)
    \/ \E w \in PlanWorker :
          \/ \E o \in Deploy : ClaimsDeploy(w, o) \/ Recovers(w, o) \/ SweepsDeploy(w, o)
          \/ ValidatesPlan(w) \/ ImportsPacked(w) \/ EndsDeploy(w)
          \/ \E f \in SourceFile : PacksFile(w, f)
          \/ SelectsPlans(w) \/ DeletesPlans(w) \/ ClearsSnapshot(w) \/ WorkerDies(w)
    \/ \E o \in Deploy : LeaseLapses(o)
    \/ Ticks

PlanSpec == PlanInit /\ [][PlanNext]_planVars

----------------------------------------------------------------------------
PlansTypeOK ==
    /\ clock \in 0..MaxClock
    /\ \A p \in PlanId : plans[p].state \in {"new", "copied", "row", "gone"} /\ shot[p] \subseteq SourceFile
    /\ \A o \in Deploy : deploys[o].status \in {"absent", "queued", "running"} \cup Ended
    /\ \A w \in PlanWorker : hand[w].op \in Deploy \cup {NoDeploy} /\ hand[w].got \subseteq SourceFile

(* An instance is made of the whole snapshot of its plan although plans are  *)
(* swept, selected and deleted by two transactions, while requests and       *)
(* workers are between their checks (dao.py 1110-1130); unless an operation  *)
(* was taken for interrupted while it ran.                                   *)
DeployedIsPlanned == \A m \in made : m.files = SourceFile \/ loss.lapsed

(* However often a client repeats a request, and however late, the plan and  *)
(* the key make one instance: when the operation has been forgotten, the     *)
(* plan has expired (operations.py 620-640 and 897-906).  A forgotten key    *)
(* may come back with another plan, and then deploys that one.               *)
DeployedOnce == \A m, n \in made : m.key = n.key /\ m.plan = n.plan => m.op = n.op

(* Plans in one statement: what is deployed is the whole snapshot, and once  *)
(* for a request.                                                            *)
PlansAreSafe == PlansTypeOK /\ DeployedIsPlanned /\ DeployedOnce
=============================================================================
