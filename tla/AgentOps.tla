------------------------------ MODULE AgentOps ------------------------------
(* Durable agent operations (agent/operations.py, the agent_operations      *)
(* table of registry/dao.py): the acceptance of requests under idempotency  *)
(* keys, the worker of every manager process that claims, executes, renews  *)
(* and recovers operations, their cancellation, and the retention sweep.    *)
(*                                                                          *)
(* One action is one transaction on the table, one phase of the executor or *)
(* one effect on an instance.  Clients run in the thread pool of a manager  *)
(* and interleave freely; each manager process has one worker thread.       *)
EXTENDS Integers, FiniteSets

CONSTANTS
    Worker,      \* manager processes, each with its worker thread
    Call,        \* requests to apply a plan or to run a lifecycle action
    KeyOf,       \* the idempotency key of each request
    BodyOf,      \* the content of each request: an element of Body
    Canceller,   \* calls of cancel_operation
    NoWorker,
    MaxOp,       \* bound: operations created in a behaviour
    MaxPending,  \* agent.maxPendingOperations
    MaxCrash,    \* bound: manager processes that die
    MaxCli,      \* bound: rebuilds that do not come from an operation (0 or 1)
    MaxExpire    \* bound: leases that expire although their worker lives

(* The contents that matter: a deployment that creates an instance, and two *)
(* lifecycle requests that rebuild the same existing instance.              *)
Body == {"create", "rebuild", "rebuild2"}

ASSUME AgentAssumption ==
    /\ BodyOf \in [Call -> Body]
    /\ DOMAIN KeyOf = Call
    /\ MaxOp \in Nat \ {0} /\ MaxPending \in Nat \ {0}
    /\ MaxCrash \in Nat /\ MaxExpire \in Nat /\ MaxCli \in 0 .. 1
    /\ NoWorker \notin Worker

Op   == 1 .. MaxOp
NoOp == 0
Cli  == -1   \* the rebuild of the existing instance by the CLI or the page

VARIABLES
    alive,   \* manager processes that live
    ops,     \* agent_operations
    lastOp,  \* operation ids handed out
    calls,   \* the requests in progress
    cancels, \* the calls of cancel_operation
    wk,      \* the worker threads
    stop,    \* builds that BuildQueue.cancel asked to stop
    cli,     \* the rebuild that does not come from an operation
    expired  \* leases expired under a live worker so far

vars == <<alive, ops, lastOp, calls, cancels, wk, stop, cli, expired>>

Keys     == {KeyOf[c] : c \in Call}
Active   == {"queued", "running", "cancelling"}
Held     == {"running", "cancelling"}
Terminal == {"succeeded", "failed", "cancelled", "needs_input", "interrupted"}
Phase    == {"none", "validate", "import", "build", "healthcheck"}

(* A row; key and body are functions of the request call that created it.   *)
(* lease: lease_until lies in the future.  target: target_instance_id set.  *)
(* "absent": not created yet, or deleted by the sweep.                      *)
Absent == [status |-> "absent", by |-> NoOp, phase |-> "none", owner |-> NoWorker,
           lease |-> FALSE, target |-> FALSE]

Present(o) == ops[o].status # "absent"
Exists(st) == {o \in Op : ops[o].status \in st}
KeyOfOp(o)  == KeyOf[ops[o].by]
BodyOfOp(o) == BodyOf[ops[o].by]
Creates(o)  == BodyOfOp(o) = "create"

(* get_agent_operation_by_idempotency *)
WithKey(k) == {o \in Op : Present(o) /\ KeyOfOp(o) = k}

Init ==
    /\ alive = Worker
    /\ ops = [o \in Op |-> Absent]
    /\ lastOp = 0
    /\ calls = [c \in Call |-> [pc |-> "start", known |-> NoOp, op |-> NoOp,
                                outcome |-> "none"]]
    /\ cancels = [c \in Canceller |-> [pc |-> "start", op |-> NoOp, status |-> "none",
                                       build |-> FALSE, answer |-> "none"]]
    /\ wk = [w \in Worker |-> [pc |-> "recover", op |-> NoOp, todo |-> {}, res |-> "none"]]
    /\ stop = {}
    /\ cli = "none"
    /\ expired = 0

----------------------------------------------------------------------------
(* Acceptance                                                               *)

CallAt(c, l) == calls[c].pc = l
Answer(c, outcome, o) ==
    calls' = [calls EXCEPT ![c].pc = "done", ![c].outcome = outcome, ![c].op = o]
CallStep(c, l) == calls' = [calls EXCEPT ![c].pc = l]

(* Replay of an existing operation, or idempotency_conflict.                *)
AnswerExisting(c, o) ==
    IF BodyOfOp(o) = BodyOf[c] THEN Answer(c, "accepted", o) ELSE Answer(c, "conflict", NoOp)

OnlyCalls == UNCHANGED <<alive, ops, lastOp, cancels, wk, stop, cli, expired>>

(* Mutant: the volatile checks come before the existing operation. *)
ReplayExisting_Late(c) ==
    /\ CallAt(c, "start")
    /\ \E known \in WithKey(KeyOf[c]) \cup {NoOp} :
          /\ known = NoOp => WithKey(KeyOf[c]) = {}
          /\ \E l \in {"lookup", "done"} :
                calls' = [calls EXCEPT ![c].pc = l, ![c].known = known,
                                       ![c].outcome = IF l = "done" THEN "rejected" ELSE "none"]
    /\ OnlyCalls

(* _replay_existing, and for a new key the volatile checks: freshness and   *)
(* owner of the plan, capabilities, revision of the instance, with any      *)
(* outcome.  known records, for the properties, the operation that the key  *)
(* had when the request came.                                               *)
ReplayExisting(c) ==
    /\ CallAt(c, "start")
    /\ \/ \E o \in WithKey(KeyOf[c]) :
             calls' = [calls EXCEPT ![c] =
                 [pc |-> "done", known |-> o,
                  op |-> IF BodyOfOp(o) = BodyOf[c] THEN o ELSE NoOp,
                  outcome |-> IF BodyOfOp(o) = BodyOf[c] THEN "accepted" ELSE "conflict"]]
       \/ WithKey(KeyOf[c]) = {} /\ (CallStep(c, "lookup") \/ Answer(c, "rejected", NoOp))
    /\ OnlyCalls

(* _accept: the key again, before the limit. *)
LookupKey(c) ==
    /\ CallAt(c, "lookup")
    /\ \/ \E o \in WithKey(KeyOf[c]) : AnswerExisting(c, o)
       \/ WithKey(KeyOf[c]) = {} /\ CallStep(c, "count")
    /\ OnlyCalls

(* count_agent_operations against maxPendingOperations. *)
CountPending(c) ==
    /\ CallAt(c, "count")
    /\ IF Cardinality(Exists(Active)) >= MaxPending THEN Answer(c, "busy", NoOp)
       ELSE CallStep(c, "insert")
    /\ OnlyCalls

(* Mutant: no UNIQUE(principal_id, workspace_id, idempotency_key). *)
InsertOp_NoUnique(c) ==
    /\ CallAt(c, "insert")
    /\ lastOp < MaxOp
    /\ lastOp' = lastOp + 1
    /\ ops' = [ops EXCEPT ![lastOp + 1] =
                  [Absent EXCEPT !.status = "queued", !.by = c,
                                 !.target = BodyOf[c] # "create"]]
    /\ Answer(c, "accepted", lastOp + 1)
    /\ UNCHANGED <<alive, cancels, wk, stop, cli, expired>>

(* create_agent_operation: INSERT, or the UNIQUE constraint refuses.        *)
InsertOp(c) ==
    /\ CallAt(c, "insert")
    /\ \/ /\ WithKey(KeyOf[c]) = {} /\ lastOp < MaxOp
          /\ lastOp' = lastOp + 1
          /\ ops' = [ops EXCEPT ![lastOp + 1] =
                        [Absent EXCEPT !.status = "queued", !.by = c,
                                       !.target = BodyOf[c] # "create"]]
          /\ Answer(c, "accepted", lastOp + 1)
       \/ /\ WithKey(KeyOf[c]) # {}
          /\ CallStep(c, "reread")
          /\ UNCHANGED <<ops, lastOp>>
    /\ UNCHANGED <<alive, cancels, wk, stop, cli, expired>>

(* Mutant: the request hash is not compared with the row of the winner. *)
RereadKey_AnyBody(c) ==
    /\ CallAt(c, "reread")
    /\ \/ \E o \in WithKey(KeyOf[c]) : Answer(c, "accepted", o)
       \/ WithKey(KeyOf[c]) = {} /\ Answer(c, "error", NoOp)
    /\ OnlyCalls

(* ... and the row of the winner is read again. *)
RereadKey(c) ==
    /\ CallAt(c, "reread")
    /\ \/ \E o \in WithKey(KeyOf[c]) : AnswerExisting(c, o)
       \/ WithKey(KeyOf[c]) = {} /\ Answer(c, "error", NoOp)
    /\ OnlyCalls

----------------------------------------------------------------------------
(* Worker: recovery, claim, lease, sweep                                    *)

WAt(w, l)   == w \in alive /\ wk[w].pc = l
WGoto(w, l) == wk' = [wk EXCEPT ![w].pc = l]
WFinish(w, res) == wk' = [wk EXCEPT ![w].pc = "finish", ![w].res = res]
MyOp(w)     == wk[w].op

(* Steps of a worker inside _execute. *)
ExecPc == {"validate", "import", "checkImport", "importing", "associate", "checkBuild",
           "build", "enter", "building", "health", "lastCheck", "finish"}
WorkerPc == ExecPc \cup {"recover", "recoverOne", "claim"}

Executes(w, o) == w \in alive /\ wk[w].pc \in ExecPc /\ wk[w].op = o

Stale(o) == ~ops[o].lease \/ ops[o].owner \notin alive

(* Mutant: cancelling operations are not looked at. *)
ListStale_Running(w) ==
    /\ WAt(w, "recover")
    /\ wk' = [wk EXCEPT ![w].pc = "recoverOne",
                        ![w].todo = {o \in Exists({"running"}) : Stale(o)}]
    /\ UNCHANGED <<alive, ops, lastOp, calls, cancels, stop, cli, expired>>

(* recover_stale: the running and cancelling operations whose lease is over *)
(* or whose process is dead.  The worker is between two operations, so none *)
(* is in its own _INFLIGHT_OPS.                                             *)
ListStale(w) ==
    /\ WAt(w, "recover")
    /\ wk' = [wk EXCEPT ![w].pc = "recoverOne",
                        ![w].todo = {o \in Exists(Held) : Stale(o)}]
    /\ UNCHANGED <<alive, ops, lastOp, calls, cancels, stop, cli, expired>>

(* Mutant: the operation goes back to the queue. *)
RecoverOne_Requeue(w) ==
    /\ WAt(w, "recoverOne")
    /\ \/ \E o \in wk[w].todo :
             /\ wk' = [wk EXCEPT ![w].todo = @ \ {o}]
             /\ ops' = IF ops[o].status \in Held
                       THEN [ops EXCEPT ![o].status = "queued"] ELSE ops
       \/ wk[w].todo = {} /\ WGoto(w, "claim") /\ UNCHANGED ops
    /\ UNCHANGED <<alive, lastOp, calls, cancels, stop, cli, expired>>

(* One by one they become interrupted, if they still are active: neither    *)
(* the lease nor the owner is read again.                                   *)
RecoverOne(w) ==
    /\ WAt(w, "recoverOne")
    /\ \/ \E o \in wk[w].todo :
             /\ wk' = [wk EXCEPT ![w].todo = @ \ {o}]
             /\ ops' = IF ops[o].status \in Held
                       THEN [ops EXCEPT ![o].status = "interrupted"] ELSE ops
       \/ wk[w].todo = {} /\ WGoto(w, "claim") /\ UNCHANGED ops
    /\ UNCHANGED <<alive, lastOp, calls, cancels, stop, cli, expired>>

(* claim_next_agent_operation: the oldest queued operation. *)
Claim(w) ==
    /\ WAt(w, "claim")
    /\ \/ \E o \in Exists({"queued"}) :
             /\ \A q \in Exists({"queued"}) : o <= q
             /\ ops' = [ops EXCEPT ![o].status = "running", ![o].phase = "validate",
                                   ![o].owner = w, ![o].lease = TRUE]
             /\ wk' = [wk EXCEPT ![w].pc = "validate", ![w].op = o]
       \/ Exists({"queued"}) = {} /\ WGoto(w, "recover") /\ UNCHANGED ops
    /\ UNCHANGED <<alive, lastOp, calls, cancels, stop, cli, expired>>

(* _LeaseHeartbeat: renew_agent_operation_lease. *)
RenewLease(w) ==
    LET o == MyOp(w) IN
    /\ w \in alive /\ wk[w].pc \in ExecPc
    /\ ops[o].status \in Held /\ ops[o].owner = w /\ ~ops[o].lease
    /\ ops' = [ops EXCEPT ![o].lease = TRUE]
    /\ UNCHANGED <<alive, lastOp, calls, cancels, wk, stop, cli, expired>>

(* 30 s pass without a renewal: the worker is dead, or the machine slept,   *)
(* or the renewals failed.                                                  *)
LeaseExpires(o) ==
    /\ ops[o].status \in Held /\ ops[o].lease
    /\ IF ops[o].owner \in alive
       THEN expired < MaxExpire /\ expired' = expired + 1
       ELSE UNCHANGED expired
    /\ ops' = [ops EXCEPT ![o].lease = FALSE]
    /\ UNCHANGED <<alive, lastOp, calls, cancels, wk, stop, cli>>

(* sweep_terminal_agent_operations: a row closed for seven days goes; no    *)
(* execution, and no call of cancel, lasts that long.                       *)
Sweep(w, o) ==
    /\ WAt(w, "recover") /\ ops[o].status \in Terminal
    /\ \A v \in alive : ~Executes(v, o) /\ o \notin wk[v].todo
    /\ \A c \in Canceller : cancels[c].pc # "done" => cancels[c].op # o
    /\ ops' = [ops EXCEPT ![o].status = "absent"]
    /\ UNCHANGED <<alive, lastOp, calls, cancels, wk, stop, cli, expired>>

----------------------------------------------------------------------------
(* Worker: execution                                                        *)

(* _abort_if_cancelling, then on to l. *)
AbortOr(w, l) ==
    IF ops[MyOp(w)].status = "cancelling" THEN WFinish(w, "cancelled") ELSE WGoto(w, l)

OnlyWorker == UNCHANGED <<alive, ops, lastOp, calls, cancels, stop, cli, expired>>

(* The checks before the first effect: plan, capabilities, revision. *)
Validate(w) ==
    /\ WAt(w, "validate")
    /\ \/ AbortOr(w, IF Creates(MyOp(w)) THEN "import" ELSE "build")
       \/ \E res \in {"failed", "needs_input"} : WFinish(w, res)
    /\ OnlyWorker

(* _advance: the phase of the row, whatever its status and owner. *)
Advance(w, phase, l) ==
    /\ ops' = [ops EXCEPT ![MyOp(w)].phase = IF Present(MyOp(w)) THEN phase ELSE @]
    /\ WGoto(w, l)
    /\ UNCHANGED <<alive, lastOp, calls, cancels, stop, cli, expired>>

AdvanceImport(w) == WAt(w, "import") /\ Advance(w, "import", "checkImport")
CheckImport(w)   == WAt(w, "checkImport") /\ AbortOr(w, "importing") /\ OnlyWorker

(* import_zip creates the instance (or fails and leaves none) ... *)
ImportInstance(w) ==
    /\ WAt(w, "importing")
    /\ \/ WGoto(w, "associate")
       \/ \E res \in {"failed", "needs_input"} : WFinish(w, res)
    /\ OnlyWorker

(* ... and the row gets its target_instance_id in a later transaction. *)
AssociateInstance(w) ==
    /\ WAt(w, "associate")
    /\ ops' = [ops EXCEPT ![MyOp(w)].target = TRUE]
    /\ WGoto(w, "checkBuild")
    /\ UNCHANGED <<alive, lastOp, calls, cancels, stop, cli, expired>>

CheckBuild(w)   == WAt(w, "checkBuild") /\ AbortOr(w, "build") /\ OnlyWorker
AdvanceBuild(w) == WAt(w, "build") /\ Advance(w, "build", "enter")

(* Who builds which instance: the operations that create have their own,    *)
(* the others share the existing one, also with the CLI.                    *)
SameInstance(o, b) ==
    IF b = Cli THEN ~Creates(o) ELSE o = b \/ (~Creates(o) /\ ~Creates(b))

Builds(b) == IF b = Cli THEN cli = "building"
             ELSE \E w \in alive : wk[w].pc = "building" /\ wk[w].op = b

(* The handler got the instance lock, found the expected revision and       *)
(* registered its build; or it gave up.                                     *)
EnterBuild(w) ==
    /\ WAt(w, "enter")
    /\ \/ /\ \A b \in Op \cup {Cli} : Builds(b) => ~SameInstance(MyOp(w), b)
          /\ WGoto(w, "building")
       \/ ~Creates(MyOp(w)) /\ WFinish(w, "failed")
    /\ OnlyWorker

(* The build ends; a build asked to stop ends cancelled (BuildQueue). *)
EndBuild(w) ==
    /\ WAt(w, "building")
    /\ IF MyOp(w) \in stop THEN WFinish(w, "cancelled")
       ELSE \/ WGoto(w, IF Creates(MyOp(w)) THEN "health" ELSE "lastCheck")
            \/ WFinish(w, "failed")
    /\ OnlyWorker

AdvanceHealth(w) == WAt(w, "health") /\ Advance(w, "healthcheck", "lastCheck")

(* Mutant: the operation takes over the status of its instance. *)
LastCheck_InstanceStatus(w) ==
    /\ WAt(w, "lastCheck")
    /\ IF ops[MyOp(w)].status = "cancelling" THEN WFinish(w, "cancelled")
       ELSE WFinish(w, "running") \/ (Creates(MyOp(w)) /\ WFinish(w, "failed"))
    /\ OnlyWorker

(* The last look at the row; a deployment also fails when its instance did. *)
LastCheck(w) ==
    /\ WAt(w, "lastCheck")
    /\ IF ops[MyOp(w)].status = "cancelling" THEN WFinish(w, "cancelled")
       ELSE WFinish(w, "succeeded") \/ (Creates(MyOp(w)) /\ WFinish(w, "failed"))
    /\ OnlyWorker

(* Mutant: the status is written without a comparison. *)
Finish_NoCas(w) ==
    /\ WAt(w, "finish")
    /\ ops' = [ops EXCEPT ![MyOp(w)].status = IF Present(MyOp(w)) THEN wk[w].res ELSE @]
    /\ wk' = [wk EXCEPT ![w] = [@ EXCEPT !.pc = "recover", !.op = NoOp, !.res = "none"]]
    /\ UNCHANGED <<alive, lastOp, calls, cancels, stop, cli, expired>>

(* _finish: CAS from running or cancelling. *)
Finish(w) ==
    /\ WAt(w, "finish")
    /\ ops' = IF ops[MyOp(w)].status \in Held
              THEN [ops EXCEPT ![MyOp(w)].status = wk[w].res] ELSE ops
    /\ wk' = [wk EXCEPT ![w] = [@ EXCEPT !.pc = "recover", !.op = NoOp, !.res = "none"]]
    /\ UNCHANGED <<alive, lastOp, calls, cancels, stop, cli, expired>>

----------------------------------------------------------------------------
(* cancel_operation                                                         *)

CanAt(c, l) == cancels[c].pc = l
CanAnswer(c, answer) == cancels' = [cancels EXCEPT ![c].pc = "done", ![c].answer = answer]
OnlyCancels == UNCHANGED <<alive, lastOp, calls, wk, cli, expired>>

(* The row is read once: its status, its phase and its target. *)
ReadOp(c) ==
    /\ CanAt(c, "start")
    /\ \E o \in {q \in Op : Present(q)} :
          LET st == ops[o].status IN
          cancels' = [cancels EXCEPT ![c] =
              [pc |-> IF st \in Terminal THEN "done" ELSE IF st = "queued" THEN "casQueued"
                      ELSE "casRunning",
               op |-> o, status |-> st,
               build |-> ops[o].phase = "build" /\ ops[o].target,
               answer |-> IF st \in Terminal THEN st ELSE "none"]]
    /\ UNCHANGED <<ops, stop>>
    /\ OnlyCancels

(* Mutant: the answer does not look at the outcome of the CAS (BUG-688). *)
CancelQueued_Unchecked(c) ==
    LET o == cancels[c].op IN
    /\ CanAt(c, "casQueued")
    /\ ops' = IF ops[o].status = "queued" THEN [ops EXCEPT ![o].status = "cancelled"] ELSE ops
    /\ CanAnswer(c, "cancelled")
    /\ UNCHANGED stop
    /\ OnlyCancels

(* Mutant: the status is written without a comparison. *)
CancelQueued_NoCas(c) ==
    LET o == cancels[c].op IN
    /\ CanAt(c, "casQueued")
    /\ ops' = [ops EXCEPT ![o].status = "cancelled"]
    /\ CanAnswer(c, "cancelled")
    /\ UNCHANGED stop
    /\ OnlyCancels

CancelQueued(c) ==
    LET o == cancels[c].op IN
    /\ CanAt(c, "casQueued")
    /\ \/ /\ ops[o].status = "queued"
          /\ ops' = [ops EXCEPT ![o].status = "cancelled"]
          /\ CanAnswer(c, "cancelled")
       \/ /\ ops[o].status # "queued"
          /\ cancels' = [cancels EXCEPT ![c].pc = "reread"]
          /\ UNCHANGED ops
    /\ UNCHANGED stop
    /\ OnlyCancels

CancelRunning(c) ==
    LET o == cancels[c].op IN
    /\ CanAt(c, "casRunning")
    /\ \/ /\ ops[o].status = "running"
          /\ ops' = [ops EXCEPT ![o].status = "cancelling"]
          /\ IF cancels[c].build THEN cancels' = [cancels EXCEPT ![c].pc = "queue"]
             ELSE CanAnswer(c, "cancelling")
       \/ /\ ops[o].status # "running"
          /\ cancels' = [cancels EXCEPT ![c].pc = "reread"]
          /\ UNCHANGED ops
    /\ UNCHANGED stop
    /\ OnlyCancels

(* The CAS missed: the status as it is now is the answer. *)
RereadOp(c) ==
    /\ CanAt(c, "reread")
    /\ CanAnswer(c, ops[cancels[c].op].status)
    /\ UNCHANGED <<ops, stop>>
    /\ OnlyCancels

(* BuildQueue.cancel(target_instance_id): whatever build of the instance    *)
(* runs; build_token is not looked at.                                      *)
CancelBuild(c) ==
    /\ CanAt(c, "queue")
    /\ stop' = stop \cup {b \in Op \cup {Cli} : Builds(b) /\ SameInstance(cancels[c].op, b)}
    /\ CanAnswer(c, "cancelling")
    /\ UNCHANGED ops
    /\ OnlyCancels

----------------------------------------------------------------------------
(* Environment                                                              *)

(* A rebuild from the CLI or the management page, under the instance lock.  *)
CliStarts ==
    /\ cli = "none" /\ MaxCli = 1
    /\ \A b \in Op : Builds(b) => Creates(b)
    /\ cli' = "building"
    /\ UNCHANGED <<alive, ops, lastOp, calls, cancels, wk, stop, expired>>

CliEnds ==
    /\ cli = "building"
    /\ cli' = IF Cli \in stop THEN "cancelled" ELSE "built"
    /\ UNCHANGED <<alive, ops, lastOp, calls, cancels, wk, stop, expired>>

(* A manager process dies; its operation stays as it is in the table. *)
Crash(w) ==
    /\ w \in alive /\ Cardinality(Worker \ alive) < MaxCrash
    /\ alive' = alive \ {w}
    /\ wk' = [wk EXCEPT ![w] = [pc |-> "recover", op |-> NoOp, todo |-> {}, res |-> "none"]]
    /\ UNCHANGED <<ops, lastOp, calls, cancels, stop, cli, expired>>

----------------------------------------------------------------------------
AcceptStep(c) ==
    \/ ReplayExisting(c) \/ LookupKey(c) \/ CountPending(c)
    \/ InsertOp(c) \/ RereadKey(c)

ExecStep(w) ==
    \/ Validate(w) \/ AdvanceImport(w) \/ CheckImport(w) \/ ImportInstance(w)
    \/ AssociateInstance(w) \/ CheckBuild(w) \/ AdvanceBuild(w) \/ EnterBuild(w)
    \/ EndBuild(w) \/ AdvanceHealth(w) \/ LastCheck(w) \/ Finish(w)

WorkerStep(w) == ListStale(w) \/ RecoverOne(w) \/ Claim(w) \/ ExecStep(w)

CancelStep(c) ==
    ReadOp(c) \/ CancelQueued(c) \/ CancelRunning(c) \/ RereadOp(c) \/ CancelBuild(c)

EnvStep ==
    \/ CliStarts \/ CliEnds
    \/ \E w \in Worker : RenewLease(w) \/ Crash(w) \/ \E o \in Op : Sweep(w, o)
    \/ \E o \in Op : LeaseExpires(o)

Next ==
    \/ \E c \in Call : AcceptStep(c)
    \/ \E w \in Worker : WorkerStep(w)
    \/ \E c \in Canceller : CancelStep(c)
    \/ EnvStep

Spec == Init /\ [][Next]_vars

(* The worker loop goes on (poll_interval; a build has its timeouts, a      *)
(* handler gives up a lock after 30 s).  Nobody has to send requests.       *)
FairSpec == Spec /\ \A w \in Worker : WF_vars(WorkerStep(w))

----------------------------------------------------------------------------
(* Properties                                                               *)

Status  == Active \cup Terminal \cup {"absent"}
OpRow   == [status : Status, by : Call \cup {NoOp}, phase : Phase,
            owner : Worker \cup {NoWorker}, lease : BOOLEAN, target : BOOLEAN]
CallRec == [pc : {"start", "lookup", "count", "insert", "reread", "done"},
            known : Op \cup {NoOp}, op : Op \cup {NoOp},
            outcome : {"none", "accepted", "conflict", "rejected", "busy", "error"}]
CanRec  == [pc : {"start", "casQueued", "casRunning", "reread", "queue", "done"},
            op : Op \cup {NoOp}, status : Status \cup {"none"}, build : BOOLEAN,
            answer : Status \cup {"none"}]
WkRec   == [pc : WorkerPc, op : Op \cup {NoOp}, todo : SUBSET Op,
            res : {"none", "succeeded", "failed", "cancelled", "needs_input"}]

(* The types of the table and of the threads. *)
TypeOK ==
    /\ alive \subseteq Worker
    /\ ops \in [Op -> OpRow]
    /\ lastOp \in 0 .. MaxOp
    /\ calls \in [Call -> CallRec]
    /\ cancels \in [Canceller -> CanRec]
    /\ wk \in [Worker -> WkRec]
    /\ stop \subseteq Op \cup {Cli}
    /\ cli \in {"none", "building", "built", "cancelled"}
    /\ expired \in 0 .. MaxExpire

(* Requests with one key get one operation, and only if they ask for the    *)
(* same thing: of two operations answered to the same key, one has left the *)
(* retention period.  The lookup, the insert and the reread of the UNIQUE   *)
(* loser are separate steps of concurrent requests.                         *)
IdempotentAccept ==
    \A c, d \in Call :
        /\ calls[c].outcome = "accepted" => BodyOfOp(calls[c].op) = BodyOf[c]
        /\ /\ calls[c].outcome = "accepted" /\ calls[d].outcome = "accepted"
           /\ KeyOf[c] = KeyOf[d]
           /\ calls[c].op # calls[d].op
           => ~Present(calls[c].op) \/ ~Present(calls[d].op)

(* A repeated request is answered with its operation, or as a conflict,     *)
(* never "busy" (BUG-689) and never refused by a check that has changed its *)
(* mind since (BUG-707).                                                    *)
ReplayFirst ==
    \A c \in Call : calls[c].known # NoOp => calls[c].outcome \in {"accepted", "conflict"}

(* An operation has one executor, whatever leases expire and whichever      *)
(* manager recovers it: it is never claimed again ("绝不自动重复").          *)
OneExecutor ==
    \A o \in Op : \A v, w \in Worker : Executes(v, o) /\ Executes(w, o) => v = w

(* An operation that ended otherwise than by an interruption is not being   *)
(* executed: neither a cancel of the queued row racing with the claim nor   *)
(* the end of the executor leaves a worker at a closed operation.           *)
EndedMeansQuiet ==
    \A o \in Op : ops[o].status \in Terminal \ {"interrupted"} =>
        \A w \in Worker : ~Executes(w, o)

(* The answer of a cancel that names a final status stays true (BUG-688).   *)
CancelHonest ==
    \A c \in Canceller : cancels[c].answer \in Terminal =>
        ops[cancels[c].op].status \in {cancels[c].answer, "absent"}

(* What a client is told when it asks, in one statement: one operation for a *)
(* key, and the same answer again.                                           *)
AcceptIsTrue ==
    TypeOK /\ IdempotentAccept /\ ReplayFirst

(* A closed operation stays closed, with the same status, until the sweep.  *)
CloseOnce ==
    [][\A o \in Op : ops[o].status \in Terminal =>
          ops'[o].status \in {ops[o].status, "absent"}]_vars

(* What a client is told when it cancels, in one statement: what ended is    *)
(* not executed any more, and its status is final.                           *)
CancelIsTrue ==
    EndedMeansQuiet /\ CancelHonest

(* Every accepted operation ends, though its manager dies and a cancel      *)
(* comes at any moment, as long as one manager lives.                       *)
OpEnds ==
    \A o \in Op : ops[o].status \in Active ~> ops[o].status \in Terminal \cup {"absent"}

----------------------------------------------------------------------------
(* What a comment of the repository says and the code does not keep; TLC    *)
(* violates it in the instance of agent_cancel with MaxCli = 1.             *)

(* The cancel of an operation stops the build of that operation, never      *)
(* another one ("不杀错 PID").  The phase is build already while the          *)
(* operation waits for the instance lock, and the build is then the one of  *)
(* whoever holds it.                                                        *)
CancelHitsOwnBuild == Cli \notin stop
=============================================================================
