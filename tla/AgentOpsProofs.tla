--------------------------- MODULE AgentOpsProofs ---------------------------
(* Proofs about AgentOps and AgentPlans, which share no state, for any sets *)
(* of requests, workers, cancels, plans and files and any limits.           *)
(*                                                                          *)
(* The inductive invariant IInv of AgentOps adds to the types (1) which     *)
(* rows exist and that a key has one of them, (2) what a request and a      *)
(* cancel know of the row they talk about, (3) that a worker in the middle  *)
(* of _execute is the only one at its row, and that the row was not closed  *)
(* behind its back other than by a recovery.                                *)
EXTENDS AgentOps, AgentPlans, FiniteSetTheorems, TLAPS

(* Ids are handed out in order; a row keeps its request when it is swept.   *)
RowsInv ==
    \A o \in Op :
        /\ o <= lastOp => ops[o].by \in Call
        /\ o > lastOp => ~Present(o)

(* UNIQUE(principal_id, workspace_id, idempotency_key). *)
KeyInv ==
    \A o, q \in Op : Present(o) /\ Present(q) /\ KeyOfOp(o) = KeyOfOp(q) => o = q

CallInv ==
    \A c \in Call :
        /\ calls[c].pc # "done" => calls[c].known = NoOp /\ calls[c].outcome = "none"
        /\ calls[c].outcome = "accepted" =>
              /\ calls[c].op \in 1 .. lastOp
              /\ KeyOfOp(calls[c].op) = KeyOf[c]
              /\ BodyOfOp(calls[c].op) = BodyOf[c]

CancelInv ==
    \A c \in Canceller :
        /\ cancels[c].pc = "start" => cancels[c].answer = "none"
        /\ cancels[c].pc # "start" => cancels[c].op \in 1 .. lastOp
        /\ cancels[c].answer \in Terminal =>
              ops[cancels[c].op].status \in {cancels[c].answer, "absent"}

(* The rows an executor may find: its own, running or being cancelled, or   *)
(* one that a recovery has closed under it.                                 *)
WorkInv ==
    /\ \A w \in alive : wk[w].pc \in ExecPc =>
          /\ wk[w].op \in Op
          /\ ops[wk[w].op].status \in Held \cup {"interrupted"}
          /\ wk[w].pc = "finish" => wk[w].res # "none"
    /\ OneExecutor

IInv == TypeOK /\ RowsInv /\ KeyInv /\ CallInv /\ CancelInv /\ WorkInv /\ ReplayFirst

-----------------------------------------------------------------------------
(* Types                                                                    *)

(* A row keeps its type when one of its columns is written. *)
LEMMA RowType ==
    ASSUME TypeOK, NEW o \in Op
    PROVE  /\ ops[o] \in OpRow
           /\ \A st \in Status : [ops EXCEPT ![o].status = st] \in [Op -> OpRow]
           /\ \A ph \in Phase : [ops EXCEPT ![o].phase = ph] \in [Op -> OpRow]
           /\ \A b \in BOOLEAN : [ops EXCEPT ![o].lease = b] \in [Op -> OpRow]
           /\ \A b \in BOOLEAN : [ops EXCEPT ![o].target = b] \in [Op -> OpRow]
           /\ \A w \in Worker :
                 [ops EXCEPT ![o].status = "running", ![o].phase = "validate",
                             ![o].owner = w, ![o].lease = TRUE] \in [Op -> OpRow]
  <1>1. ops[o] \in OpRow
    BY DEF TypeOK
  <1>2. /\ \A st \in Status : [ops EXCEPT ![o].status = st] \in [Op -> OpRow]
        /\ \A ph \in Phase : [ops EXCEPT ![o].phase = ph] \in [Op -> OpRow]
    BY DEF TypeOK, OpRow
  <1>3. /\ \A b \in BOOLEAN : [ops EXCEPT ![o].lease = b] \in [Op -> OpRow]
        /\ \A b \in BOOLEAN : [ops EXCEPT ![o].target = b] \in [Op -> OpRow]
    BY DEF TypeOK, OpRow
  <1>4. ASSUME NEW w \in Worker
        PROVE  [ops EXCEPT ![o].status = "running", ![o].phase = "validate",
                           ![o].owner = w, ![o].lease = TRUE] \in [Op -> OpRow]
    BY <1>1 DEF Status, Active, Phase, OpRow, TypeOK
  <1> QED BY <1>1, <1>2, <1>3, <1>4

(* Where a worker is, and what it has found out. *)
LEMMA WorkerType ==
    ASSUME TypeOK, NEW w \in Worker
    PROVE  /\ wk[w] \in WkRec
           /\ \A l \in WorkerPc : [wk EXCEPT ![w].pc = l] \in [Worker -> WkRec]
           /\ \A o \in Op : [wk EXCEPT ![w].pc = "validate", ![w].op = o] \in [Worker -> WkRec]
           /\ \A t \in SUBSET Op :
                 [wk EXCEPT ![w].pc = "recoverOne", ![w].todo = t] \in [Worker -> WkRec]
           /\ \A t \in SUBSET Op : [wk EXCEPT ![w].todo = t] \in [Worker -> WkRec]
           /\ \A r \in {"succeeded", "failed", "cancelled", "needs_input"} :
                 [wk EXCEPT ![w].pc = "finish", ![w].res = r] \in [Worker -> WkRec]
           /\ [wk EXCEPT ![w] = [@ EXCEPT !.pc = "recover", !.op = NoOp, !.res = "none"]]
                 \in [Worker -> WkRec]
  <1>0. {"validate", "recover", "recoverOne", "finish"} \subseteq WorkerPc
    BY DEF WorkerPc, ExecPc
  <1> USE DEF WkRec, NoOp
  <1>1. wk[w] \in WkRec
    BY DEF TypeOK
  <1>2. \A l \in WorkerPc : [wk EXCEPT ![w].pc = l] \in [Worker -> WkRec]
    BY DEF TypeOK
  <1>3. \A o \in Op : [wk EXCEPT ![w].pc = "validate", ![w].op = o] \in [Worker -> WkRec]
    BY ZenonT(60), <1>0 DEF TypeOK
  <1>4. \A t \in SUBSET Op :
           /\ [wk EXCEPT ![w].pc = "recoverOne", ![w].todo = t] \in [Worker -> WkRec]
           /\ [wk EXCEPT ![w].todo = t] \in [Worker -> WkRec]
    BY <1>0, <1>1 DEF TypeOK
  <1>5. \A r \in {"succeeded", "failed", "cancelled", "needs_input"} :
           [wk EXCEPT ![w].pc = "finish", ![w].res = r] \in [Worker -> WkRec]
    BY <1>0, <1>1 DEF TypeOK
  <1>6. [wk EXCEPT ![w] = [@ EXCEPT !.pc = "recover", !.op = NoOp, !.res = "none"]]
           \in [Worker -> WkRec]
    BY <1>0, <1>1 DEF TypeOK
  <1> QED BY <1>1, <1>2, <1>3, <1>4, <1>5, <1>6

(* A request moves on, or is answered. *)
LEMMA CallType ==
    ASSUME TypeOK, NEW c \in Call
    PROVE  /\ \A l \in {"lookup", "count", "insert", "reread"} :
                 CallStep(c, l) => calls' \in [Call -> CallRec]
           /\ \A u \in {"accepted", "conflict", "rejected", "busy", "error"}, o \in Op \cup {NoOp} :
                 Answer(c, u, o) => calls' \in [Call -> CallRec]
  BY DEF TypeOK, CallRec, CallStep, Answer

-----------------------------------------------------------------------------
(* What a step may do to the table                                          *)

(* The ids handed out are ids of rows. *)
LEMMA IdsAreOps == TypeOK => 1 .. lastOp \subseteq Op /\ lastOp \in Nat /\ MaxOp \in Nat
  BY AgentAssumption DEF TypeOK, Op

(* No row appears, and no row changes its request. *)
RowsKept ==
    /\ lastOp' = lastOp
    /\ \A o \in Op :
          /\ ops'[o].by = ops[o].by
          /\ ops'[o].status # "absent" => ops[o].status # "absent"

CloseStep ==
    \A o \in Op : ops[o].status \in Terminal => ops'[o].status \in {ops[o].status, "absent"}

(* A row that is executed stays one an executor may find. *)
ExecRowsKept ==
    \A o \in Op : ops[o].status \in Held \cup {"interrupted"}
                     => ops'[o].status \in Held \cup {"interrupted"}

LEMMA SameRows ==
    ASSUME UNCHANGED <<ops, lastOp>>
    PROVE  RowsKept /\ CloseStep /\ ExecRowsKept
  BY DEF RowsKept, CloseStep, ExecRowsKept

(* A write of other columns leaves the statuses and the requests alone. *)
LEMMA SameStatuses ==
    ASSUME TypeOK, NEW o \in Op, lastOp' = lastOp,
           \/ \E ph : ops' = [ops EXCEPT ![o].phase = ph]
           \/ \E b : ops' = [ops EXCEPT ![o].lease = b]
           \/ \E b : ops' = [ops EXCEPT ![o].target = b]
    PROVE  RowsKept /\ CloseStep /\ ExecRowsKept
BY DEF TypeOK, OpRow, RowsKept, CloseStep, ExecRowsKept

(* A compare-and-set from a status that is neither closed nor absent. *)
LEMMA CasKeeps ==
    ASSUME TypeOK, NEW o \in Op, NEW st, lastOp' = lastOp,
           ops[o].status \in Active, ops' = [ops EXCEPT ![o].status = st]
    PROVE  /\ RowsKept /\ CloseStep
           /\ ops'[o].status = st
           /\ \A q \in Op : q # o => ops'[q] = ops[q]
           /\ (ops[o].status = "queued" \/ st \in Held \cup {"interrupted"}) => ExecRowsKept
BY DEF TypeOK, OpRow, Active, Terminal, RowsKept, CloseStep, ExecRowsKept, Held

(* Where no row appears, the keys stay apart and the requests keep theirs.  *)
LEMMA KeptRowsKeep ==
    ASSUME IInv, RowsKept
    PROVE  RowsInv' /\ KeyInv' /\ (UNCHANGED calls => CallInv' /\ ReplayFirst')
BY IdsAreOps DEF IInv, RowsInv, RowsKept, Present, Op, KeyInv, KeyOfOp, CallInv, BodyOfOp,
       ReplayFirst

(* Where no closed row is opened again, the answers of the cancels hold.    *)
LEMMA KeptClosedKeep ==
    ASSUME IInv, RowsKept, CloseStep, UNCHANGED cancels
    PROVE  CancelInv'
BY IdsAreOps DEF IInv, CancelInv, Terminal, RowsKept, CloseStep

(* A worker that goes on at its row, or none that moves at all.             *)
LEMMA ExecMoves ==
    ASSUME IInv, NEW w \in alive, wk[w].pc \in ExecPc, alive' = alive, ExecRowsKept,
           \A v \in alive : v # w => wk'[v] = wk[v],
           wk'[w].op = wk[w].op, wk'[w].pc \in ExecPc,
           wk'[w].pc = "finish" => wk'[w].res # "none"
    PROVE  WorkInv'
  BY DEF IInv, WorkInv, OneExecutor, Executes, ExecRowsKept

LEMMA IdleKeep ==
    ASSUME IInv, UNCHANGED <<alive, wk>>, ExecRowsKept
    PROVE  WorkInv'
  BY DEF IInv, WorkInv, OneExecutor, Executes, ExecRowsKept

-----------------------------------------------------------------------------
(* Acceptance                                                               *)

(* The rows of a key were handed out, and to the request that asks again.   *)
LEMMA FoundRow ==
    ASSUME IInv, NEW c \in Call, NEW o \in WithKey(KeyOf[c])
    PROVE  o \in Op /\ o \in 1 .. lastOp /\ KeyOfOp(o) = KeyOf[c]
BY IdsAreOps DEF WithKey, IInv, RowsInv, Op

(* What the requests know after one of them has been answered or moved on.  *)
LEMMA RequestKeeps ==
    ASSUME IInv, NEW c \in Call, calls[c].pc # "done", OnlyCalls,
           \/ \E l \in {"lookup", "count", "insert", "reread"} : CallStep(c, l)
           \/ \E u \in {"conflict", "rejected", "busy", "error"} : Answer(c, u, NoOp)
           \/ \E o \in WithKey(KeyOf[c]) : AnswerExisting(c, o)
    PROVE  calls' \in [Call -> CallRec] /\ CallInv' /\ ReplayFirst'
  <1> USE DEF OnlyCalls
  <1>1. \A d \in Call : calls[d] \in CallRec
    BY DEF IInv, TypeOK
  <1>2. CallInv /\ ReplayFirst /\ TypeOK
    BY DEF IInv
  <1>3. calls[c].known = NoOp /\ calls[c].outcome = "none"
    BY <1>2 DEF CallInv
  <1>4. ASSUME NEW l \in {"lookup", "count", "insert", "reread"}, CallStep(c, l)
        PROVE  calls' \in [Call -> CallRec] /\ CallInv' /\ ReplayFirst'
    BY <1>2, <1>4, CallType, <1>1, <1>3 DEF CallStep, CallRec, TypeOK, CallInv, KeyOfOp, BodyOfOp,
           ReplayFirst
  <1>5. ASSUME NEW u \in {"accepted", "conflict", "rejected", "busy", "error"},
               NEW o \in Op \cup {NoOp}, Answer(c, u, o),
               u = "accepted" => /\ o \in 1 .. lastOp
                                 /\ KeyOfOp(o) = KeyOf[c] /\ BodyOfOp(o) = BodyOf[c]
        PROVE  calls' \in [Call -> CallRec] /\ CallInv' /\ ReplayFirst'
    <2>1. calls' \in [Call -> CallRec]
      BY <1>2, <1>5, CallType
    <2>2. /\ \A d \in Call : d # c => calls'[d] = calls[d]
          /\ calls'[c].known = NoOp /\ calls'[c].outcome = u /\ calls'[c].op = o
          /\ calls'[c].pc = "done"
      BY <1>1, <1>2, <1>3, <1>5 DEF Answer, CallRec, TypeOK
    <2>3. CallInv'
      BY <1>2, <1>5, <2>2 DEF CallInv, KeyOfOp, BodyOfOp
    <2>4. ReplayFirst'
      BY <1>2, <2>2 DEF ReplayFirst
    <2> QED BY <2>1, <2>3, <2>4
  <1>6. ASSUME NEW o \in WithKey(KeyOf[c]), AnswerExisting(c, o)
        PROVE  calls' \in [Call -> CallRec] /\ CallInv' /\ ReplayFirst'
    BY FoundRow, <1>5, <1>6 DEF AnswerExisting
  <1> QED BY <1>4, <1>5, <1>6

(* A step of a request that leaves the table alone keeps the invariant.     *)
LEMMA OnlyCallsKeeps ==
    ASSUME IInv, OnlyCalls, calls' \in [Call -> CallRec], CallInv', ReplayFirst'
    PROVE  IInv' /\ CloseStep
BY SameRows, KeptRowsKeep, KeptClosedKeep, IdleKeep DEF OnlyCalls, IInv, TypeOK

(* _replay_existing answers from the row it found.                          *)
LEMMA ReplayKeeps ==
    ASSUME IInv, NEW c \in Call, ReplayExisting(c)
    PROVE  IInv' /\ CloseStep
  <1>1. calls[c].pc # "done" /\ OnlyCalls
    BY DEF ReplayExisting, CallAt
  <1>2. CASE \E o \in WithKey(KeyOf[c]) :
                calls' = [calls EXCEPT ![c] =
                    [pc |-> "done", known |-> o,
                     op |-> IF BodyOfOp(o) = BodyOf[c] THEN o ELSE NoOp,
                     outcome |-> IF BodyOfOp(o) = BodyOf[c] THEN "accepted" ELSE "conflict"]]
    <2>1. PICK o \in WithKey(KeyOf[c]) :
                calls' = [calls EXCEPT ![c] =
                    [pc |-> "done", known |-> o,
                     op |-> IF BodyOfOp(o) = BodyOf[c] THEN o ELSE NoOp,
                     outcome |-> IF BodyOfOp(o) = BodyOf[c] THEN "accepted" ELSE "conflict"]]
      BY <1>2
    <2>2. o \in Op /\ o \in 1 .. lastOp /\ KeyOfOp(o) = KeyOf[c]
      BY FoundRow
    <2>3. calls \in [Call -> CallRec] /\ CallInv /\ ReplayFirst
      BY DEF IInv, TypeOK
    <2>4. /\ \A d \in Call : d # c => calls'[d] = calls[d]
          /\ calls'[c].outcome \in {"accepted", "conflict"} /\ calls'[c].pc = "done"
          /\ calls'[c].outcome = "accepted" => calls'[c].op = o /\ BodyOfOp(o) = BodyOf[c]
      BY <2>1, <2>3
    <2>5. calls' \in [Call -> CallRec]
      BY <2>1, <2>2, <2>3 DEF CallRec
    <2>6. UNCHANGED <<ops, lastOp>>
      BY <1>1 DEF OnlyCalls
    <2>7. CallInv'
      BY <2>2, <2>3, <2>4, <2>6 DEF CallInv, KeyOfOp, BodyOfOp
    <2>8. ReplayFirst'
      BY <2>3, <2>4 DEF ReplayFirst
    <2> QED BY <1>1, <2>5, <2>7, <2>8, OnlyCallsKeeps
  <1>3. CASE CallStep(c, "lookup") \/ Answer(c, "rejected", NoOp)
    BY <1>1, <1>3, RequestKeeps, OnlyCallsKeeps
  <1> QED BY <1>2, <1>3 DEF ReplayExisting

(* The INSERT: the key had no row, the id is new, the winner has its own.   *)
LEMMA InsertKeeps ==
    ASSUME IInv, NEW c \in Call, InsertOp(c)
    PROVE  IInv' /\ CloseStep
  <1>1. CASE WithKey(KeyOf[c]) # {}
    BY <1>1, RequestKeeps, OnlyCallsKeeps DEF InsertOp, CallAt, OnlyCalls
  <1>2. CASE WithKey(KeyOf[c]) = {}
    <2> DEFINE n == lastOp + 1
               row == [Absent EXCEPT !.status = "queued", !.by = c,
                                     !.target = BodyOf[c] # "create"]
    <2>1. /\ lastOp < MaxOp /\ lastOp' = n /\ ops' = [ops EXCEPT ![n] = row]
          /\ Answer(c, "accepted", n) /\ calls[c].pc = "insert"
          /\ UNCHANGED <<alive, cancels, wk, stop, cli, expired>>
      BY <1>2 DEF InsertOp, CallAt
    <2>2. /\ TypeOK /\ RowsInv /\ KeyInv /\ CallInv /\ CancelInv /\ WorkInv /\ ReplayFirst
          /\ lastOp \in Nat /\ MaxOp \in Nat
      BY IdsAreOps DEF IInv
    <2>3. n \in Op /\ n \notin 1 .. lastOp /\ \A k \in 1 .. n : k \in 1 .. lastOp \/ k = n
      BY <2>1, <2>2 DEF Op
    <2>4. /\ row \in OpRow /\ row.status = "queued" /\ row.by = c
      BY DEF Absent, OpRow, Status, Active, Phase
    <2> HIDE DEF n, row
    <2>5. ops[n].status = "absent"
      BY <2>2, <2>3 DEF RowsInv, Present, n, Op
    <2>6. /\ ops'[n] = row /\ \A o \in Op : o # n => ops'[o] = ops[o]
          /\ ops' \in [Op -> OpRow]
      BY <2>1, <2>2, <2>3, <2>4 DEF TypeOK
    <2>7. calls' \in [Call -> CallRec]
      BY <2>1, <2>2, <2>3, CallType
    <2>8. TypeOK'
      BY <2>1, <2>2, <2>3, <2>6, <2>7 DEF TypeOK, Op, n
    <2>9. RowsInv'
      BY <2>1, <2>2, <2>3, <2>4, <2>6 DEF RowsInv, Present, n, Op
    <2>10. KeyInv'
      BY <1>2, <2>2, <2>3, <2>4, <2>6 DEF WithKey, KeyInv, Present, KeyOfOp
    <2>11. /\ \A d \in Call : d # c => calls'[d] = calls[d]
           /\ calls'[c].known = NoOp /\ calls'[c].outcome = "accepted"
           /\ calls'[c].op = n /\ calls'[c].pc = "done"
      BY <2>1, <2>2 DEF Answer, TypeOK, CallRec, CallInv
    <2>12. CallInv'
      BY <2>2, <2>3, <2>6, IdsAreOps, <2>1, <2>4, <2>11 DEF CallInv, n, KeyOfOp, BodyOfOp
    <2>13. ReplayFirst'
      BY <2>2, <2>11 DEF ReplayFirst
    <2>14. CancelInv'
      BY <2>2, <2>3, <2>6, IdsAreOps, <2>1 DEF n, CancelInv, Terminal
    <2>15. ExecRowsKept /\ CloseStep
      BY <2>5, <2>6 DEF ExecRowsKept, CloseStep, Held, Terminal
    <2>16. WorkInv'
      BY <2>1, <2>15, IdleKeep
    <2> QED BY <2>8, <2>9, <2>10, <2>12, <2>13, <2>14, <2>15, <2>16 DEF IInv
  <1> QED BY <1>1, <1>2

(* Every step of a request keeps the invariant.                             *)
LEMMA AcceptKeeps ==
    ASSUME IInv, NEW c \in Call, AcceptStep(c)
    PROVE  IInv' /\ CloseStep
BY RequestKeeps, OnlyCallsKeeps, ReplayKeeps, InsertKeeps DEF LookupKey, CountPending, RereadKey,
       CallAt, AcceptStep

-----------------------------------------------------------------------------
(* The workers                                                              *)

(* What is left to show of a step that no request and no cancel takes.      *)
LEMMA TableKeeps ==
    ASSUME IInv, UNCHANGED <<calls, cancels>>, TypeOK', RowsKept, CloseStep, WorkInv'
    PROVE  IInv' /\ CloseStep
  BY KeptRowsKeep, KeptClosedKeep DEF IInv

(* An executor stays at its row, between two steps of _execute.             *)
LEMMA GotoMoves ==
    ASSUME IInv, NEW w \in alive, wk[w].pc \in ExecPc, alive' = alive, ExecRowsKept,
           \/ \E l \in ExecPc \ {"finish"} : WGoto(w, l)
           \/ \E r \in {"succeeded", "failed", "cancelled", "needs_input"} : WFinish(w, r)
    PROVE  wk' \in [Worker -> WkRec] /\ WorkInv'
  <1>1. TypeOK /\ w \in Worker /\ wk \in [Worker -> WkRec]
    BY DEF IInv, TypeOK
  <1>2. ASSUME NEW l \in ExecPc \ {"finish"}, WGoto(w, l)
        PROVE  wk' \in [Worker -> WkRec] /\ WorkInv'
    <2>1. wk' \in [Worker -> WkRec]
      BY <1>1, <1>2, WorkerType DEF WGoto, WorkerPc
    <2>2. /\ \A v \in Worker : v # w => wk'[v] = wk[v]
          /\ wk'[w].pc = l /\ wk'[w].op = wk[w].op
      BY <1>1, <1>2 DEF WGoto, WkRec
    <2>3. \A v \in alive : v # w => wk'[v] = wk[v]
      BY <1>1, <2>2 DEF TypeOK
    <2>4. WorkInv'
      BY <2>2, <2>3, ExecMoves
    <2> QED BY <2>1, <2>4
  <1>3. ASSUME NEW r \in {"succeeded", "failed", "cancelled", "needs_input"}, WFinish(w, r)
        PROVE  wk' \in [Worker -> WkRec] /\ WorkInv'
    <2>1. wk' \in [Worker -> WkRec]
      BY <1>1, <1>3, WorkerType DEF WFinish
    <2>2. /\ \A v \in Worker : v # w => wk'[v] = wk[v]
          /\ wk'[w].pc = "finish" /\ wk'[w].res = r /\ wk'[w].op = wk[w].op
      BY <1>1, <1>3 DEF WFinish, WkRec
    <2>3. \A v \in alive : v # w => wk'[v] = wk[v]
      BY <1>1, <2>2 DEF TypeOK
    <2>4. WorkInv'
      BY <2>2, <2>3, ExecMoves DEF ExecPc
    <2> QED BY <2>1, <2>4
  <1> QED BY <1>2, <1>3

(* The steps of _execute that do not write the table.                       *)
LEMMA OnlyWorkerKeeps ==
    ASSUME IInv, NEW w \in alive, wk[w].pc \in ExecPc, OnlyWorker,
           \/ \E l \in ExecPc \ {"finish"} : WGoto(w, l)
           \/ \E r \in {"succeeded", "failed", "cancelled", "needs_input"} : WFinish(w, r)
    PROVE  IInv' /\ CloseStep
BY SameRows, GotoMoves, TableKeeps DEF OnlyWorker, IInv, TypeOK

(* _advance writes the phase of a row and goes on.                          *)
LEMMA AdvanceKeeps ==
    ASSUME IInv, NEW w \in alive, wk[w].pc \in ExecPc, NEW ph \in Phase,
           NEW l \in ExecPc \ {"finish"}, Advance(w, ph, l)
    PROVE  IInv' /\ CloseStep
BY RowType, SameStatuses, GotoMoves, TableKeeps DEF IInv, WorkInv, MyOp, Advance, TypeOK, OpRow

(* AssociateInstance writes the target of its row and goes on.              *)
LEMMA AssociateKeeps ==
    ASSUME IInv, NEW w \in Worker, AssociateInstance(w)
    PROVE  IInv' /\ CloseStep
BY SameStatuses, RowType, GotoMoves, TableKeeps DEF AssociateInstance, WAt, ExecPc, IInv, WorkInv,
       MyOp, TypeOK

(* A worker outside of _execute, or one that leaves it, or that dies, takes *)
(* nothing from the others, as long as their rows stay executable.          *)
LEMMA OthersKeep ==
    ASSUME IInv, NEW w \in Worker, alive' \subseteq alive,
           w \in alive' => wk'[w].pc \notin ExecPc,
           \A v \in alive : v # w => wk'[v] = wk[v],
           \A v \in alive : v # w /\ wk[v].pc \in ExecPc
                             => ops'[wk[v].op].status \in Held \cup {"interrupted"}
    PROVE  WorkInv'
  BY DEF IInv, WorkInv, OneExecutor, Executes

LEMMA ExecRowsOfOthers ==
    ASSUME IInv, ExecRowsKept
    PROVE  \A v \in alive : wk[v].pc \in ExecPc
                             => ops'[wk[v].op].status \in Held \cup {"interrupted"}
  BY DEF IInv, WorkInv, ExecRowsKept

(* recover_stale lists rows; it writes nothing yet.                         *)
LEMMA ListKeeps ==
    ASSUME IInv, NEW w \in Worker, ListStale(w)
    PROVE  IInv' /\ CloseStep
  <1> DEFINE t == {o \in Exists(Held) : Stale(o)}
  <1>1. t \in SUBSET Op
    BY DEF Exists
  <1>2. wk' = [wk EXCEPT ![w].pc = "recoverOne", ![w].todo = t] /\ w \in alive
    BY DEF ListStale, WAt
  <1> HIDE DEF t
  <1>3. wk' \in [Worker -> WkRec]
    BY <1>1, <1>2, WorkerType DEF IInv
  <1>4. wk'[w].pc = "recoverOne" /\ \A v \in Worker : v # w => wk'[v] = wk[v]
    BY <1>2 DEF IInv, TypeOK, WkRec
  <1>5. RowsKept /\ CloseStep /\ ExecRowsKept
    BY SameRows DEF ListStale
  <1>6. WorkInv'
    BY <1>4, <1>5, OthersKeep, ExecRowsOfOthers DEF ListStale, ExecPc, IInv, TypeOK
  <1>7. TypeOK'
    BY <1>3 DEF IInv, TypeOK, ListStale
  <1> QED BY <1>5, <1>6, <1>7, TableKeeps DEF ListStale

(* A recovery closes one row after the other, whoever executes it.          *)
LEMMA RecoverKeeps ==
    ASSUME IInv, NEW w \in Worker, RecoverOne(w)
    PROVE  IInv' /\ CloseStep
  <1>1. TypeOK /\ w \in alive /\ wk[w].pc = "recoverOne" /\ wk[w] \in WkRec
        /\ UNCHANGED <<alive, lastOp, calls, cancels, stop, cli, expired>>
    BY DEF IInv, TypeOK, RecoverOne, WAt
  <1>2. /\ RowsKept /\ CloseStep /\ ExecRowsKept
        /\ ops' \in [Op -> OpRow]
        /\ wk' \in [Worker -> WkRec]
        /\ wk'[w].pc \in {"recoverOne", "claim"} /\ \A v \in Worker : v # w => wk'[v] = wk[v]
    <2>1. CASE wk[w].todo = {} /\ WGoto(w, "claim") /\ UNCHANGED ops
      <3>1. RowsKept /\ CloseStep /\ ExecRowsKept
        BY <1>1, <2>1, SameRows
      <3>2. wk' \in [Worker -> WkRec]
        BY <1>1, <2>1, WorkerType DEF WGoto, WorkerPc
      <3>3. wk'[w].pc = "claim" /\ \A v \in Worker : v # w => wk'[v] = wk[v]
        BY <1>1, <2>1 DEF WGoto, TypeOK, WkRec
      <3> QED BY <1>1, <2>1, <3>1, <3>2, <3>3 DEF TypeOK
    <2>2. ASSUME NEW o \in wk[w].todo, wk' = [wk EXCEPT ![w].todo = @ \ {o}],
                 ops' = IF ops[o].status \in Held
                        THEN [ops EXCEPT ![o].status = "interrupted"] ELSE ops
          PROVE  /\ RowsKept /\ CloseStep /\ ExecRowsKept
                 /\ ops' \in [Op -> OpRow]
                 /\ wk' \in [Worker -> WkRec]
                 /\ wk'[w].pc \in {"recoverOne", "claim"}
                 /\ \A v \in Worker : v # w => wk'[v] = wk[v]
      <3>1. o \in Op /\ wk[w].todo \ {o} \in SUBSET Op
        BY <1>1 DEF WkRec
      <3>2. wk' = [wk EXCEPT ![w].todo = wk[w].todo \ {o}]
        BY <2>2
      <3>3. wk' \in [Worker -> WkRec]
        BY <1>1, <3>1, <3>2, WorkerType
      <3>4. wk'[w].pc = "recoverOne" /\ \A v \in Worker : v # w => wk'[v] = wk[v]
        BY <1>1, <3>2 DEF TypeOK, WkRec
      <3>5. CASE ops[o].status \notin Held
        BY <1>1, <2>2, <3>5, SameRows, <3>3, <3>4 DEF TypeOK
      <3>6. CASE ops[o].status \in Held
        BY <3>6, <1>1, <2>2, <3>1, CasKeeps, RowType, <3>3, <3>4 DEF Held, Active, Status,
               Terminal
      <3> QED BY <3>5, <3>6
    <2> QED BY <2>1, <2>2 DEF RecoverOne
  <1>3. WorkInv'
    BY <1>1, <1>2, OthersKeep, ExecRowsOfOthers DEF ExecPc, TypeOK
  <1>4. TypeOK'
    BY <1>1, <1>2 DEF TypeOK
  <1> QED BY <1>1, <1>2, <1>3, <1>4, TableKeeps

(* The claim takes a queued row, which nobody executes.                     *)
LEMMA ClaimKeeps ==
    ASSUME IInv, NEW w \in Worker, Claim(w)
    PROVE  IInv' /\ CloseStep
  <1>1. /\ TypeOK /\ w \in alive /\ wk[w].pc = "claim"
        /\ UNCHANGED <<alive, lastOp, calls, cancels, stop, cli, expired>>
    BY DEF IInv, Claim, WAt
  <1>2. CASE WGoto(w, "recover") /\ UNCHANGED ops
    <2>1. RowsKept /\ CloseStep /\ ExecRowsKept
      BY <1>1, <1>2, SameRows
    <2>2. wk' \in [Worker -> WkRec]
      BY <1>1, <1>2, WorkerType DEF WGoto, WorkerPc
    <2>3. wk'[w].pc = "recover" /\ \A v \in Worker : v # w => wk'[v] = wk[v]
      BY <1>1, <1>2 DEF WGoto, TypeOK, WkRec
    <2>4. WorkInv'
      BY <1>1, <2>1, <2>3, OthersKeep, ExecRowsOfOthers DEF ExecPc, TypeOK
    <2>5. TypeOK'
      BY <1>1, <1>2, <2>2 DEF TypeOK
    <2> QED BY <1>1, <2>1, <2>4, <2>5, TableKeeps
  <1>3. ASSUME NEW o \in Exists({"queued"}),
               ops' = [ops EXCEPT ![o].status = "running", ![o].phase = "validate",
                                  ![o].owner = w, ![o].lease = TRUE],
               wk' = [wk EXCEPT ![w].pc = "validate", ![w].op = o]
        PROVE  IInv' /\ CloseStep
    <2>1. o \in Op /\ ops[o].status = "queued"
      BY DEF Exists
    <2>2. ops' \in [Op -> OpRow] /\ wk' \in [Worker -> WkRec]
      BY <1>1, <1>3, <2>1, RowType, WorkerType
    <2>3. /\ \A q \in Op : ops'[q].by = ops[q].by /\ (q # o => ops'[q] = ops[q])
          /\ ops'[o].status = "running"
      BY <1>1, <1>3, <2>1 DEF TypeOK, OpRow
    <2>4. RowsKept /\ CloseStep /\ ExecRowsKept
      BY <1>1, <2>1, <2>3 DEF RowsKept, CloseStep, ExecRowsKept, Terminal, Held
    <2>5. /\ \A v \in Worker : v # w => wk'[v] = wk[v]
          /\ wk'[w].pc = "validate" /\ wk'[w].op = o
      BY <1>1, <1>3 DEF TypeOK, WkRec
    <2>6. \A v \in alive : wk[v].pc \in ExecPc => wk[v].op # o
      BY <2>1 DEF IInv, WorkInv, Held
    <2>7. WorkInv'
      BY <1>1, <2>1, <2>3, <2>4, <2>5, <2>6
         DEF IInv, WorkInv, OneExecutor, Executes, ExecRowsKept, TypeOK, Held
    <2>8. TypeOK'
      BY <1>1, <2>2 DEF TypeOK
    <2> QED BY <1>1, <2>4, <2>7, <2>8, TableKeeps
  <1> QED BY <1>2, <1>3 DEF Claim

(* _finish closes the row of the only executor, if it is still open.        *)
LEMMA FinishKeeps ==
    ASSUME IInv, NEW w \in Worker, Finish(w)
    PROVE  IInv' /\ CloseStep
  <1> DEFINE o == MyOp(w)
             r == wk[w].res
  <1>1. /\ TypeOK /\ w \in alive /\ wk[w].pc = "finish" /\ wk[w] \in WkRec
        /\ UNCHANGED <<alive, lastOp, calls, cancels, stop, cli, expired>>
    BY DEF IInv, TypeOK, Finish, WAt
  <1>2. o \in Op /\ r # "none" /\ "finish" \in ExecPc
    BY <1>1 DEF IInv, WorkInv, MyOp, ExecPc
  <1>3. r \in Status
    BY <1>1, <1>2 DEF WkRec, Status, Terminal
  <1>4. wk' \in [Worker -> WkRec]
    BY <1>1, WorkerType DEF Finish
  <1>5. wk'[w].pc = "recover" /\ \A v \in Worker : v # w => wk'[v] = wk[v]
    BY <1>1 DEF Finish, TypeOK, WkRec
  <1>6. \A v \in alive : v # w /\ wk[v].pc \in ExecPc => wk[v].op # o
    BY <1>1, <1>2 DEF TypeOK, IInv, WorkInv, OneExecutor, Executes, MyOp
  <1>7. /\ RowsKept /\ CloseStep /\ ops' \in [Op -> OpRow]
        /\ \A q \in Op : q # o => ops'[q] = ops[q]
    BY <1>1, <1>2, <1>3, CasKeeps, RowType, SameRows DEF Finish, Held, Active, TypeOK
  <1>8. \A v \in alive : v # w /\ wk[v].pc \in ExecPc
                          => ops'[wk[v].op].status \in Held \cup {"interrupted"}
    BY <1>6, <1>7 DEF IInv, WorkInv
  <1>9. WorkInv'
    BY <1>1, <1>5, <1>8, OthersKeep DEF ExecPc, TypeOK
  <1>10. TypeOK'
    BY <1>1, <1>4, <1>7 DEF TypeOK
  <1> QED BY <1>1, <1>7, <1>9, <1>10, TableKeeps

(* Every step of _execute keeps the invariant.                              *)
LEMMA ExecKeeps ==
    ASSUME IInv, NEW w \in Worker, ExecStep(w)
    PROVE  IInv' /\ CloseStep
  <1> DEFINE Goes == \/ \E l \in ExecPc \ {"finish"} : WGoto(w, l)
                     \/ \E r \in {"succeeded", "failed", "cancelled", "needs_input"} : WFinish(w, r)
  <1>1. CASE Validate(w)
    BY <1>1, OnlyWorkerKeeps DEF Validate, WAt, AbortOr, ExecPc
  <1>2. CASE CheckImport(w) \/ CheckBuild(w)
    BY <1>2, OnlyWorkerKeeps DEF CheckImport, CheckBuild, WAt, AbortOr, ExecPc
  <1>3. CASE ImportInstance(w) \/ EnterBuild(w)
    BY <1>3, OnlyWorkerKeeps DEF ImportInstance, EnterBuild, WAt, ExecPc
  <1>4. CASE EndBuild(w) \/ LastCheck(w)
    BY <1>4, OnlyWorkerKeeps DEF EndBuild, LastCheck, WAt, ExecPc
  <1>5. CASE AdvanceImport(w)
    BY <1>5, AdvanceKeeps DEF AdvanceImport, WAt, ExecPc, Phase
  <1>6. CASE AdvanceBuild(w)
    BY <1>6, AdvanceKeeps DEF AdvanceBuild, WAt, ExecPc, Phase
  <1>7. CASE AdvanceHealth(w)
    BY <1>7, AdvanceKeeps DEF AdvanceHealth, WAt, ExecPc, Phase
  <1>8. CASE AssociateInstance(w)
    BY <1>8, AssociateKeeps
  <1>9. CASE Finish(w)
    BY <1>9, FinishKeeps
  <1> QED BY <1>1, <1>2, <1>3, <1>4, <1>5, <1>6, <1>7, <1>8, <1>9 DEF ExecStep

-----------------------------------------------------------------------------
(* The environment                                                          *)

(* A lease that is renewed or runs out changes no status.                   *)
LEMMA LeaseKeeps ==
    ASSUME IInv, NEW o \in Op, NEW b \in BOOLEAN, ops' = [ops EXCEPT ![o].lease = b],
           UNCHANGED <<alive, lastOp, calls, cancels, wk, stop, cli>>,
           expired' \in 0 .. MaxExpire
    PROVE  IInv' /\ CloseStep
BY SameStatuses, RowType, IdleKeep, TableKeeps DEF IInv, TypeOK

(* The sweep deletes closed rows that nobody executes.                      *)
LEMMA SweepKeeps ==
    ASSUME IInv, NEW w \in Worker, NEW o \in Op, Sweep(w, o)
    PROVE  IInv' /\ CloseStep
  <1>1. /\ TypeOK /\ ops[o].status \in Terminal /\ ops' = [ops EXCEPT ![o].status = "absent"]
        /\ \A v \in alive : ~Executes(v, o)
        /\ UNCHANGED <<alive, lastOp, calls, cancels, wk, stop, cli, expired>>
    BY DEF IInv, Sweep
  <1>2. /\ \A q \in Op : ops'[q].by = ops[q].by /\ (q # o => ops'[q] = ops[q])
        /\ ops'[o].status = "absent"
    BY <1>1 DEF TypeOK, OpRow
  <1>3. RowsKept /\ CloseStep
    BY <1>1, <1>2 DEF RowsKept, CloseStep
  <1>4. ops' \in [Op -> OpRow]
    BY <1>1, RowType DEF Status
  <1>5. WorkInv'
    BY <1>1, <1>2 DEF Executes, IInv, WorkInv, OneExecutor
  <1>6. TypeOK'
    BY <1>1, <1>4 DEF TypeOK
  <1> QED BY <1>1, <1>3, <1>5, <1>6, TableKeeps

(* A process that dies leaves its row as it is.                             *)
LEMMA CrashKeeps ==
    ASSUME IInv, NEW w \in Worker, Crash(w)
    PROVE  IInv' /\ CloseStep
BY SameRows, OthersKeep, ExecRowsOfOthers, TableKeeps DEF IInv, Crash, WkRec, WorkerPc, TypeOK

(* Every step of the environment keeps the invariant.                       *)
LEMMA EnvKeeps ==
    ASSUME IInv, EnvStep
    PROVE  IInv' /\ CloseStep
  <1>0. TypeOK /\ MaxExpire \in Nat
    BY AgentAssumption DEF IInv
  <1>1. CASE CliStarts \/ CliEnds
    BY <1>1, SameRows, IdleKeep, <1>0, TableKeeps DEF CliStarts, CliEnds, TypeOK
  <1>2. ASSUME NEW w \in Worker, RenewLease(w)
        PROVE  IInv' /\ CloseStep
    BY <1>2, <1>0, LeaseKeeps DEF RenewLease, IInv, WorkInv, MyOp, TypeOK
  <1>3. ASSUME NEW o \in Op, LeaseExpires(o)
        PROVE  IInv' /\ CloseStep
    <2>1. ops' = [ops EXCEPT ![o].lease = FALSE] /\ expired' \in 0 .. MaxExpire
          /\ UNCHANGED <<alive, lastOp, calls, cancels, wk, stop, cli>>
      BY <1>0, <1>3 DEF LeaseExpires, TypeOK
    <2> QED BY <2>1, LeaseKeeps
  <1>4. ASSUME NEW w \in Worker, Crash(w) PROVE IInv' /\ CloseStep
    BY <1>4, CrashKeeps
  <1>5. ASSUME NEW w \in Worker, NEW o \in Op, Sweep(w, o) PROVE IInv' /\ CloseStep
    BY <1>5, SweepKeeps
  <1> QED BY <1>1, <1>2, <1>3, <1>4, <1>5 DEF EnvStep

-----------------------------------------------------------------------------
(* cancel_operation                                                         *)

(* A cancel moves on, or is answered. *)
LEMMA CancelType ==
    ASSUME TypeOK, NEW c \in Canceller
    PROVE  /\ \A a \in Status : CanAnswer(c, a) => cancels' \in [Canceller -> CanRec]
           /\ \A l \in {"reread", "queue"} :
                 cancels' = [cancels EXCEPT ![c].pc = l] => cancels' \in [Canceller -> CanRec]
BY DEF TypeOK, CanRec, CanAnswer

(* What is left to show of a step of a cancel.                              *)
LEMMA CancelFrame ==
    ASSUME IInv, OnlyCancels, RowsKept, CloseStep, ExecRowsKept,
           ops' \in [Op -> OpRow], stop' \subseteq Op \cup {Cli},
           cancels' \in [Canceller -> CanRec], CancelInv'
    PROVE  IInv' /\ CloseStep
BY KeptRowsKeep, IdleKeep DEF OnlyCancels, IInv, TypeOK

(* The other cancels keep what they know; what this one learns is enough.   *)
LEMMA OneCancelMoves ==
    ASSUME IInv, OnlyCancels, RowsKept, CloseStep, NEW c \in Canceller,
           \A d \in Canceller : d # c => cancels'[d] = cancels[d],
           cancels'[c].pc # "start", cancels'[c].op \in 1 .. lastOp,
           cancels'[c].answer \in Terminal =>
              ops'[cancels'[c].op].status \in {cancels'[c].answer, "absent"}
    PROVE  CancelInv'
BY IdsAreOps DEF IInv, OnlyCancels, CancelInv, Terminal, RowsKept, CloseStep

(* The row is read once.                                                    *)
LEMMA ReadKeeps ==
    ASSUME IInv, NEW c \in Canceller, ReadOp(c)
    PROVE  IInv' /\ CloseStep
  <1>1. PICK o \in {q \in Op : Present(q)} :
          cancels' = [cancels EXCEPT ![c] =
              [pc |-> IF ops[o].status \in Terminal THEN "done"
                      ELSE IF ops[o].status = "queued" THEN "casQueued" ELSE "casRunning",
               op |-> o, status |-> ops[o].status,
               build |-> ops[o].phase = "build" /\ ops[o].target,
               answer |-> IF ops[o].status \in Terminal THEN ops[o].status ELSE "none"]]
    BY DEF ReadOp
  <1>2. UNCHANGED <<ops, stop>> /\ OnlyCancels
    BY DEF ReadOp
  <1>3. TypeOK /\ o \in Op /\ ops[o].status \in Status /\ ops[o].target \in BOOLEAN
    BY DEF IInv, TypeOK, OpRow
  <1>4. o \in 1 .. lastOp
    BY <1>3, IdsAreOps DEF IInv, RowsInv, Op
  <1>5. (ops[o].phase = "build" /\ ops[o].target) \in BOOLEAN
    OBVIOUS
  <1>6. cancels' \in [Canceller -> CanRec]
    BY <1>1, <1>3, <1>5 DEF TypeOK, CanRec
  <1>7. /\ \A d \in Canceller : d # c => cancels'[d] = cancels[d]
        /\ cancels'[c].pc # "start" /\ cancels'[c].op = o
        /\ cancels'[c].answer \in {ops[o].status, "none"}
    BY <1>1, <1>3 DEF TypeOK
  <1>8. RowsKept /\ CloseStep /\ ExecRowsKept
    BY <1>2, SameRows DEF OnlyCancels
  <1>9. CancelInv'
    BY <1>2, <1>4, <1>7, <1>8, OneCancelMoves DEF Terminal
  <1> QED BY <1>2, <1>3, <1>6, <1>8, <1>9, CancelFrame DEF TypeOK

(* The CAS of a cancel on the row it has read.                              *)
LEMMA CasCancelKeeps ==
    ASSUME IInv, NEW c \in Canceller, CancelQueued(c) \/ CancelRunning(c)
    PROVE  IInv' /\ CloseStep
  <1> DEFINE o == cancels[c].op
  <1>1. TypeOK /\ UNCHANGED stop /\ OnlyCancels /\ stop \subseteq Op \cup {Cli}
    BY DEF CancelQueued, CancelRunning, IInv, TypeOK
  <1>2. cancels[c].pc # "start" /\ cancels[c].answer \in Status \cup {"none"}
    BY DEF CancelQueued, CancelRunning, CanAt, IInv, TypeOK, CanRec
  <1>3. o \in 1 .. lastOp /\ o \in Op
    BY <1>1, <1>2, IdsAreOps DEF IInv, CancelInv
  <1>4. {"cancelled", "cancelling"} \subseteq Status
    BY DEF Status, Terminal, Active
  <1>5. CASE ops' = ops /\ cancels' = [cancels EXCEPT ![c].pc = "reread"]
    BY <1>1, <1>5, SameRows, CancelType, <1>3, OneCancelMoves, CancelFrame DEF OnlyCancels,
           TypeOK, CanRec, IInv, CancelInv
  <1>6. ASSUME NEW st \in {"cancelled", "cancelling"},
               ops[o].status = IF st = "cancelled" THEN "queued" ELSE "running",
               ops' = [ops EXCEPT ![o].status = st],
               \/ CanAnswer(c, st)
               \/ st = "cancelling" /\ cancels' = [cancels EXCEPT ![c].pc = "queue"]
        PROVE  IInv' /\ CloseStep
    <2> HIDE DEF o
    <2>1. ops[o].status \in Active /\ (ops[o].status = "queued" \/ st \in Held \cup {"interrupted"})
      BY <1>6 DEF Active, Held
    <2>2. lastOp' = lastOp
      BY <1>1 DEF OnlyCancels
    <2>3. RowsKept /\ CloseStep /\ ExecRowsKept /\ ops'[o].status = st
      BY <1>1, <1>3, <1>6, <2>1, <2>2, CasKeeps
    <2>4. ops' \in [Op -> OpRow]
      BY <1>1, <1>3, <1>4, <1>6, RowType
    <2>5. cancels' \in [Canceller -> CanRec]
      BY <1>1, <1>4, <1>6, CancelType
    <2>6. /\ \A d \in Canceller : d # c => cancels'[d] = cancels[d]
          /\ cancels'[c].pc # "start" /\ cancels'[c].op = o
          /\ cancels'[c].answer = st \/ cancels'[c].answer = cancels[c].answer
      BY <1>1, <1>6 DEF TypeOK, CanRec, CanAnswer, o
    <2>7. cancels[c].answer \notin Terminal
      BY <1>2, <2>1 DEF IInv, CancelInv, Active, Terminal, o
    <2>8. CancelInv'
      BY <1>1, <1>3, <2>3, <2>6, <2>7, OneCancelMoves DEF OnlyCancels
    <2> QED BY <1>1, <2>3, <2>4, <2>5, <2>8, CancelFrame DEF TypeOK
  <1> QED BY <1>5, <1>6 DEF CancelQueued, CancelRunning

(* The answers that follow: the status now, or that the build is stopped.   *)
LEMMA AnswerCancelKeeps ==
    ASSUME IInv, NEW c \in Canceller, RereadOp(c) \/ CancelBuild(c)
    PROVE  IInv' /\ CloseStep
  <1> DEFINE o == cancels[c].op
  <1>1. TypeOK /\ UNCHANGED ops /\ OnlyCancels /\ stop' \subseteq Op \cup {Cli}
    BY DEF RereadOp, CancelBuild, IInv, TypeOK
  <1>2. cancels[c].pc # "start"
    BY DEF RereadOp, CancelBuild, CanAt
  <1>3. o \in 1 .. lastOp /\ o \in Op
    BY <1>1, <1>2, IdsAreOps DEF IInv, CancelInv
  <1>4. PICK a \in Status : CanAnswer(c, a) /\ (a = ops[o].status \/ a = "cancelling")
    BY <1>1, <1>3 DEF TypeOK, OpRow, Status, Active, RereadOp, CancelBuild
  <1>5. RowsKept /\ CloseStep /\ ExecRowsKept
    BY <1>1, SameRows DEF OnlyCancels
  <1>6. /\ \A d \in Canceller : d # c => cancels'[d] = cancels[d]
        /\ cancels'[c].pc = "done" /\ cancels'[c].op = o /\ cancels'[c].answer = a
    BY <1>1, <1>4 DEF TypeOK, CanRec, CanAnswer
  <1>7. cancels' \in [Canceller -> CanRec]
    BY <1>1, <1>4, CancelType
  <1>8. CancelInv'
    BY <1>1, <1>3, <1>4, <1>5, <1>6, OneCancelMoves DEF Terminal
  <1> QED BY <1>1, <1>5, <1>7, <1>8, CancelFrame DEF TypeOK

(* Every step of a cancel keeps the invariant.                              *)
LEMMA CancelKeeps ==
    ASSUME IInv, NEW c \in Canceller, CancelStep(c)
    PROVE  IInv' /\ CloseStep
  BY ReadKeeps, CasCancelKeeps, AnswerCancelKeeps DEF CancelStep

-----------------------------------------------------------------------------
(* The invariant and what follows from it                                   *)

(* At the start there are no rows, and every thread is at its beginning.    *)
LEMMA InitHolds == Init => IInv
  <1> SUFFICES ASSUME Init PROVE IInv
    OBVIOUS
  <1>1. /\ Absent \in OpRow /\ Absent.status = "absent"
        /\ MaxOp \in Nat /\ MaxExpire \in Nat
    BY AgentAssumption DEF Absent, OpRow, Status, Phase
  <1>2. ops \in [Op -> OpRow] /\ \A o \in Op : ~Present(o)
    BY <1>1 DEF Init, Present
  <1>3. /\ calls \in [Call -> CallRec]
        /\ \A c \in Call : calls[c].outcome = "none" /\ calls[c].known = NoOp
    BY DEF Init, CallRec
  <1>4. /\ cancels \in [Canceller -> CanRec]
        /\ \A c \in Canceller : cancels[c].pc = "start" /\ cancels[c].answer = "none"
    BY DEF Init, CanRec
  <1>5. /\ wk \in [Worker -> WkRec]
        /\ \A w \in Worker : wk[w].pc \notin ExecPc
    BY DEF Init, WkRec, WorkerPc, ExecPc
  <1>6. TypeOK
    <2>1. lastOp \in 0 .. MaxOp /\ expired \in 0 .. MaxExpire
      BY <1>1 DEF Init
    <2>2. alive \subseteq Worker /\ stop \subseteq Op \cup {Cli}
          /\ cli \in {"none", "building", "built", "cancelled"}
      BY DEF Init
    <2> QED BY <1>2, <1>3, <1>4, <1>5, <2>1, <2>2 DEF TypeOK
  <1>7. RowsInv
    BY <1>1, <1>2 DEF Init, RowsInv, Op
  <1>8. KeyInv /\ CallInv /\ ReplayFirst
    BY <1>2, <1>3 DEF KeyInv, CallInv, ReplayFirst
  <1>9. CancelInv
    BY <1>4 DEF CancelInv, Terminal
  <1>10. WorkInv
    BY <1>5 DEF Init, WorkInv, OneExecutor, Executes
  <1> QED BY <1>6, <1>7, <1>8, <1>9, <1>10 DEF IInv

(* Every step keeps the invariant, and opens no closed operation.           *)
LEMMA NextKeeps == IInv /\ [Next]_vars => IInv' /\ CloseStep
BY SameRows, IdleKeep, TableKeeps, AcceptKeeps, ListKeeps, RecoverKeeps, ClaimKeeps, ExecKeeps,
   CancelKeeps, EnvKeeps DEF vars, IInv, TypeOK, WorkerStep, Next

(* The inductive invariant holds in every reachable state of the agent's    *)
(* operations (agent/operations.py), for all requests, workers and limits.  *)
THEOREM OperationsInvariant == Spec => []IInv
  <1>1. Init => IInv
    BY InitHolds
  <1>2. IInv /\ [Next]_vars => IInv'
    BY NextKeeps
  <1> QED BY <1>1, <1>2, PTL DEF Spec

(* Two requests with one idempotency key are never answered with two        *)
(* operations that are both kept, and an answer is about the request that   *)
(* was made (_accept, the UNIQUE constraint and the reread after it).       *)
LEMMA KeysHold == IInv => IdempotentAccept
BY IdsAreOps DEF IdempotentAccept, IInv, CallInv, KeyInv

(* What a client is told when it asks: one operation for a key, and the     *)
(* same answer again (operations.py _replay_existing, _accept).             *)
THEOREM AcceptStaysTrue == Spec => []AcceptIsTrue
  <1>1. IInv => AcceptIsTrue
    BY KeysHold DEF IInv, AcceptIsTrue
  <1> QED BY <1>1, OperationsInvariant, PTL

(* An operation has one executor, whatever leases expire and whichever      *)
(* manager recovers it (claim_next_agent_operation, recover_stale).         *)
THEOREM ExecutorStaysOne == Spec => []OneExecutor
  <1>1. IInv => OneExecutor
    BY DEF IInv, WorkInv
  <1> QED BY <1>1, OperationsInvariant, PTL

(* What a client is told when it cancels stays true, and what ended is not  *)
(* executed any more (cancel_operation and the CAS of _finish).             *)
THEOREM CancelStaysTrue == Spec => []CancelIsTrue
  <1>1. IInv => EndedMeansQuiet
    BY DEF IInv, WorkInv, EndedMeansQuiet, Executes, Held, Terminal
  <1>2. IInv => CancelHonest
    BY DEF IInv, CancelInv, CancelHonest
  <1>3. IInv => CancelIsTrue
    BY <1>1, <1>2 DEF CancelIsTrue
  <1> QED BY <1>3, OperationsInvariant, PTL

(* A closed operation stays closed, with the same status, until the sweep:  *)
(* no recovery, cancel, claim or end of an executor writes over it.         *)
THEOREM ClosedStaysClosed == Spec => CloseOnce
  <1>1. IInv /\ [Next]_vars =>
           [\A o \in Op : ops[o].status \in Terminal =>
               ops'[o].status \in {ops[o].status, "absent"}]_vars
    BY NextKeeps DEF CloseStep
  <1> QED BY <1>1, OperationsInvariant, PTL DEF Spec, CloseOnce

(***************************************************************************)
(* The plans of agents.                                                    *)
(***************************************************************************)
PlanRow   == [state : {"new", "copied", "row", "gone"}, expires : Nat]
AskRow    == [pc : {"new", "checks", "inserts", "done"}, key : Key \cup {""}, plan : PlanId \cup {""}]
DeployRow == [status : {"absent", "queued", "running"} \cup Ended, key : Key \cup {""},
              plan : PlanId \cup {""}, lease : BOOLEAN, owner : PlanWorker \cup {""}, at : Nat]
HandRow   == [pc : {"rest", "validate", "pack", "start", "delete", "clear", "dead"},
              op : Deploy \cup {NoDeploy}, todo : SUBSET (SourceFile \cup PlanId), got : SUBSET SourceFile]
MadeRow   == [op : Deploy, key : Key, plan : PlanId, files : SUBSET SourceFile]

PlanTypes ==
    /\ clock \in Nat /\ clock <= MaxClock
    /\ plans \in [PlanId -> PlanRow] /\ shot \in [PlanId -> SUBSET SourceFile]
    /\ \A p \in PlanId : plans[p].expires <= clock + PlanTtl
    /\ asks \in [Request -> AskRow] /\ deploys \in [Deploy -> DeployRow]
    /\ hand \in [PlanWorker -> HandRow] /\ made \subseteq MadeRow
    /\ loss \in [n : Nat, lapsed : BOOLEAN]

Lapsed     == loss.lapsed = TRUE
Recorded(o) == deploys[o].status # "absent"
Listed(p)  == plans[p].state \in {"row", "gone"}
Expired(p) == clock > plans[p].expires
Works(w)   == hand[w].pc \in {"validate", "pack", "start"}
Sweeps(w)  == hand[w].pc \in {"delete", "clear"}

(* A snapshot is whole until its plan has expired. *)
PlanOk(p) ==
    plans[p].state # "new" => shot[p] = SourceFile \/ (Listed(p) /\ Expired(p))

(* Who asks, or is deployed, names a plan that was inserted, not long before *)
(* the deployment.                                                          *)
AskOk(r) ==
    /\ asks[r].pc \in {"checks", "inserts"} => asks[r].key \in Key /\ asks[r].plan \in PlanId
    /\ asks[r].pc = "inserts" => Listed(asks[r].plan)
DeployOk(o) == Recorded(o) =>
    /\ deploys[o].key \in Key /\ deploys[o].plan \in PlanId /\ Listed(deploys[o].plan)
    /\ plans[deploys[o].plan].expires <= deploys[o].at + PlanTtl /\ deploys[o].at <= clock
OneForKey == \A o, q \in Deploy :
    Recorded(o) /\ Recorded(q) /\ deploys[o].key = deploys[q].key => o = q

(* A sweeper holds plans that have expired. *)
SweepOk(w) == Sweeps(w) =>
    /\ hand[w].op = NoDeploy
    /\ \A p \in hand[w].todo : p \in PlanId /\ Listed(p) /\ Expired(p)

(* A worker has the row of its deployment, and it runs unless a lease has   *)
(* lapsed.                                                                  *)
Runs(o, w) == deploys[o].status = "running" /\ deploys[o].lease = TRUE /\ deploys[o].owner = w
WorkOk(w) ==
    /\ Works(w) => /\ hand[w].op \in Deploy /\ Recorded(hand[w].op)
                   /\ Lapsed \/ Runs(hand[w].op, w)
    /\ ~Works(w) => hand[w].op = NoDeploy

(* While a worker packs, nobody takes the snapshot away, what it has and    *)
(* has not read yet is the whole of it, and no other deployment was made of *)
(* this request.                                                            *)
Untaken(p) == shot[p] = SourceFile /\ \A v \in PlanWorker : Sweeps(v) => p \notin hand[v].todo
Other(m, o) == m.key = deploys[o].key /\ m.plan = deploys[o].plan /\ m.op # o
PackOk(w) == hand[w].pc = "pack" =>
    /\ Lapsed \/ (Untaken(deploys[hand[w].op].plan) /\ hand[w].got \cup hand[w].todo = SourceFile)
    /\ \A m \in made : ~Other(m, hand[w].op)
HandOk(w) == SweepOk(w) /\ WorkOk(w) /\ PackOk(w)

(* What was made keeps its row until its plan has expired. *)
MadeOk(m) ==
    /\ Listed(m.plan)
    /\ \/ Recorded(m.op) /\ deploys[m.op].key = m.key /\ deploys[m.op].plan = m.plan
       \/ Expired(m.plan)

PlansInv ==
    /\ PlanTypes /\ OneForKey /\ DeployedIsPlanned /\ DeployedOnce
    /\ \A p \in PlanId : PlanOk(p)
    /\ \A r \in Request : AskOk(r)
    /\ \A o \in Deploy : DeployOk(o)
    /\ \A w \in PlanWorker : HandOk(w)
    /\ \A m \in made : MadeOk(m)

----------------------------------------------------------------------------
(* What no step undoes: time passes, an inserted plan keeps its date.       *)
GoesOn ==
    /\ clock <= clock' /\ (Lapsed => Lapsed')
    /\ \A p \in PlanId : Listed(p) => Listed(p)' /\ plans'[p].expires = plans[p].expires

(* A row that is there after the step was there before it, of the same      *)
(* request; and one that was there still is.                                *)
NotNew(o) == Recorded(o)' =>
    /\ Recorded(o) /\ deploys'[o].key = deploys[o].key /\ deploys'[o].plan = deploys[o].plan
    /\ deploys[o].at <= deploys'[o].at /\ deploys'[o].at <= clock'
NotGone(o) == Recorded(o) => Recorded(o)'

LEMMA ExpiredStays ==
    ASSUME PlanTypes, PlanTypes', GoesOn, NEW p \in PlanId, Listed(p), Expired(p)
    PROVE  Expired(p)'
BY DEF PlanTypes, GoesOn, PlanRow, Expired

LEMMA AskStays ==
    ASSUME PlansInv, PlanTypes', GoesOn, NEW r \in Request, asks'[r] = asks[r]
    PROVE  AskOk(r)'
BY DEF PlansInv, GoesOn, AskOk, Listed

LEMMA RowStays ==
    ASSUME PlansInv, PlanTypes', GoesOn, NEW o \in Deploy, NotNew(o)
    PROVE  DeployOk(o)'
<1> SUFFICES ASSUME Recorded(o)' PROVE DeployOk(o)'
    BY DEF DeployOk
<1>1. /\ Recorded(o) /\ deploys'[o].key = deploys[o].key /\ deploys'[o].plan = deploys[o].plan
      /\ deploys[o].at <= deploys'[o].at /\ deploys'[o].at <= clock'
  BY DEF NotNew
<1>2. PICK p \in PlanId : p = deploys[o].plan
  BY <1>1 DEF PlansInv, DeployOk
<1>3. deploys[o].key \in Key /\ Listed(p) /\ plans[p].expires <= deploys[o].at + PlanTtl
  BY <1>1, <1>2 DEF PlansInv, DeployOk
<1>4. Listed(p)' /\ plans'[p].expires = plans[p].expires
  BY <1>3 DEF GoesOn
<1>5. deploys[o].at \in Nat /\ deploys'[o].at \in Nat /\ plans[p].expires \in Nat
  BY DEF PlansInv, PlanTypes, DeployRow, PlanRow
<1>6. plans[p].expires <= deploys'[o].at + PlanTtl
  BY <1>1, <1>3, <1>5, PlanAssumption
<1> QED BY <1>1, <1>2, <1>3, <1>4, <1>6 DEF DeployOk

LEMMA KeysStay ==
    ASSUME OneForKey, \A o \in Deploy : NotNew(o)
    PROVE  OneForKey'
  BY DEF OneForKey, NotNew

LEMMA MadeStays ==
    ASSUME PlansInv, PlanTypes', GoesOn, NEW m \in made, NotNew(m.op), NotGone(m.op) \/ Expired(m.plan)'
    PROVE  MadeOk(m)'
BY ExpiredStays DEF PlansInv, PlanTypes, MadeRow, MadeOk, GoesOn, NotNew, NotGone

(* A worker that does not move.                                             *)
LEMMA HandStays ==
    ASSUME PlansInv, PlanTypes', GoesOn, NEW w \in PlanWorker, hand'[w] = hand[w],
           Works(w) => NotNew(hand[w].op) /\ NotGone(hand[w].op),
           Works(w) /\ ~Lapsed' /\ Runs(hand[w].op, w) => Runs(hand[w].op, w)',
           hand[w].pc = "pack" => \A p \in PlanId : Untaken(p) /\ p = deploys[hand[w].op].plan /\ ~Lapsed' => Untaken(p)',
           hand[w].pc = "pack" => \A m \in made' \ made : ~Other(m, hand[w].op)
    PROVE  HandOk(w)'
<1>1. HandOk(w) /\ Sweeps(w)' = Sweeps(w) /\ Works(w)' = Works(w)
  BY DEF PlansInv, Sweeps, Works
<1>2. SweepOk(w)'
  BY ExpiredStays, <1>1 DEF PlansInv, GoesOn, HandOk, SweepOk, Sweeps
<1>3. WorkOk(w)'
  BY <1>1 DEF HandOk, WorkOk, NotGone, GoesOn, Works, Recorded, Runs
<1>4. PackOk(w)'
  BY <1>1 DEF PackOk, Works, HandOk, WorkOk, NotGone, NotNew, PlansInv, DeployOk, Other, GoesOn,
         Untaken
<1> QED BY <1>2, <1>3, <1>4 DEF HandOk

LEMMA Undated ==
    ASSUME PlanTypes, UNCHANGED <<clock, plans>>, Lapsed => Lapsed'
    PROVE  GoesOn /\ \A p \in PlanId : (shot'[p] = shot[p] /\ PlanOk(p) => PlanOk(p)')
BY DEF PlanTypes, GoesOn, Listed, PlanOk, Expired

LEMMA RowsStay ==
    ASSUME PlansInv, UNCHANGED <<clock, deploys>>, NEW o \in Deploy
    PROVE  NotNew(o) /\ NotGone(o)
<1>1. deploys[o].at \in Nat
  BY DEF PlansInv, PlanTypes, DeployRow
<1>2. Recorded(o) => deploys[o].at <= clock
  BY DEF PlansInv, DeployOk
<1> QED BY <1>1, <1>2 DEF NotNew, NotGone, Recorded

(* A row that changes is still of the same request.                         *)
LEMMA RowMoves ==
    ASSUME PlansInv, NEW o \in Deploy, NEW d \in DeployRow, deploys' = [deploys EXCEPT ![o] = d],
           Recorded(o), d.status # "absent", d.key = deploys[o].key, d.plan = deploys[o].plan,
           d.at \in {deploys[o].at, clock}, UNCHANGED clock
    PROVE  /\ deploys' \in [Deploy -> DeployRow] /\ deploys'[o] = d
           /\ \A q \in Deploy : NotNew(q) /\ NotGone(q) /\ (q # o => deploys'[q] = deploys[q])
<1>1. deploys' \in [Deploy -> DeployRow] /\ deploys'[o] = d
      /\ \A q \in Deploy : q # o => deploys'[q] = deploys[q]
  BY DEF PlansInv, PlanTypes
<1>2. clock \in Nat /\ \A q \in Deploy : deploys[q].at \in Nat /\ (Recorded(q) => deploys[q].at <= clock)
  BY DEF PlansInv, PlanTypes, DeployRow, DeployOk
<1>3. ASSUME NEW q \in Deploy PROVE NotNew(q) /\ NotGone(q)
  BY <1>1, <1>2 DEF NotNew, NotGone, Recorded
<1> QED BY <1>1, <1>3

(* The ways a row changes. *)
LEMMA RowShapes ==
    ASSUME PlanTypes, NEW o \in Deploy, Recorded(o)
    PROVE  /\ \A w \in PlanWorker :
                LET d == [deploys[o] EXCEPT !.status = "running", !.owner = w, !.lease = TRUE, !.at = clock]
                IN /\ d \in DeployRow /\ d.status = "running" /\ d.lease = TRUE /\ d.owner = w
                   /\ d.key = deploys[o].key /\ d.plan = deploys[o].plan /\ d.at = clock
           /\ \A s \in Ended :
                LET d == [deploys[o] EXCEPT !.status = s, !.at = clock]
                IN /\ d \in DeployRow /\ d.status # "absent" /\ d.at = clock
                   /\ d.key = deploys[o].key /\ d.plan = deploys[o].plan
           /\ LET d == [deploys[o] EXCEPT !.lease = FALSE]
              IN /\ d \in DeployRow /\ d.status = deploys[o].status /\ d.at = deploys[o].at
                 /\ d.key = deploys[o].key /\ d.plan = deploys[o].plan
BY DEF PlanTypes, DeployRow, Ended

(* _finish closes the deployment that a worker runs, or leaves it alone.    *)
LEMMA ClosesRow ==
    ASSUME PlansInv, NEW o \in Deploy, Recorded(o), NEW s \in Ended, Closes(o, s), UNCHANGED clock
    PROVE  /\ deploys' \in [Deploy -> DeployRow]
           /\ \A q \in Deploy : NotNew(q) /\ NotGone(q) /\ (q # o => deploys'[q] = deploys[q])
<1>1. CASE deploys[o].status # "running"
  BY <1>1, RowsStay DEF Closes, PlansInv, PlanTypes
<1>2. CASE deploys[o].status = "running"
  <2> DEFINE d == [deploys[o] EXCEPT !.status = s, !.at = clock]
  <2>1. /\ d \in DeployRow /\ d.status # "absent" /\ d.at = clock
        /\ d.key = deploys[o].key /\ d.plan = deploys[o].plan
    BY RowShapes DEF PlansInv
  <2>2. deploys' = [deploys EXCEPT ![o] = d]
    BY <1>2 DEF Closes
  <2> HIDE DEF d
  <2> QED BY <2>1, <2>2, RowMoves
<1> QED BY <1>1, <1>2

(* A worker moves; what it does to the rows leaves the deployments of the   *)
(* other workers running, and it does not begin to sweep.                   *)
LEMMA HandMoves ==
    ASSUME PlansInv, NEW w \in PlanWorker, NEW h \in HandRow, hand' = [hand EXCEPT ![w] = h],
           deploys' \in [Deploy -> DeployRow], \A o \in Deploy : NotNew(o) /\ NotGone(o),
           \A v \in PlanWorker : v # w /\ Works(v) /\ ~Lapsed /\ Runs(hand[v].op, v) => Runs(hand[v].op, v)',
           UNCHANGED <<clock, plans, shot, asks, made>>,
           loss' \in [n : Nat, lapsed : BOOLEAN], loss'.lapsed = loss.lapsed,
           \A p \in PlanId : h.pc \in {"delete", "clear"} /\ p \in h.todo => Sweeps(w) /\ p \in hand[w].todo,
           HandOk(w)'
    PROVE  PlansInv'
BY Undated, AskStays, RowStays, KeysStay, MadeStays, HandStays DEF PlansInv, PlanTypes, Lapsed,
       MadeRow, Untaken, Sweeps, HandOk, WorkOk, DeployedIsPlanned, DeployedOnce

LEMMA RestIsOk ==
    ASSUME NEW w \in PlanWorker, hand'[w].pc \in {"rest", "dead"}, hand'[w].op = NoDeploy
    PROVE  HandOk(w)'
  BY DEF HandOk, SweepOk, WorkOk, PackOk, Sweeps, Works

LEMMA RestShapes ==
    /\ Rest \in HandRow /\ Rest.pc = "rest" /\ Rest.op = NoDeploy /\ Rest.todo = {}
    /\ \A h \in HandRow, l \in {"start", "clear"} :
          LET g == [h EXCEPT !.pc = l]
          IN g \in HandRow /\ g.pc = l /\ g.op = h.op /\ g.todo = h.todo /\ g.got = h.got
    /\ LET h == [Rest EXCEPT !.pc = "dead"]
       IN h \in HandRow /\ h.pc = "dead" /\ h.op = NoDeploy /\ h.todo = {}
    /\ \A o \in Deploy : LET h == [Rest EXCEPT !.pc = "validate", !.op = o]
                         IN h \in HandRow /\ h.pc = "validate" /\ h.op = o
  BY DEF Rest, HandRow, NoDeploy

(* A worker that rests holds nothing, one that works has its row.           *)
LEMMA WorkerHas ==
    ASSUME PlansInv, NEW w \in PlanWorker
    PROVE  /\ hand[w] \in HandRow
           /\ hand[w] = Rest => ~Works(w) /\ ~Sweeps(w)
           /\ Works(w) => /\ hand[w].op \in Deploy /\ Recorded(hand[w].op)
                          /\ deploys[hand[w].op].plan \in PlanId
                          /\ Lapsed \/ Runs(hand[w].op, w)
  BY DEF PlansInv, PlanTypes, HandOk, WorkOk, DeployOk, Works, Sweeps, Rest

LEMMA ClaimsInv ==
    ASSUME PlansInv, NEW w \in PlanWorker, NEW o \in Deploy, ClaimsDeploy(w, o)
    PROVE  PlansInv'
<1> DEFINE d == [deploys[o] EXCEPT !.status = "running", !.owner = w, !.lease = TRUE, !.at = clock]
           h == [Rest EXCEPT !.pc = "validate", !.op = o]
<1>1. Recorded(o)
  BY DEF ClaimsDeploy, Recorded
<1>2. /\ d \in DeployRow /\ d.status = "running" /\ d.lease = TRUE /\ d.owner = w
      /\ d.key = deploys[o].key /\ d.plan = deploys[o].plan /\ d.at = clock
  BY <1>1, RowShapes DEF PlansInv
<1>3. h \in HandRow /\ h.pc = "validate" /\ h.op = o
  BY RestShapes
<1>4. /\ deploys' = [deploys EXCEPT ![o] = d] /\ hand' = [hand EXCEPT ![w] = h]
      /\ deploys[o].status = "queued" /\ UNCHANGED <<clock, plans, shot, asks, made, loss>>
  BY DEF ClaimsDeploy
<1> HIDE DEF d, h
<1>5. /\ deploys' \in [Deploy -> DeployRow] /\ deploys'[o] = d
      /\ \A q \in Deploy : NotNew(q) /\ NotGone(q) /\ (q # o => deploys'[q] = deploys[q])
  BY <1>1, <1>2, <1>4, RowMoves
<1>6. ASSUME NEW v \in PlanWorker, Works(v), Runs(hand[v].op, v)
      PROVE  Runs(hand[v].op, v)'
  <2>1. hand[v].op \in Deploy /\ hand[v].op # o
    BY <1>4, <1>6, WorkerHas DEF Runs
  <2>2. v # w
    BY <1>6, WorkerHas DEF ClaimsDeploy
  <2>3. hand'[v] = hand[v]
    BY <1>4, <2>2 DEF PlansInv, PlanTypes
  <2> QED BY <1>5, <1>6, <2>1, <2>3 DEF Runs
<1>7. hand'[w] = h
  BY <1>4 DEF PlansInv, PlanTypes
<1>8. HandOk(w)'
  BY <1>2, <1>3, <1>5, <1>7 DEF HandOk, SweepOk, WorkOk, PackOk, Sweeps, Works, Runs, Recorded
<1>9. loss' \in [n : Nat, lapsed : BOOLEAN] /\ loss'.lapsed = loss.lapsed
  BY <1>4 DEF PlansInv, PlanTypes
<1> QED BY <1>3, <1>4, <1>5, <1>6, <1>8, <1>9, HandMoves

(* A worker closes its deployment and rests. *)
LEMMA EndsWork ==
    ASSUME PlansInv, NEW w \in PlanWorker, Works(w), NEW s \in Ended, Closes(hand[w].op, s),
           hand' = [hand EXCEPT ![w] = Rest], UNCHANGED <<clock, plans, shot, asks, made, loss>>
    PROVE  PlansInv'
<1>1. PICK o \in Deploy : o = hand[w].op /\ Recorded(o)
  BY WorkerHas
<1>2. /\ deploys' \in [Deploy -> DeployRow]
      /\ \A q \in Deploy : NotNew(q) /\ NotGone(q) /\ (q # o => deploys'[q] = deploys[q])
  BY <1>1, ClosesRow
<1>3. ASSUME NEW v \in PlanWorker, v # w, Works(v), ~Lapsed, Runs(hand[v].op, v)
      PROVE  Runs(hand[v].op, v)'
  BY <1>1, <1>3, WorkerHas, <1>2 DEF Runs, PlansInv, PlanTypes
<1>4. HandOk(w)'
  BY RestShapes, RestIsOk DEF PlansInv, PlanTypes
<1>5. loss' \in [n : Nat, lapsed : BOOLEAN] /\ loss'.lapsed = loss.lapsed
  BY DEF PlansInv, PlanTypes
<1> QED BY <1>2, <1>3, <1>4, <1>5, RestShapes, HandMoves

LEMMA EndsInv ==
    ASSUME PlansInv, NEW w \in PlanWorker, EndsDeploy(w)
    PROVE  PlansInv'
BY EndsWork DEF EndsDeploy, Ended, Works

(* A plan that may be executed is there whole, nobody sweeps it, and what   *)
(* was made of its request was made by this deployment.                     *)
LEMMA FreshIsWhole ==
    ASSUME PlansInv, NEW o \in Deploy, Recorded(o), MayExecute(deploys[o].plan)
    PROVE  Untaken(deploys[o].plan) /\ \A m \in made : ~Other(m, o)
<1>1. PICK p \in PlanId : p = deploys[o].plan
  BY DEF PlansInv, DeployOk
<1>2. plans[p].state = "row" /\ ~Expired(p)
  BY <1>1 DEF PlansInv, PlanTypes, PlanRow, MayExecute, Unexpired, Expired
<1>3. shot[p] = SourceFile
  BY <1>2 DEF PlansInv, PlanOk
<1>4. \A v \in PlanWorker : Sweeps(v) => p \notin hand[v].todo
  BY <1>2 DEF PlansInv, HandOk, SweepOk
<1>5. ASSUME NEW m \in made, Other(m, o) PROVE FALSE
  BY <1>1, <1>5, <1>2 DEF PlansInv, PlanTypes, MadeRow, Other, MadeOk, OneForKey
<1> QED BY <1>1, <1>3, <1>4, <1>5 DEF Untaken

LEMMA ValidatesInv ==
    ASSUME PlansInv, NEW w \in PlanWorker, ValidatesPlan(w)
    PROVE  PlansInv'
<1>1. Works(w) /\ hand[w].pc = "validate"
  BY DEF ValidatesPlan, Works
<1>2. PICK o \in Deploy : /\ o = hand[w].op /\ Recorded(o) /\ deploys[o].plan \in PlanId
                          /\ Lapsed \/ Runs(o, w)
  BY <1>1, WorkerHas
<1>3. CASE MayExecute(deploys[o].plan) /\ shot[deploys[o].plan] # {}
  <2>1. PICK p \in PlanId : p = deploys[o].plan
    BY <1>2
  <2> DEFINE h == [hand[w] EXCEPT !.pc = "pack", !.todo = shot[p]]
  <2>2. hand' = [hand EXCEPT ![w] = h] /\ UNCHANGED <<deploys, clock, plans, shot, asks, made, loss>>
    BY <1>2, <1>3, <2>1 DEF ValidatesPlan
  <2>3. Untaken(p) /\ \A m \in made : ~Other(m, o)
    BY <1>2, <1>3, <2>1, FreshIsWhole
  <2>4. /\ h \in HandRow /\ h.pc = "pack" /\ h.op = o /\ h.todo = SourceFile
        /\ h.got \subseteq SourceFile
    BY <1>2, <2>3, WorkerHas DEF HandRow, Untaken
  <2> HIDE DEF h
  <2>5. hand'[w] = h /\ \A v \in PlanWorker : v # w => hand'[v] = hand[v]
    BY <2>2 DEF PlansInv, PlanTypes
  <2>6. Untaken(p)'
    BY <2>2, <2>3, <2>4, <2>5 DEF Untaken, Sweeps
  <2>7. HandOk(w)'
    BY <2>4, <2>5, <1>2, <2>2, <2>1, <2>3, <2>6 DEF SweepOk, Sweeps, WorkOk, Works, Recorded,
           Runs, Lapsed, PackOk, Other, Untaken, HandOk
  <2>8. \A q \in Deploy : NotNew(q) /\ NotGone(q)
    BY <2>2, RowsStay
  <2>9. \A v \in PlanWorker : Runs(hand[v].op, v) => Runs(hand[v].op, v)' \/ v = w
    BY <2>2, <2>5 DEF Runs
  <2>10. deploys' \in [Deploy -> DeployRow] /\ loss' \in [n : Nat, lapsed : BOOLEAN] /\ loss'.lapsed = loss.lapsed
    BY <2>2 DEF PlansInv, PlanTypes
  <2> QED BY <2>2, <2>4, <2>7, <2>8, <2>9, <2>10, HandMoves
<1>4. CASE ~(MayExecute(deploys[o].plan) /\ shot[deploys[o].plan] # {})
  BY <1>2, <1>4, <1>1, EndsWork DEF ValidatesPlan, Ended
<1> QED BY <1>3, <1>4

(* A file is read while the snapshot is whole. *)
LEMMA PacksInv ==
    ASSUME PlansInv, NEW w \in PlanWorker, NEW f \in SourceFile, PacksFile(w, f)
    PROVE  PlansInv'
<1>1. Works(w) /\ hand[w].pc = "pack" /\ f \in hand[w].todo
  BY DEF PacksFile, Works
<1>2. PICK o \in Deploy : /\ o = hand[w].op /\ Recorded(o) /\ deploys[o].plan \in PlanId
                          /\ Lapsed \/ Runs(o, w)
  BY <1>1, WorkerHas
<1>3. PICK p \in PlanId : p = deploys[o].plan
  BY <1>2
<1> DEFINE h == [hand[w] EXCEPT !.todo = @ \ {f}, !.got = @ \cup ({f} \cap shot[p])]
<1>4. hand' = [hand EXCEPT ![w] = h] /\ UNCHANGED <<deploys, clock, plans, shot, asks, made, loss>>
  BY <1>2, <1>3 DEF PacksFile
<1>5. /\ h \in HandRow /\ h.pc = "pack" /\ h.op = o
      /\ h.todo = hand[w].todo \ {f} /\ h.got = hand[w].got \cup ({f} \cap shot[p])
  BY <1>1, <1>2, WorkerHas DEF HandRow
<1> HIDE DEF h
<1>6. hand'[w] = h /\ \A v \in PlanWorker : v # w => hand'[v] = hand[v]
  BY <1>4 DEF PlansInv, PlanTypes
<1>7. PackOk(w)
  BY DEF PlansInv, HandOk
<1>8. Untaken(p) => Untaken(p)'
  BY <1>4, <1>5, <1>6 DEF Untaken, Sweeps
<1>9. HandOk(w)'
  BY <1>5, <1>6, <1>2, <1>4, <1>1, <1>3, <1>7, <1>8 DEF SweepOk, Sweeps, WorkOk, Works, Recorded,
         Runs, Lapsed, PackOk, Untaken, Other, HandOk
<1>10. \A q \in Deploy : NotNew(q) /\ NotGone(q)
  BY <1>4, RowsStay
<1>11. \A v \in PlanWorker : v # w /\ Runs(hand[v].op, v) => Runs(hand[v].op, v)'
  BY <1>4, <1>6 DEF Runs
<1>12. deploys' \in [Deploy -> DeployRow] /\ loss' \in [n : Nat, lapsed : BOOLEAN] /\ loss'.lapsed = loss.lapsed
  BY <1>4 DEF PlansInv, PlanTypes
<1> QED BY <1>4, <1>5, <1>9, <1>10, <1>11, <1>12, HandMoves

(* Only a deployment that no living worker keeps a lease for is taken for   *)
(* interrupted.                                                             *)
LEMMA RecoversInv ==
    ASSUME PlansInv, NEW w \in PlanWorker, NEW o \in Deploy, Recovers(w, o)
    PROVE  PlansInv'
<1>1. Recorded(o) /\ hand[w] = Rest /\ hand' = [hand EXCEPT ![w] = Rest]
  BY DEF Recovers, Recorded, PlansInv, PlanTypes
<1>2. Closes(o, "interrupted") /\ UNCHANGED <<clock, plans, shot, asks, hand, made, loss>>
  BY DEF Recovers
<1>3. /\ deploys' \in [Deploy -> DeployRow]
      /\ \A q \in Deploy : NotNew(q) /\ NotGone(q) /\ (q # o => deploys'[q] = deploys[q])
  BY <1>1, <1>2, ClosesRow DEF Ended
<1>4. ASSUME NEW v \in PlanWorker, Works(v), Runs(hand[v].op, v)
      PROVE  Runs(hand[v].op, v)'
  BY <1>4, <1>2, <1>3, WorkerHas DEF Recovers, Runs, Works
<1>5. HandOk(w)'
  <2>1. hand'[w] = Rest
    BY <1>1, <1>2
  <2> QED BY <2>1, RestShapes, RestIsOk
<1>6. loss' \in [n : Nat, lapsed : BOOLEAN] /\ loss'.lapsed = loss.lapsed
  BY <1>2 DEF PlansInv, PlanTypes
<1> QED BY <1>1, <1>2, <1>3, <1>4, <1>5, <1>6, RestShapes, HandMoves

LEMMA WorkerDiesInv ==
    ASSUME PlansInv, NEW w \in PlanWorker, WorkerDies(w)
    PROVE  PlansInv'
<1> DEFINE h == [Rest EXCEPT !.pc = "dead"]
<1>1. h \in HandRow /\ h.pc = "dead" /\ h.op = NoDeploy /\ h.todo = {}
  BY RestShapes
<1>2. hand' = [hand EXCEPT ![w] = h] /\ UNCHANGED <<deploys, clock, plans, shot, asks, made>>
      /\ loss' = [loss EXCEPT !.n = @ + 1]
  BY DEF WorkerDies
<1> HIDE DEF h
<1>3. hand'[w] = h /\ \A v \in PlanWorker : v # w => hand'[v] = hand[v]
  BY <1>2 DEF PlansInv, PlanTypes
<1>4. HandOk(w)'
  BY <1>1, <1>3, RestIsOk
<1>5. \A q \in Deploy : NotNew(q) /\ NotGone(q)
  BY <1>2, RowsStay
<1>6. \A v \in PlanWorker : v # w /\ Runs(hand[v].op, v) => Runs(hand[v].op, v)'
  BY <1>2, <1>3 DEF Runs
<1>7. deploys' \in [Deploy -> DeployRow] /\ loss' \in [n : Nat, lapsed : BOOLEAN] /\ loss'.lapsed = loss.lapsed
  BY <1>2 DEF PlansInv, PlanTypes
<1> QED BY <1>1, <1>2, <1>4, <1>5, <1>6, <1>7, HandMoves

LEMMA ImportsInv ==
    ASSUME PlansInv, NEW w \in PlanWorker, ImportsPacked(w)
    PROVE  PlansInv'
<1>1. Works(w) /\ hand[w].pc = "pack" /\ hand[w].todo = {}
  BY DEF ImportsPacked, Works
<1>2. PICK o \in Deploy : /\ o = hand[w].op /\ Recorded(o) /\ deploys[o].plan \in PlanId
                          /\ Lapsed \/ Runs(o, w)
  BY <1>1, WorkerHas
<1> DEFINE new == [op |-> o, key |-> deploys[o].key, plan |-> deploys[o].plan, files |-> hand[w].got]
           h == [hand[w] EXCEPT !.pc = "start"]
<1>3. CASE Closes(hand[w].op, "failed") /\ hand' = [hand EXCEPT ![w] = Rest] /\ UNCHANGED made
  BY <1>1, <1>3, EndsWork DEF ImportsPacked, Ended
<1>4. CASE made' = made \cup {new} /\ hand' = [hand EXCEPT ![w] = h] /\ UNCHANGED deploys
  <2>1. UNCHANGED <<clock, plans, shot, asks, loss>>
    BY DEF ImportsPacked
  <2>2. h \in HandRow /\ h.pc = "start" /\ h.op = o /\ h.todo = {}
    BY <1>1, <1>2, RestShapes, WorkerHas
  <2>3. PICK m \in MadeRow : /\ m = new /\ m.op = o /\ m.key = deploys[o].key
                            /\ m.plan = deploys[o].plan /\ m.files = hand[w].got
    <3>1. new \in MadeRow
      BY <1>2, WorkerHas DEF MadeRow, HandRow, PlansInv, DeployOk
    <3> QED BY <3>1
  <2>made. made' = made \cup {m}
    BY <1>4, <2>3
  <2>4. m.files = SourceFile \/ Lapsed
    BY <1>1, <1>2, <2>3 DEF PlansInv, HandOk, PackOk
  <2>5. \A n \in made : n.key = m.key /\ n.plan = m.plan => n.op = m.op
    BY <1>1, <1>2, <2>3 DEF PlansInv, HandOk, PackOk, Other
  <2>6. ASSUME NEW v \in PlanWorker, Works(v) PROVE ~Other(m, hand[v].op)
    BY <2>6, WorkerHas, <1>2, <2>3 DEF PlansInv, OneForKey, Other
  <2> HIDE DEF h, new
  <2>7. hand'[w] = h /\ \A v \in PlanWorker : v # w => hand'[v] = hand[v]
    BY <1>4 DEF PlansInv, PlanTypes
  <2>8. PlanTypes'
    BY <1>4, <2>made, <2>1, <2>2, <2>3 DEF PlansInv, PlanTypes
  <2>9. GoesOn /\ \A p \in PlanId : PlanOk(p)'
    BY <2>1, Undated DEF PlansInv, Lapsed
  <2>10. \A q \in Deploy : NotNew(q) /\ NotGone(q)
    BY <1>4, <2>1, RowsStay
  <2>11. (\A r \in Request : AskOk(r)') /\ (\A q \in Deploy : DeployOk(q)') /\ OneForKey'
    BY <2>1, <2>8, <2>9, <2>10, AskStays, RowStays, KeysStay DEF PlansInv
  <2>12. \A n \in made' : MadeOk(n)'
    BY <2>8, <2>9, <2>10, MadeStays, <1>2, <2>3, <1>4, <2>1, <2>made DEF PlansInv, PlanTypes,
           MadeRow, MadeOk, DeployOk, Listed, Recorded, Expired
  <2>13. \A p \in PlanId : Untaken(p) => Untaken(p)'
    BY <1>1, <2>1, <2>2, <2>7 DEF Untaken, Sweeps
  <2>14. ASSUME NEW v \in PlanWorker PROVE HandOk(v)'
    <3>1. CASE v # w
      BY <2>7, <3>1, WorkerHas, <1>4, <2>made, <2>6, <2>8, <2>9, <2>10, <2>13, HandStays
         DEF Works, Runs
    <3>2. CASE v = w
      BY <1>2, <1>4, <2>made, <2>1, <2>2, <2>7, <3>2
      DEF HandOk, SweepOk, WorkOk, PackOk, Sweeps, Works, Recorded, Runs, Lapsed
    <3> QED BY <3>1, <3>2
  <2>15. DeployedIsPlanned'
    BY <2>made, <2>1, <2>4 DEF PlansInv, DeployedIsPlanned, Lapsed
  <2>16. DeployedOnce'
    BY <2>made, <2>5 DEF PlansInv, DeployedOnce
  <2> QED BY <2>8, <2>9, <2>11, <2>12, <2>14, <2>15, <2>16 DEF PlansInv
<1> QED BY <1>2, <1>3, <1>4 DEF ImportsPacked

(* A lease lapses under a worker: from here on it may be interrupted.       *)
LEMMA LapsesInv ==
    ASSUME PlansInv, NEW o \in Deploy, LeaseLapses(o)
    PROVE  PlansInv'
<1> DEFINE d == [deploys[o] EXCEPT !.lease = FALSE]
<1>1. Recorded(o)
  BY DEF LeaseLapses, Recorded
<1>2. /\ d \in DeployRow /\ d.status = deploys[o].status /\ d.at = deploys[o].at
      /\ d.key = deploys[o].key /\ d.plan = deploys[o].plan
  BY <1>1, RowShapes DEF PlansInv
<1>3. /\ deploys' = [deploys EXCEPT ![o] = d] /\ loss' = [n |-> loss.n + 1, lapsed |-> TRUE]
      /\ UNCHANGED <<clock, plans, shot, asks, hand, made>>
  BY DEF LeaseLapses
<1> HIDE DEF d
<1>4. deploys' \in [Deploy -> DeployRow] /\ \A q \in Deploy : NotNew(q) /\ NotGone(q)
  BY <1>1, <1>2, <1>3, RowMoves DEF Recorded
<1>5. PlanTypes' /\ Lapsed'
  BY <1>3, <1>4 DEF PlansInv, PlanTypes, Lapsed
<1>6. GoesOn /\ \A p \in PlanId : PlanOk(p)'
  BY <1>3, <1>5, Undated DEF PlansInv
<1>7. (\A r \in Request : AskOk(r)') /\ (\A q \in Deploy : DeployOk(q)') /\ OneForKey'
  BY <1>3, <1>4, <1>5, <1>6, AskStays, RowStays, KeysStay DEF PlansInv
<1>8. \A m \in made' : MadeOk(m)'
  BY <1>3, <1>4, <1>5, <1>6, MadeStays DEF PlansInv, PlanTypes, MadeRow
<1>9. ASSUME NEW w \in PlanWorker PROVE HandOk(w)'
  BY WorkerHas, <1>3, <1>4, <1>5, <1>6, HandStays
<1>10. DeployedIsPlanned' /\ DeployedOnce'
  BY <1>3, <1>5 DEF PlansInv, DeployedIsPlanned, DeployedOnce, Lapsed
<1> QED BY <1>5, <1>6, <1>7, <1>8, <1>9, <1>10 DEF PlansInv

(* An operation is forgotten when its plan has expired, and a request for   *)
(* it cannot be executed any more.                                          *)
LEMMA SweepsInv ==
    ASSUME PlansInv, NEW w \in PlanWorker, NEW o \in Deploy, SweepsDeploy(w, o)
    PROVE  PlansInv'
<1>1. /\ deploys' = [deploys EXCEPT ![o] = NoRow] /\ Forgettable(o)
      /\ \A v \in PlanWorker : hand[v].op # o
      /\ UNCHANGED <<clock, plans, shot, asks, hand, made, loss>>
  BY DEF SweepsDeploy
<1>2. NoRow \in DeployRow /\ NoRow.status = "absent"
  BY DEF NoRow, DeployRow
<1>3. /\ deploys' \in [Deploy -> DeployRow] /\ deploys'[o] = NoRow
      /\ \A q \in Deploy : q # o => deploys'[q] = deploys[q]
  BY <1>1, <1>2 DEF PlansInv, PlanTypes
<1>4. \A q \in Deploy : NotNew(q) /\ (q # o => NotGone(q))
  <2>1. \A q \in Deploy : deploys[q].at \in Nat /\ (Recorded(q) => deploys[q].at <= clock)
    BY DEF PlansInv, PlanTypes, DeployRow, DeployOk
  <2> QED BY <1>1, <1>2, <1>3, <2>1 DEF NotNew, NotGone, Recorded
<1>5. PlanTypes'
  BY <1>1, <1>3 DEF PlansInv, PlanTypes
<1>6. Lapsed' = Lapsed /\ GoesOn /\ \A p \in PlanId : PlanOk(p)'
  BY <1>1, Undated DEF PlansInv, Lapsed
<1>7. (\A r \in Request : AskOk(r)') /\ (\A q \in Deploy : DeployOk(q)') /\ OneForKey'
  BY <1>1, <1>4, <1>5, <1>6, AskStays, RowStays, KeysStay DEF PlansInv
<1>8. Recorded(o) => Expired(deploys[o].plan)
  <2> SUFFICES ASSUME Recorded(o) PROVE Expired(deploys[o].plan)
      OBVIOUS
  <2>1. PICK p \in PlanId : p = deploys[o].plan /\ plans[p].expires <= deploys[o].at + PlanTtl
    BY DEF PlansInv, DeployOk
  <2>2. clock > deploys[o].at + Retention
    BY <1>1 DEF Forgettable
  <2>3. clock \in Nat /\ deploys[o].at \in Nat /\ plans[p].expires \in Nat
    BY DEF PlansInv, PlanTypes, DeployRow, PlanRow
  <2> QED BY <2>1, <2>2, <2>3, PlanAssumption DEF Expired
<1>9. ASSUME NEW m \in made PROVE MadeOk(m)'
  BY <1>4, <1>8, <1>5, <1>6, ExpiredStays, MadeStays DEF PlansInv, PlanTypes, MadeRow, MadeOk,
         NotGone
<1>10. ASSUME NEW v \in PlanWorker PROVE HandOk(v)'
  BY <1>1, WorkerHas, <1>3, <1>4, <1>5, <1>6, HandStays DEF Runs, Untaken, Sweeps
<1>11. DeployedIsPlanned' /\ DeployedOnce'
  BY <1>1 DEF PlansInv, DeployedIsPlanned, DeployedOnce
<1> QED BY <1>1, <1>5, <1>6, <1>7, <1>9, <1>10, <1>11 DEF PlansInv

(* A plan that a deployment in progress refers to is not selected.          *)
LEMMA SelectsInv ==
    ASSUME PlansInv, NEW w \in PlanWorker, SelectsPlans(w)
    PROVE  PlansInv'
<1> DEFINE old == {p \in PlanId : plans[p].state = "row" /\ clock > plans[p].expires /\ ~Refers(p)}
           h == [Rest EXCEPT !.pc = "delete", !.todo = old]
<1>1. hand[w] = Rest /\ hand' = [hand EXCEPT ![w] = h]
      /\ UNCHANGED <<clock, plans, shot, asks, deploys, made, loss>>
  BY DEF SelectsPlans
<1>2. h \in HandRow /\ h.pc = "delete" /\ h.op = NoDeploy /\ h.todo = old
  BY DEF HandRow, Rest, NoDeploy
<1>3. \A p \in old : p \in PlanId /\ Listed(p) /\ Expired(p) /\ ~Refers(p)
  BY DEF Listed, Expired
<1> HIDE DEF h
<1>4. hand'[w] = h /\ \A v \in PlanWorker : v # w => hand'[v] = hand[v]
  BY <1>1 DEF PlansInv, PlanTypes
<1>5. PlanTypes'
  BY <1>1, <1>2 DEF PlansInv, PlanTypes
<1>6. Lapsed' = Lapsed /\ GoesOn /\ \A p \in PlanId : PlanOk(p)'
  BY <1>1, Undated DEF PlansInv, Lapsed
<1>7. \A q \in Deploy : NotNew(q) /\ NotGone(q)
  BY <1>1, RowsStay
<1>8. (\A r \in Request : AskOk(r)') /\ (\A q \in Deploy : DeployOk(q)') /\ OneForKey'
  BY <1>1, <1>5, <1>6, <1>7, AskStays, RowStays, KeysStay DEF PlansInv
<1>9. \A m \in made' : MadeOk(m)'
  BY <1>1, <1>5, <1>6, <1>7, MadeStays DEF PlansInv, PlanTypes, MadeRow
<1>10. ASSUME NEW v \in PlanWorker PROVE HandOk(v)'
  <2>1. CASE v = w
    BY <1>1, <1>3, <1>2, <1>4, <2>1 DEF Listed, Expired, SweepOk, Sweeps, WorkOk, PackOk, Works,
           HandOk
  <2>2. CASE v # w
    <3>1. hand'[v] = hand[v] /\ (Works(v) => hand[v].op \in Deploy)
      BY <1>4, <2>2, WorkerHas
    <3>2. Runs(hand[v].op, v) => Runs(hand[v].op, v)'
      BY <1>1, <3>1 DEF Runs
    <3>3. ASSUME hand[v].pc = "pack", NEW p \in PlanId, Untaken(p), p = deploys[hand[v].op].plan, ~Lapsed'
          PROVE  Untaken(p)'
      <4>1. Works(v)
        BY <3>3 DEF Works
      <4>2. Refers(p)
        BY <1>6, <3>3, <4>1, WorkerHas DEF Refers, Runs
      <4>3. p \notin old
        BY <1>3, <4>2
      <4> QED BY <1>1, <1>2, <1>4, <3>3, <4>3 DEF Untaken, Sweeps
    <3> QED BY <1>1, <1>5, <1>6, <1>7, <3>1, <3>2, <3>3, HandStays
  <2> QED BY <2>1, <2>2
<1>11. DeployedIsPlanned' /\ DeployedOnce'
  BY <1>1 DEF PlansInv, DeployedIsPlanned, DeployedOnce
<1> QED BY <1>5, <1>6, <1>8, <1>9, <1>10, <1>11 DEF PlansInv

LEMMA DeletesInv ==
    ASSUME PlansInv, NEW w \in PlanWorker, DeletesPlans(w)
    PROVE  PlansInv'
<1> DEFINE h == [hand[w] EXCEPT !.pc = "clear"]
<1>1. /\ hand[w].pc = "delete" /\ hand' = [hand EXCEPT ![w] = h]
      /\ plans' = [p \in PlanId |-> IF p \in hand[w].todo THEN [plans[p] EXCEPT !.state = "gone"] ELSE plans[p]]
      /\ UNCHANGED <<clock, shot, asks, deploys, made, loss>>
  BY DEF DeletesPlans
<1>2. h \in HandRow /\ h.pc = "clear" /\ h.op = hand[w].op /\ h.todo = hand[w].todo
  BY RestShapes, WorkerHas
<1> HIDE DEF h
<1>3. hand'[w] = h /\ \A v \in PlanWorker : v # w => hand'[v] = hand[v]
  BY <1>1 DEF PlansInv, PlanTypes
<1>4. SweepOk(w) /\ Sweeps(w)
  BY <1>1 DEF PlansInv, HandOk, Sweeps
<1>5. ASSUME NEW p \in PlanId
      PROVE  /\ plans'[p] \in PlanRow /\ plans'[p].expires = plans[p].expires
             /\ Listed(p)' = Listed(p) /\ Expired(p)' = Expired(p) /\ PlanOk(p)'
  BY <1>1, <1>4 DEF PlansInv, PlanTypes, SweepOk, PlanRow, Listed, Expired, PlanOk
<1>6. PlanTypes'
  BY <1>1, <1>5, <1>2 DEF PlansInv, PlanTypes
<1>7. GoesOn
  <2>1. clock <= clock' /\ (Lapsed => Lapsed')
    BY <1>1 DEF Lapsed, PlansInv, PlanTypes
  <2>2. ASSUME NEW p \in PlanId, Listed(p)
        PROVE  Listed(p)' /\ plans'[p].expires = plans[p].expires
    BY <1>5, <2>2
  <2> QED BY <2>1, <2>2 DEF GoesOn
<1>8. \A q \in Deploy : NotNew(q) /\ NotGone(q)
  BY <1>1, RowsStay
<1>9. (\A r \in Request : AskOk(r)') /\ (\A q \in Deploy : DeployOk(q)') /\ OneForKey'
  BY <1>1, <1>6, <1>7, <1>8, AskStays, RowStays, KeysStay DEF PlansInv
<1>10. \A m \in made' : MadeOk(m)'
  BY <1>1, <1>6, <1>7, <1>8, MadeStays DEF PlansInv, PlanTypes, MadeRow
<1>11. ASSUME NEW v \in PlanWorker PROVE HandOk(v)'
  <2>1. CASE v = w
    BY <1>2, <1>3, <1>4, <1>5, <2>1 DEF SweepOk, Sweeps, WorkOk, PackOk, Works, HandOk
  <2>2. CASE v # w
    BY <1>3, <2>2, WorkerHas, <1>1, <1>2, <1>4, <1>6, <1>7, <1>8, HandStays DEF Runs, Untaken,
           Sweeps
  <2> QED BY <2>1, <2>2
<1>12. DeployedIsPlanned' /\ DeployedOnce'
  BY <1>1 DEF PlansInv, DeployedIsPlanned, DeployedOnce
<1> QED BY <1>5, <1>6, <1>9, <1>10, <1>11, <1>12 DEF PlansInv

LEMMA ClearsInv ==
    ASSUME PlansInv, NEW w \in PlanWorker, ClearsSnapshot(w)
    PROVE  PlansInv'
<1>1. hand[w].pc = "clear" /\ Sweeps(w) /\ UNCHANGED <<clock, plans, asks, deploys, made, loss>>
  BY DEF ClearsSnapshot, Sweeps
<1>2. \A q \in Deploy : NotNew(q) /\ NotGone(q)
  BY <1>1, RowsStay
<1>3. ASSUME NEW p \in hand[w].todo, NEW f \in shot[p], shot' = [shot EXCEPT ![p] = @ \ {f}], UNCHANGED hand
      PROVE  PlansInv'
  <2>1. p \in PlanId /\ Listed(p) /\ Expired(p)
    BY <1>1 DEF PlansInv, HandOk, SweepOk
  <2>2. PlanTypes'
    BY <1>1, <1>3, <2>1 DEF PlansInv, PlanTypes
  <2>3. GoesOn
    BY <1>1, Undated DEF PlansInv, Lapsed
  <2>4. ASSUME NEW q \in PlanId PROVE PlanOk(q)'
    BY <1>1, <2>1, <1>3 DEF PlanOk, Listed, Expired, PlansInv, PlanTypes
  <2>5. (\A r \in Request : AskOk(r)') /\ (\A q \in Deploy : DeployOk(q)') /\ OneForKey'
    BY <1>1, <1>2, <2>2, <2>3, AskStays, RowStays, KeysStay DEF PlansInv
  <2>6. \A m \in made' : MadeOk(m)'
    BY <1>1, <1>2, <2>2, <2>3, MadeStays DEF PlansInv, PlanTypes, MadeRow
  <2>7. \A q \in PlanId : Untaken(q) => Untaken(q)'
    BY <1>1, <1>3, <2>1 DEF Untaken, PlansInv, PlanTypes, Sweeps
  <2>8. ASSUME NEW v \in PlanWorker PROVE HandOk(v)'
    BY WorkerHas, <1>1, <1>3, <1>2, <2>2, <2>3, <2>7, HandStays DEF Runs
  <2>9. DeployedIsPlanned' /\ DeployedOnce'
    BY <1>1 DEF PlansInv, DeployedIsPlanned, DeployedOnce
  <2> QED BY <2>2, <2>4, <2>5, <2>6, <2>8, <2>9 DEF PlansInv
<1>4. CASE hand' = [hand EXCEPT ![w] = Rest] /\ UNCHANGED shot
  <2>1. hand'[w] = Rest /\ \A v \in PlanWorker : v # w => hand'[v] = hand[v]
    BY <1>4 DEF PlansInv, PlanTypes
  <2>2. HandOk(w)'
    BY <2>1, RestShapes, RestIsOk
  <2>3. \A v \in PlanWorker : v # w /\ Runs(hand[v].op, v) => Runs(hand[v].op, v)'
    BY <1>1, <2>1 DEF Runs
  <2>4. deploys' \in [Deploy -> DeployRow] /\ loss' \in [n : Nat, lapsed : BOOLEAN] /\ loss'.lapsed = loss.lapsed
    BY <1>1 DEF PlansInv, PlanTypes
  <2> QED BY <1>1, <1>2, <1>4, <2>2, <2>3, <2>4, RestShapes, HandMoves
<1> QED BY <1>3, <1>4 DEF ClearsSnapshot

(* Steps that only touch plans nobody has asked for yet, or the clock, or   *)
(* requests: the workers stand still.                                       *)
LEMMA WorkersRest ==
    ASSUME PlansInv, PlanTypes', GoesOn, UNCHANGED <<deploys, hand, made, loss>>,
           \A p \in PlanId : PlanOk(p)' /\ (Untaken(p) => Untaken(p)'), \A r \in Request : AskOk(r)'
    PROVE  PlansInv'
<1>1. \A q \in Deploy : NotNew(q) /\ NotGone(q)
  <2>1. /\ clock \in Nat /\ clock' \in Nat /\ clock <= clock'
        /\ \A q \in Deploy : deploys[q].at \in Nat /\ (Recorded(q) => deploys[q].at <= clock)
    BY DEF PlansInv, PlanTypes, DeployRow, DeployOk, GoesOn
  <2> QED BY <2>1 DEF NotNew, NotGone, Recorded
<1>2. (\A q \in Deploy : DeployOk(q)') /\ OneForKey'
  BY <1>1, RowStays, KeysStay DEF PlansInv
<1>3. \A m \in made' : MadeOk(m)'
  BY <1>1, MadeStays DEF PlansInv, PlanTypes, MadeRow
<1>4. ASSUME NEW v \in PlanWorker PROVE HandOk(v)'
  BY WorkerHas, <1>1, HandStays DEF Runs
<1>5. DeployedIsPlanned' /\ DeployedOnce'
  BY DEF PlansInv, DeployedIsPlanned, DeployedOnce
<1> QED BY <1>2, <1>3, <1>4, <1>5 DEF PlansInv

(* plan_deployment: the source is copied whole before the row is there.     *)
LEMMA PlansInvStep ==
    ASSUME PlansInv, NEW p \in PlanId, CopiesSource(p) \/ InsertsPlan(p)
    PROVE  PlansInv'
<1>1. PICK x \in PlanRow : /\ x.state \in {"copied", "row"} /\ plans' = [plans EXCEPT ![p] = x]
                          /\ x.expires <= clock + PlanTtl
  <2>1. plans[p] \in PlanRow /\ clock + PlanTtl \in Nat
    BY PlanAssumption DEF PlansInv, PlanTypes
  <2>2. [plans[p] EXCEPT !.state = "copied"] \in PlanRow /\ [state |-> "row", expires |-> clock + PlanTtl] \in PlanRow
    BY <2>1 DEF PlanRow
  <2>3. /\ [plans[p] EXCEPT !.state = "copied"].state = "copied"
        /\ [plans[p] EXCEPT !.state = "copied"].expires = plans[p].expires
        /\ plans[p].expires <= clock + PlanTtl
    BY <2>1 DEF PlanRow, PlansInv, PlanTypes
  <2>4. CASE CopiesSource(p)
    BY <2>2, <2>3, <2>4 DEF CopiesSource
  <2>5. CASE InsertsPlan(p)
    <3>1. clock + PlanTtl <= clock + PlanTtl
      BY PlanAssumption DEF PlansInv, PlanTypes
    <3>2. [state |-> "row", expires |-> clock + PlanTtl].expires <= clock + PlanTtl
      BY <3>1
    <3> QED BY <2>2, <2>5, <3>2 DEF InsertsPlan
  <2> QED BY <2>4, <2>5
<1>2. /\ plans[p].state \in {"new", "copied"} /\ shot' = [shot EXCEPT ![p] = SourceFile]
      /\ UNCHANGED <<clock, asks, deploys, hand, made, loss>>
  BY DEF CopiesSource, InsertsPlan, PlansInv, PlanTypes, PlanOk, Listed
<1>3. PlanTypes'
  BY <1>1, <1>2 DEF PlansInv, PlanTypes
<1>4. \A q \in PlanId : q # p => plans'[q] = plans[q] /\ shot'[q] = shot[q]
  BY <1>1, <1>2 DEF PlansInv, PlanTypes
<1>5. plans'[p] = x /\ shot'[p] = SourceFile /\ ~Listed(p)
  BY <1>1, <1>2 DEF PlansInv, PlanTypes, Listed
<1>6. GoesOn
  BY <1>2, <1>4, <1>5 DEF GoesOn, Listed, Lapsed, PlansInv, PlanTypes
<1>7. ASSUME NEW q \in PlanId PROVE PlanOk(q)' /\ (Untaken(q) => Untaken(q)')
  BY <1>2, <1>5, <1>4 DEF PlansInv, PlanOk, Untaken, Sweeps, Listed, Expired
<1>8. \A r \in Request : AskOk(r)'
  BY <1>2, <1>3, <1>6, AskStays
<1> QED BY <1>2, <1>3, <1>6, <1>7, <1>8, WorkersRest

LEMMA TicksInv ==
    ASSUME PlansInv, Ticks
    PROVE  PlansInv'
<1>1. clock < MaxClock /\ clock' = clock + 1 /\ UNCHANGED <<plans, shot, asks, deploys, hand, made, loss>>
  BY DEF Ticks
<1>2. PlanTypes'
  BY <1>1, PlanAssumption DEF PlansInv, PlanTypes, PlanRow
<1>3. GoesOn
  BY <1>1 DEF GoesOn, Listed, Lapsed, PlansInv, PlanTypes
<1>4. ASSUME NEW q \in PlanId PROVE PlanOk(q)' /\ (Untaken(q) => Untaken(q)')
  BY <1>2, <1>3, ExpiredStays, <1>1 DEF PlansInv, PlanOk, Untaken, Sweeps, Listed
<1>5. \A r \in Request : AskOk(r)'
  BY <1>1, <1>2, <1>3, AskStays
<1> QED BY <1>1, <1>2, <1>3, <1>4, <1>5, WorkersRest

(* What a request may be, whoever looks at the plans now.                   *)
GoodAsk(x) ==
    /\ x \in AskRow
    /\ x.pc \in {"checks", "inserts"} => x.key \in Key /\ x.plan \in PlanId
    /\ x.pc = "inserts" => Listed(x.plan)

LEMMA RepliesGood ==
    ASSUME PlansInv, NEW r \in Request, NEW c \in {"new", "checks", "inserts", "done"}
    PROVE  LET x == [asks[r] EXCEPT !.pc = c]
           IN x \in AskRow /\ x.pc = c /\ x.key = asks[r].key /\ x.plan = asks[r].plan
BY DEF PlansInv, PlanTypes, AskRow

LEMMA ReplyMoves ==
    ASSUME PlansInv, NEW r \in Request, NEW c \in {"new", "checks", "inserts", "done"}, Replies(r, c)
    PROVE  asks' = [asks EXCEPT ![r] = [asks[r] EXCEPT !.pc = c]]
  BY DEF Replies

(* apply_deployment before the operation is there: the plan was looked up   *)
(* and had not expired.                                                     *)
LEMMA AskMoves ==
    ASSUME PlansInv, NEW r \in Request,
           (\E k \in Key, p \in PlanId : AsksToApply(r, k, p)) \/ ChecksPlan(r)
    PROVE  \E x \in AskRow : asks' = [asks EXCEPT ![r] = x] /\ GoodAsk(x)
<1>1. ASSUME NEW k \in Key, NEW p \in PlanId, AsksToApply(r, k, p)
      PROVE  \E x \in AskRow : asks' = [asks EXCEPT ![r] = x] /\ GoodAsk(x)
  <2>1. PICK c \in {"done", "checks"} : asks' = [asks EXCEPT ![r] = [pc |-> c, key |-> k, plan |-> p]]
    BY <1>1 DEF AsksToApply
  <2>2. [pc |-> c, key |-> k, plan |-> p] \in AskRow
    BY DEF AskRow
  <2> QED BY <2>1, <2>2 DEF GoodAsk
<1>2. ASSUME ChecksPlan(r)
      PROVE  \E x \in AskRow : asks' = [asks EXCEPT ![r] = x] /\ GoodAsk(x)
  <2>1. asks[r].key \in Key /\ asks[r].plan \in PlanId
    BY <1>2 DEF ChecksPlan, PlansInv, AskOk
  <2>2. CASE Replies(r, "done")
    BY RepliesGood, <2>2, ReplyMoves DEF GoodAsk
  <2>3. CASE plans[asks[r].plan].state = "row" /\ Unexpired(asks[r].plan) /\ Replies(r, "inserts")
    <3>1. PICK x \in AskRow : /\ x = [asks[r] EXCEPT !.pc = "inserts"] /\ x.pc = "inserts"
                              /\ x.key = asks[r].key /\ x.plan = asks[r].plan
      BY RepliesGood
    <3> QED BY <2>1, <2>3, <3>1, ReplyMoves DEF GoodAsk, Listed
  <2> QED BY <1>2, <2>2, <2>3 DEF ChecksPlan
<1> QED BY <1>1, <1>2

LEMMA AsksInv ==
    ASSUME PlansInv, NEW r \in Request, NEW x \in AskRow, GoodAsk(x),
           asks' = [asks EXCEPT ![r] = x],
           UNCHANGED <<clock, plans, shot, deploys, hand, made, loss>>
    PROVE  PlansInv'
BY Undated, AskStays, WorkersRest DEF PlansInv, PlanTypes, Lapsed, Untaken, Sweeps, AskOk,
       GoodAsk, Listed

(* _accept: the key is unique, so the row is the only one of its key, and   *)
(* no worker, and nothing that was made, is of an operation with its name.  *)
LEMMA InsertsInv ==
    ASSUME PlansInv, NEW r \in Request, InsertsDeploy(r)
    PROVE  PlansInv'
<1>1. /\ asks[r].pc = "inserts" /\ asks[r].key \in Key /\ asks[r].plan \in PlanId /\ Listed(asks[r].plan)
      /\ UNCHANGED <<clock, plans, shot, hand, made, loss>>
  BY DEF InsertsDeploy, PlansInv, AskOk
<1>2. PICK x \in AskRow : x = [asks[r] EXCEPT !.pc = "done"] /\ x.pc = "done"
  BY RepliesGood
<1>3. asks' = [asks EXCEPT ![r] = x] /\ GoodAsk(x)
  BY <1>2, ReplyMoves DEF InsertsDeploy, GoodAsk
<1>4. CASE UNCHANGED deploys
  BY <1>1, <1>3, <1>4, AsksInv
<1>5. ASSUME NEW o \in UnusedIds, Holds(asks[r].key) = {},
             deploys' = [deploys EXCEPT ![o] = [NoRow EXCEPT !.status = "queued",
                                                !.key = asks[r].key, !.plan = asks[r].plan, !.at = clock]]
      PROVE  PlansInv'
  <2> DEFINE d0 == [NoRow EXCEPT !.status = "queued", !.key = asks[r].key, !.plan = asks[r].plan, !.at = clock]
  <2>1. PICK d \in DeployRow : /\ d = d0 /\ d.status = "queued" /\ d.key = asks[r].key
                               /\ d.plan = asks[r].plan /\ d.at = clock
    <3>1. clock \in Nat
      BY DEF PlansInv, PlanTypes
    <3>2. NoRow \in DeployRow
      BY DEF NoRow, DeployRow
    <3>3. d0 \in DeployRow
      BY <1>1, <3>1, <3>2 DEF DeployRow
    <3>4. /\ d0.status = "queued" /\ d0.key = asks[r].key
          /\ d0.plan = asks[r].plan /\ d0.at = clock
      BY <3>2 DEF DeployRow
    <3> QED BY <3>3, <3>4
  <2>2. deploys' = [deploys EXCEPT ![o] = d]
    BY <1>5, <2>1
  <2> HIDE DEF d0
  <2>3. o \in Deploy /\ ~Recorded(o) /\ \A m \in made : m.op # o
    BY DEF UnusedIds, Recorded
  <2>4. /\ deploys' \in [Deploy -> DeployRow] /\ deploys'[o] = d
        /\ \A q \in Deploy : q # o => deploys'[q] = deploys[q]
    BY <2>2, <2>3 DEF PlansInv, PlanTypes
  <2>5. PlanTypes'
    BY <1>1, <1>3, <2>4 DEF PlansInv, PlanTypes
  <2>6. GoesOn /\ \A p \in PlanId : PlanOk(p)' /\ (Untaken(p) => Untaken(p)')
    BY <1>1, Undated DEF PlansInv, Lapsed, Untaken, Sweeps
  <2>7. ASSUME NEW q \in Deploy, q # o PROVE NotNew(q) /\ NotGone(q)
    <3>1. deploys[q].at \in Nat /\ (Recorded(q) => deploys[q].at <= clock)
      BY DEF PlansInv, PlanTypes, DeployRow, DeployOk
    <3> QED BY <1>1, <2>4, <2>7, <3>1 DEF NotNew, NotGone, Recorded
  <2>8. ASSUME NEW q \in Request PROVE AskOk(q)'
    BY <1>3, <1>2, <2>5, <2>6, AskStays DEF PlansInv, PlanTypes, AskOk
  <2>9. ASSUME NEW q \in Deploy PROVE DeployOk(q)'
    BY <1>1, <2>1, <2>4, <2>5, <2>6, <2>7, RowStays DEF PlansInv, PlanTypes, DeployOk, Listed
  <2>10. OneForKey'
    BY <1>5, <2>1, <2>4 DEF Holds, Recorded, PlansInv, OneForKey
  <2>11. ASSUME NEW m \in made PROVE MadeOk(m)'
    BY <2>3, <2>5, <2>6, <2>7, MadeStays DEF PlansInv, PlanTypes, MadeRow
  <2>12. ASSUME NEW v \in PlanWorker PROVE HandOk(v)'
    <3>1. Works(v) => hand[v].op \in Deploy /\ Recorded(hand[v].op)
      BY WorkerHas DEF PlansInv, HandOk, WorkOk
    <3>2. Works(v) => NotNew(hand[v].op) /\ NotGone(hand[v].op) /\ deploys'[hand[v].op] = deploys[hand[v].op]
      BY <2>3, <2>4, <2>7, <3>1
    <3>3. Works(v) /\ Runs(hand[v].op, v) => Runs(hand[v].op, v)'
      BY <1>1, <3>2 DEF Runs
    <3> QED BY <1>1, <2>5, <2>6, <3>2, <3>3, HandStays
  <2>13. DeployedIsPlanned' /\ DeployedOnce'
    BY <1>1 DEF PlansInv, DeployedIsPlanned, DeployedOnce
  <2> QED BY <1>1, <2>5, <2>6, <2>8, <2>9, <2>10, <2>11, <2>12, <2>13 DEF PlansInv
<1> QED BY <1>4, <1>5 DEF InsertsDeploy

----------------------------------------------------------------------------
LEMMA PlansInvInit == PlanInit => PlansInv
<1> SUFFICES ASSUME PlanInit PROVE PlansInv
    OBVIOUS
<1>1. PlanTypes
  <2>1. 0 \in Nat /\ 0 <= MaxClock /\ 0 <= 0 + PlanTtl
    BY PlanAssumption
  <2>2. NoRow \in DeployRow
    BY DEF NoRow, DeployRow
  <2>3. /\ [state |-> "new", expires |-> 0] \in PlanRow
        /\ [pc |-> "new", key |-> "", plan |-> ""] \in AskRow
        /\ [n |-> 0, lapsed |-> FALSE] \in [n : Nat, lapsed : BOOLEAN]
    BY DEF PlanRow, AskRow
  <2> QED BY <2>1, <2>2, <2>3, RestShapes DEF PlanInit, PlanTypes
<1>2. \A o \in Deploy : ~Recorded(o)
  BY DEF PlanInit, Recorded, NoRow
<1>3. \A w \in PlanWorker : HandOk(w)
  BY DEF PlanInit, HandOk, SweepOk, WorkOk, PackOk, Sweeps, Works, Rest
<1>4. /\ \A p \in PlanId : PlanOk(p)
      /\ \A r \in Request : AskOk(r)
  BY DEF PlanInit, PlanOk, AskOk
<1>5. DeployedIsPlanned /\ DeployedOnce /\ \A m \in made : MadeOk(m)
  BY DEF PlanInit, DeployedIsPlanned, DeployedOnce
<1> QED BY <1>1, <1>2, <1>3, <1>4, <1>5 DEF PlansInv, OneForKey, DeployOk

(* The invariant of plans: snapshots are whole until their plan expired, a  *)
(* row of a key is the only one, whoever is at work has its row, and what   *)
(* was made is of a row or of a plan that is over.                          *)
THEOREM PlansInvariant == PlanSpec => []PlansInv
<1>1. PlansInv /\ [PlanNext]_planVars => PlansInv'
  <2> SUFFICES ASSUME PlansInv, [PlanNext]_planVars PROVE PlansInv'
      OBVIOUS
  <2>1. ASSUME NEW p \in PlanId, CopiesSource(p) \/ InsertsPlan(p) PROVE PlansInv'
    BY <2>1, PlansInvStep
  <2>2. ASSUME NEW r \in Request, (\E k \in Key, p \in PlanId : AsksToApply(r, k, p)) \/ ChecksPlan(r)
        PROVE  PlansInv'
    BY <2>2, AskMoves, AsksInv DEF AsksToApply, ChecksPlan
  <2>3. ASSUME NEW r \in Request, InsertsDeploy(r) PROVE PlansInv'
    BY <2>3, InsertsInv
  <2>4. ASSUME NEW w \in PlanWorker, NEW o \in Deploy,
               ClaimsDeploy(w, o) \/ Recovers(w, o) \/ SweepsDeploy(w, o)
        PROVE  PlansInv'
    BY <2>4, ClaimsInv, RecoversInv, SweepsInv
  <2>5. ASSUME NEW w \in PlanWorker, ValidatesPlan(w) \/ ImportsPacked(w) \/ EndsDeploy(w) PROVE PlansInv'
    BY <2>5, ValidatesInv, ImportsInv, EndsInv
  <2>6. ASSUME NEW w \in PlanWorker, NEW f \in SourceFile, PacksFile(w, f) PROVE PlansInv'
    BY <2>6, PacksInv
  <2>7. ASSUME NEW w \in PlanWorker,
               SelectsPlans(w) \/ DeletesPlans(w) \/ ClearsSnapshot(w) \/ WorkerDies(w)
        PROVE  PlansInv'
    BY <2>7, SelectsInv, DeletesInv, ClearsInv, WorkerDiesInv
  <2>8. ASSUME NEW o \in Deploy, LeaseLapses(o) PROVE PlansInv'
    BY <2>8, LapsesInv
  <2>9. CASE Ticks
    BY <2>9, TicksInv
  <2>10. CASE UNCHANGED planVars
    BY <2>10, Undated, AskStays, WorkersRest DEF planVars, PlansInv, PlanTypes, Lapsed, Untaken,
           Sweeps
  <2> QED BY <2>1, <2>2, <2>3, <2>4, <2>5, <2>6, <2>7, <2>8, <2>9, <2>10 DEF PlanNext
<1> QED BY <1>1, PlansInvInit, PTL DEF PlanSpec

(* What an agent deploys is the whole snapshot of its plan, although the    *)
(* sweep deletes plans and snapshots in two transactions while workers are  *)
(* between theirs; and a plan and a key make one instance, although rows    *)
(* are forgotten and requests repeated.                                     *)
THEOREM PlansStaySafe == PlanSpec => []PlansAreSafe
<1>1. PlansInv => PlansAreSafe
  <2> SUFFICES ASSUME PlansInv PROVE PlansAreSafe
      OBVIOUS
  <2>1. clock \in 0..MaxClock
    BY PlanAssumption DEF PlansInv, PlanTypes
  <2>2. /\ \A p \in PlanId : plans[p].state \in {"new", "copied", "row", "gone"} /\ shot[p] \subseteq SourceFile
        /\ \A o \in Deploy : deploys[o].status \in {"absent", "queued", "running"} \cup Ended
        /\ \A w \in PlanWorker : hand[w].op \in Deploy \cup {NoDeploy} /\ hand[w].got \subseteq SourceFile
    BY DEF PlansInv, PlanTypes, PlanRow, DeployRow, HandRow
  <2> QED BY <2>1, <2>2 DEF PlansAreSafe, PlansTypeOK, PlansInv
<1> QED BY <1>1, PlansInvariant, PTL
=============================================================================
