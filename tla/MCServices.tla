----------------------------- MODULE MCServices -----------------------------
(* Instances, for TLC, of the modules about the long-running services, their  *)
(* update, and what they do all the time: the plans of agents, the counting  *)
(* of visits, the patrol.  The modules share no state; one run checks them   *)
(* side by side, each behaviour in one of them.                              *)
EXTENDS ManagerService, ManagerPage, ManagerToken, Autostart, DaemonService,
        UpdateFlow, AgentPlans, PageViews, TLC

CONSTANTS c1, c2, o1, o2, u1, u2, w1, w2, pl1, k1, r1, r2, f1

VARIABLE part   \* the module this behaviour is about

Part == {"manager", "page", "token", "autostart", "daemon", "update", "plans", "views", "patrol"}

(* Autostart: o1 has the daemon and the gateway started, o2 the daemon only.  *)
TargetDef == (o1 :> {"daemon", "gateway"}) @@ (o2 :> {"daemon"})

(* ManagerService: a child that lost its race with its command is not        *)
(* followed further.                                                         *)
Followed == ~sgh.lost

(* The variables of the other modules keep one initial value.               *)
Init ==
    /\ part \in Part
    /\ ManagerInit /\ (part # "manager" => ~st.there)
    /\ PageInit /\ (part # "page" => host.profile = "full" /\ host.gateway = "unknown")
    /\ TokenInit /\ (part # "token" => ~file.reads)
    /\ AutoInit
    /\ DaemonInit
    /\ UpdateInit
    /\ PlanInit
    /\ ViewsInit /\ (part # "views" => log = <<>>)
    /\ PatrolInit /\ (part # "patrol" => ~copies.static)

Still ==
    /\ UNCHANGED part
    /\ part # "manager" => UNCHANGED managerVars
    /\ part # "page" => UNCHANGED pageVars
    /\ part # "token" => UNCHANGED tokenVars
    /\ part # "autostart" => UNCHANGED autoVars
    /\ part # "daemon" => UNCHANGED daemonVars
    /\ part # "update" => UNCHANGED updateVars
    /\ part # "plans" => UNCHANGED planVars
    /\ part # "views" => UNCHANGED viewsVars
    /\ part # "patrol" => UNCHANGED patrolVars

Next ==
    \/ part = "manager" /\ ManagerNext /\ Still
    \/ part = "page" /\ PageNext /\ Still
    \/ part = "token" /\ TokenNext /\ Still
    \/ part = "autostart" /\ AutoNext /\ Still
    \/ part = "daemon" /\ DaemonNext /\ Still
    \/ part = "update" /\ UpdateNext /\ Still
    \/ part = "plans" /\ PlanNext /\ Still
    \/ part = "views" /\ ViewsNext /\ Still
    \/ part = "patrol" /\ PatrolNext /\ Still

allVars == <<part, managerVars, pageVars, tokenVars, autoVars, daemonVars, updateVars, planVars,
             viewsVars, patrolVars>>

Spec == Init /\ [][Next]_allVars
=============================================================================
