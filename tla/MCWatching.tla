----------------------------- MODULE MCWatching -----------------------------
(* Instances, for TLC, of the modules about what watches, observes and        *)
(* repeats in the background.  The modules share no state; one run checks    *)
(* them side by side, each behaviour in one of them and under its fairness.  *)
EXTENDS InboxWatch, StatusSync, LanRefresh, FullSetup, TLC

CONSTANTS a1, a2, s1, s2, m1

VARIABLE part   \* the module this behaviour is about

Part == {"inbox", "sync", "lan", "setup"}

(* The variables of the other modules keep one initial value.               *)
Init ==
    /\ part \in Part
    /\ InboxInit
    /\ SyncInit /\ (part # "sync" => runs = <<>> /\ worker.kind = "static")
    /\ LanInit /\ (part # "lan" => lan = a1)
    /\ SetupInit /\ (part # "setup" => docker.state = "missing" /\ \A r \in Role : ~service[r].up)

Still ==
    /\ UNCHANGED part
    /\ part # "inbox" => UNCHANGED inboxVars
    /\ part # "sync" => UNCHANGED syncVars
    /\ part # "lan" => UNCHANGED lanVars
    /\ part # "setup" => UNCHANGED setupVars

Next ==
    \/ part = "inbox" /\ InboxNext /\ Still
    \/ part = "sync" /\ SyncNext /\ Still
    \/ part = "lan" /\ LanNext /\ Still
    \/ part = "setup" /\ SetupNext /\ Still

allVars == <<part, inboxVars, syncVars, lanVars, setupVars>>

Spec == Init /\ [][Next]_allVars

(* What each module assumes of its own steps.                                *)
Fairness ==
    /\ WF_inboxVars(part = "inbox" /\ WatchStep)
    /\ WF_syncVars(part = "sync" /\ SyncStep) /\ WF_syncVars(part = "sync" /\ GrowsOld)
    /\ \A p \in Refresher :
          /\ WF_lanVars(part = "lan" /\ RefreshStep(p))
          /\ WF_lanVars(part = "lan" /\ IntervalOver(p))
          /\ WF_lanVars(part = "lan" /\ CacheOver(p))
    /\ WF_setupVars(part = "setup" /\ SetupStep)
    /\ WF_setupVars(part = "setup" /\ DockerComes) /\ WF_setupVars(part = "setup" /\ LogsIn)
    /\ \A r \in Role : /\ WF_setupVars(part = "setup" /\ Probes(r))
                       /\ WF_setupVars(part = "setup" /\ ServiceRestarted(r))

FairSpec == Spec /\ Fairness

(* What the background promises, each by its own module (daemon.py 1404,
   status.py 35, access.py 528, host_bootstrap.py 778): nothing stays in the
   inbox, a row says building for as long as somebody builds, the addresses
   told follow those of the host, and every full setup comes to an end.       *)
WatchingGoesOn == InboxEmpties /\ BuildingEnds /\ LanFollows /\ SetupEnds
=============================================================================
