------------------------------ MODULE FullSetup ------------------------------
(* `lwa setup --full`: install Docker and Caddy, check them, start the       *)
(* services and accept the Full profile only when the command line and every *)
(* service can reach Docker, each service reporting through a cache file it  *)
(* refreshes (host_bootstrap.py, capability.py).                             *)
EXTENDS Integers, FiniteSets

CONSTANTS MaxOutage,   \* bound: Docker stops, services that die or are stopped
          MaxSnare     \* bound: scripts that fail, starts that fail or come from an old session

ASSUME SetupAssumption == MaxOutage \in Nat /\ MaxSnare \in Nat

Role == {"manager", "daemon"}

VARIABLES
    docker,    \* the engine: missing, down or up; the user is in its group
    login,     \* the session of the user has the group
    service,   \* each service: it runs, with the group or not, and which process it is
    report,    \* run/capability-<role>.json: Docker as seen, and by which process
    setup,     \* the run of the command, and what it collected
    progress,  \* run/full-setup-state.json
    profile,   \* profile in local-web.yml
    mischief   \* bounds

setupVars == <<docker, login, service, report, setup, progress, profile, mischief>>

NoReport == [access |-> "unknown", by |-> 0]
Unread   == [r \in Role |-> "unread"]
Quiet == [pc |-> "idle", tried |-> {}, cli |-> "unknown", got |-> [r \in Role |-> NoReport],
          seen |-> Unread, again |-> FALSE]
Spends(w, max) == mischief[w] < max /\ mischief' = [mischief EXCEPT ![w] = @ + 1]

----------------------------------------------------------------------------
(* What a process sees of Docker                                             *)

(* probe_docker_access_state *)
Access(allowed) == IF ~allowed THEN "denied" ELSE IF docker.state = "up" THEN "ready" ELSE "pending"

(* _compute_overall for the command line in the Full profile: a session that *)
(* must be refreshed, by what the last run left behind, is never ready, and  *)
(* a service nobody heard of is not either (capability.py 904).  Mutant: it  *)
(* is.                                                                       *)
Overall_Unknown(seen, cli) ==
    IF ~progress.session /\ cli = "ready" /\ \A r \in Role : seen[r] \in {"ready", "unknown"}
    THEN "ready" ELSE "unready"
Overall(seen, cli) ==
    IF ~progress.session /\ cli = "ready" /\ \A r \in Role : seen[r] = "ready" THEN "ready" ELSE "unready"

----------------------------------------------------------------------------
(* The services                                                              *)

Writes(r) == report' = [report EXCEPT ![r] = [access |-> Access(service[r].allowed), by |-> service[r].id]]

(* _bg_probe, _probe_daemon_capability: at the start, then again, sooner     *)
(* while Docker is not ready, later when it is.                              *)
Probes(r) ==
    /\ service[r].up /\ Writes(r)
    /\ UNCHANGED <<docker, login, service, setup, progress, profile, mischief>>

Started(r) == [service EXCEPT ![r] = [up |-> TRUE, allowed |-> login, id |-> @.id + 1]]

(* A service dies, and its report stays; or it is stopped, which clears it.  *)
ServiceDies(r) ==
    /\ service[r].up /\ Spends("out", MaxOutage)
    /\ service' = [service EXCEPT ![r].up = FALSE]
    /\ report' \in {report, [report EXCEPT ![r] = NoReport]}
    /\ UNCHANGED <<docker, login, setup, progress, profile>>
(* A unit or a terminal that is older than the login starts it without the   *)
(* group.  The report of the process before is there until it probes.        *)
OldSessionStarts(r) ==
    /\ ~service[r].up /\ Spends("snare", MaxSnare)
    /\ service' = [service EXCEPT ![r] = [up |-> TRUE, allowed |-> FALSE, id |-> @.id + 1]]
    /\ UNCHANGED <<docker, login, report, setup, progress, profile>>
(* The user restarts a service that was started before the session had the   *)
(* group.                                                                    *)
ServiceRestarted(r) ==
    /\ service[r].up /\ ~service[r].allowed /\ login
    /\ service' = Started(r)
    /\ UNCHANGED <<docker, login, report, setup, progress, profile, mischief>>

----------------------------------------------------------------------------
(* run_full_bootstrap                                                        *)

Goes(pc) == setup' = [setup EXCEPT !.pc = pc]
Saves(overall, session, steps) ==
    /\ progress' = [overall |-> overall, session |-> session, steps |-> steps]
    /\ setup' = Quiet

(* plan_full_install: what is missing; a Docker that does not run is not     *)
(* installed again.                                                          *)
Lacking == docker.state = "missing"

BeginsSetup ==
    /\ setup.pc = "idle" /\ profile # "full"
    /\ Goes(IF Lacking THEN "install" ELSE "recheck")
    /\ UNCHANGED <<docker, login, service, report, progress, profile, mischief>>

(* The scripts install Docker and put the user into its group, which only    *)
(* the next session has.                                                     *)
RunsScripts ==
    /\ setup.pc = "install"
    /\ \/ /\ docker' = [state |-> "up", member |-> TRUE]
          /\ Goes("recheck") /\ UNCHANGED <<progress, mischief>>
       \/ /\ Spends("snare", MaxSnare)
          /\ Saves("unready", FALSE, progress.steps) /\ UNCHANGED docker
    /\ UNCHANGED <<login, service, report, profile>>

(* The components are looked at again; then the own access is.               *)
Rechecks ==
    /\ setup.pc = "recheck"
    /\ IF docker.state # "up" THEN Saves("unready", FALSE, {})
       ELSE IF ~login THEN Saves("refresh", TRUE, {"installed", "verified"})
       ELSE Goes("start") /\ UNCHANGED progress
    /\ UNCHANGED <<docker, login, service, report, profile, mischief>>

(* _try_start_backends_for_capability: who does not run is started, perhaps  *)
(* in vain.                                                                  *)
StartsService(r) ==
    /\ setup.pc = "start" /\ ~service[r].up /\ r \notin setup.tried
    /\ setup' = [setup EXCEPT !.tried = @ \cup {r}]
    /\ \/ service' = Started(r) /\ UNCHANGED mischief
       \/ Spends("snare", MaxSnare) /\ UNCHANGED service
    /\ UNCHANGED <<docker, login, report, progress, profile>>
(* collect_capability_report: the own access first, then the report of each  *)
(* service.                                                                  *)
CollectsAccess ==
    /\ setup.pc = "start" /\ \A r \in Role : service[r].up \/ r \in setup.tried
    /\ setup' = [setup EXCEPT !.pc = "collect", !.cli = Access(login)]
    /\ UNCHANGED <<docker, login, service, report, progress, profile, mischief>>

(* _merge_cached_backend_probes: the file is read, and then whether its      *)
(* service lives is looked up (_backend_role_alive).  It does not say which  *)
(* process wrote it.                                                         *)
ReadsReport(r) ==
    /\ setup.pc = "collect" /\ setup.seen[r] = "unread" /\ setup.got[r] = NoReport
    /\ r = "daemon" => setup.seen["manager"] # "unread"
    /\ setup' = IF report[r] = NoReport THEN [setup EXCEPT !.seen[r] = "unknown"]
                                        ELSE [setup EXCEPT !.got[r] = report[r]]
    /\ UNCHANGED <<docker, login, service, report, progress, profile, mischief>>
JudgesReport(r) ==
    /\ setup.pc = "collect" /\ setup.seen[r] = "unread" /\ setup.got[r] # NoReport
    /\ setup' = [setup EXCEPT !.seen[r] = IF service[r].up THEN setup.got[r].access ELSE "unknown"]
    /\ UNCHANGED <<docker, login, service, report, progress, profile, mischief>>

(* Services that wait for a Docker the command line already reaches are      *)
(* asked once more.                                                          *)
Weighs ==
    /\ setup.pc = "collect" /\ \A r \in Role : setup.seen[r] # "unread"
    /\ Goes(IF Overall(setup.seen, setup.cli) # "ready" /\ ~setup.again
               /\ setup.cli = "ready" /\ \E r \in Role : setup.seen[r] = "pending"
            THEN "refresh" ELSE "decide")
    /\ UNCHANGED <<docker, login, service, report, progress, profile, mischief>>

(* _refresh_backend_capability_once: the manager is asked to probe now, the  *)
(* daemon is waited for, in vain perhaps, and all is collected again.        *)
AsksManager ==
    /\ setup.pc = "refresh"
    /\ IF service["manager"].up
       THEN /\ Writes("manager")
            /\ setup' = [Quiet EXCEPT !.pc = "collect", !.tried = Role, !.cli = Access(login), !.again = TRUE]
       ELSE Goes("decide") /\ UNCHANGED report
    /\ UNCHANGED <<docker, login, service, progress, profile, mischief>>

(* The profile is raised when all is ready; otherwise the run leaves behind  *)
(* what it found.                                                            *)
Decides ==
    /\ setup.pc = "decide"
    /\ LET result == Overall(setup.seen, setup.cli) IN
       /\ Saves(result, result # "ready" /\ progress.session,
                {"installed", "verified"} \cup (IF result = "ready" THEN {"closed"} ELSE {}))
       /\ profile' = IF result = "ready" THEN "full" ELSE profile
    /\ UNCHANGED <<docker, login, service, report, mischief>>

----------------------------------------------------------------------------
DockerComes == /\ docker.state = "down" /\ docker' = [docker EXCEPT !.state = "up"]
               /\ UNCHANGED <<login, service, report, setup, progress, profile, mischief>>
DockerGoes  == /\ docker.state = "up" /\ Spends("out", MaxOutage) /\ docker' = [docker EXCEPT !.state = "down"]
               /\ UNCHANGED <<login, service, report, setup, progress, profile>>
LogsIn == /\ docker.member /\ ~login /\ login' = TRUE
          /\ UNCHANGED <<docker, service, report, setup, progress, profile, mischief>>

SetupInit ==
    /\ docker \in {[state |-> "missing", member |-> FALSE], [state |-> "down", member |-> TRUE],
                   [state |-> "up", member |-> TRUE]}
    /\ login \in {FALSE, docker.member}
    /\ service \in [Role -> {[up |-> FALSE, allowed |-> FALSE, id |-> 0], [up |-> TRUE, allowed |-> login, id |-> 1]}]
    /\ report = [r \in Role |-> NoReport]
    /\ setup = Quiet
    /\ progress = [overall |-> "none", session |-> FALSE, steps |-> {}]
    /\ profile = "default"
    /\ mischief = [out |-> 0, snare |-> 0]

SetupStep ==
    \/ BeginsSetup \/ RunsScripts \/ Rechecks \/ CollectsAccess \/ Weighs \/ AsksManager \/ Decides
    \/ \E r \in Role : StartsService(r) \/ ReadsReport(r) \/ JudgesReport(r)
SetupNext ==
    \/ SetupStep
    \/ \E r \in Role : Probes(r) \/ ServiceDies(r) \/ OldSessionStarts(r) \/ ServiceRestarted(r)
    \/ DockerComes \/ DockerGoes \/ LogsIn

(* The command is repeated until it is done, the services keep probing,      *)
(* Docker is started, the user logs in anew and restarts old services.       *)
SetupSpec ==
    /\ SetupInit /\ [][SetupNext]_setupVars
    /\ WF_setupVars(SetupStep) /\ WF_setupVars(DockerComes) /\ WF_setupVars(LogsIn)
    /\ \A r \in Role : WF_setupVars(Probes(r)) /\ WF_setupVars(ServiceRestarted(r))

----------------------------------------------------------------------------
SetupTypeOK ==
    /\ profile \in {"default", "full"} /\ progress.session \in BOOLEAN
    /\ \A r \in Role : report[r].by <= service[r].id

(* The profile is raised only when the session has the group and, for each   *)
(* service, a process of it has reported that itself reached Docker: the     *)
(* process that runs has the access too, unless it came after the one that   *)
(* reported (capability.py 583-637 and 840-912, BUG-253, ADJ-035).           *)
FullIsEarned ==
    [][profile' # profile =>
         /\ docker.member /\ login
         /\ \A r \in Role : LET by == setup.got[r].by IN
              by > 0 /\ (service[r].allowed \/ service[r].id > by)]_setupVars

(* What a setup counts on in one statement.                                  *)
SetupIsTrue == []SetupTypeOK /\ FullIsEarned

(* A setup that was begun comes to its end although Docker and services fail *)
(* now and then, if no run was ever told to refresh the session.             *)
SetupEnds ==
    (setup.pc # "idle") ~> (profile = "full" \/ progress.session)

(* `lwa setup --full --resume` after a new login, when a run ended with exit *)
(* code 2 (docs/operations-playbook.md 26, docs/cli-reference.md 24).        *)
ResumeConverges == <>(profile = "full")
=============================================================================
