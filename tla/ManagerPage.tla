---------------------------- MODULE ManagerPage ----------------------------
(* What the manager page says of the capabilities of the host               *)
(* (manager_api.py, capability.py): one thread probes now and then, requests *)
(* may ask for a probe of their own, and all of them share the one under     *)
(* way.  /api/health never probes; it shows the report in memory, with what  *)
(* the gateway wrote into its own cache laid over it.                        *)
EXTENDS Integers, FiniteSets

CONSTANTS Caller,      \* calls of /api/capability?refresh=true at a time
          MaxSurvey,   \* bound: probes
          MaxUpset     \* bound: probes that fail, changes of the host, restarts

ASSUME PageAssumption == "background" \notin Caller /\ MaxSurvey \in Nat /\ MaxUpset \in Nat

VARIABLES
    host,     \* the profile, Docker, and the gateway's cache while it is believed
    shared,   \* app_state_holder: a probe is under way; its result or its error
    asker,    \* the threads that ask for a probe, and the report each one holds
    page,     \* app.state.capability_fragment
    saved,    \* run/capability-manager.json, and whether it is fresh
    heard,    \* ghost: the probes that ended since each thread asked
    spent     \* surveys and upsets so far

pageVars == <<host, shared, asker, page, saved, heard, spent>>

Thread == Caller \cup {"background"}
Access == {"unknown", "denied", "ready"}

(* _compute_overall, seen by the manager *)
Judged(docker, gateway) ==
    IF host.profile = "default" THEN IF docker = "denied" THEN "degraded" ELSE "ready"
    ELSE IF docker = "ready" /\ gateway = "ready" THEN "ready" ELSE "unready"

Survey(n) == [n |-> n, docker |-> host.docker, gateway |-> host.gateway,
              overall |-> Judged(host.docker, host.gateway)]
NoSurvey == [n |-> 0, docker |-> "unknown", gateway |-> "unknown", overall |-> "unknown"]

Stands(t, pc) == asker[t].pc = pc
Goes(t, pc) == asker' = [asker EXCEPT ![t].pc = pc]
Upset == spent.upset < MaxUpset /\ spent' = [spent EXCEPT !.upset = @ + 1]

Nothing == [on |-> FALSE, result |-> NoSurvey, failed |-> FALSE]
(* Mutant: what the last probe left is not cleared.                          *)
Underway_KeepsError == [shared EXCEPT !.on = TRUE]
Underway == [Nothing EXCEPT !.on = TRUE]

----------------------------------------------------------------------------
(* _refresh_capability_cache                                                 *)

Asks(t) ==
    /\ Stands(t, "idle")
    /\ IF shared.on THEN Goes(t, "waits") /\ UNCHANGED shared
                    ELSE Goes(t, "surveys") /\ shared' = Underway
    /\ heard' = [heard EXCEPT ![t] = {}]
    /\ UNCHANGED <<host, page, saved, spent>>

Fails(t) == /\ Upset /\ Goes(t, "failed")
            /\ shared' = [shared EXCEPT !.failed = TRUE]
            /\ UNCHANGED <<host, page, saved, heard>>

(* collect_capability_report *)
Surveys(t) ==
    /\ Stands(t, "surveys")
    /\ \/ /\ spent.survey < MaxSurvey
          /\ spent' = [spent EXCEPT !.survey = @ + 1]
          /\ asker' = [asker EXCEPT ![t] = [pc |-> "saves", copy |-> Survey(spent'.survey)]]
          /\ UNCHANGED <<host, shared, page, saved, heard>>
       \/ Fails(t)

(* The file first, then what the waiting threads will read.                  *)
SavesReport(t) ==
    /\ Stands(t, "saves")
    /\ \/ /\ saved' = [report |-> asker[t].copy, fresh |-> TRUE]
          /\ shared' = [shared EXCEPT !.result = asker[t].copy]
          /\ Goes(t, "done")
          /\ UNCHANGED <<host, page, heard, spent>>
       \/ Fails(t)

(* The finally clause: who waits is woken.                                   *)
Wakes(t) ==
    /\ asker[t].pc \in {"done", "failed"}
    /\ shared' = [shared EXCEPT !.on = FALSE]
    /\ Goes(t, IF Stands(t, "done") THEN "answers" ELSE "raises")
    /\ heard' = [u \in Thread |-> IF u = t \/ Stands(u, "waits")
                                  THEN heard[u] \cup {IF Stands(t, "done") THEN asker[t].copy.n ELSE 0}
                                  ELSE heard[u]]
    /\ UNCHANGED <<host, page, saved, spent>>

(* A thread that waited looks again; a new probe may be under way by then.   *)
Listens(t) ==
    /\ Stands(t, "waits") /\ ~shared.on
    /\ asker' = [asker EXCEPT ![t] =
           IF shared.failed \/ shared.result.n = 0 THEN [@ EXCEPT !.pc = "raises"]
           ELSE [pc |-> "answers", copy |-> shared.result]]
    /\ UNCHANGED <<host, shared, page, saved, heard, spent>>

----------------------------------------------------------------------------
(* What becomes of the report                                                *)

Rests(t) == asker' = [asker EXCEPT ![t] = [pc |-> "idle", copy |-> NoSurvey]]

(* _bg_probe and capability_report put it into memory, outside the lock.     *)
Publishes(t) ==
    /\ Stands(t, "answers")
    /\ page' = asker[t].copy /\ Rests(t)
    /\ UNCHANGED <<host, shared, saved, heard, spent>>

(* A request is answered 503; _mark_probe_failed copies the report in memory *)
(* and takes back what it says of the whole, not what it says of the parts.  *)
RefusesRequest(t) ==
    /\ Stands(t, "raises") /\ t # "background" /\ Rests(t)
    /\ UNCHANGED <<host, shared, page, saved, heard, spent>>
CopiesPage ==
    /\ Stands("background", "raises")
    /\ asker' = [asker EXCEPT !["background"] = [pc |-> "marks", copy |-> page]]
    /\ UNCHANGED <<host, shared, page, saved, heard, spent>>
MarksFailed ==
    /\ Stands("background", "marks")
    /\ page' = [asker["background"].copy EXCEPT !.overall = "unknown"] /\ Rests("background")
    /\ UNCHANGED <<host, shared, saved, heard, spent>>

(* read_capability_health_fragment *)
Remembered(file) == IF file.fresh THEN file.report ELSE NoSurvey

(* The manager ends, cleanly or not, and is started again: create_app.       *)
Restarts(file) ==
    /\ file \in {saved, [report |-> NoSurvey, fresh |-> FALSE]} /\ Upset
    /\ saved' = file /\ page' = Remembered(file)
    /\ shared' = Nothing
    /\ asker' = [t \in Thread |-> [pc |-> "idle", copy |-> NoSurvey]]
    /\ heard' = [t \in Thread |-> {}]
    /\ UNCHANGED host

(* overlay_gateway_access_from_cache, _refresh_overall_in_health_fragment,   *)
(* health: judged anew only if the manager has probed already.               *)
Overlaid(p, probed) ==
    IF host.gateway \in {"unknown", p.gateway} THEN p
    ELSE [p EXCEPT !.gateway = host.gateway,
                   !.overall = IF probed THEN Judged(p.docker, host.gateway) ELSE @]
(* Mutant: the placeholder is judged, too (BUG-257).                         *)
Health_Always == Overlaid(page, TRUE)
Health == Overlaid(page, page.n > 0)

----------------------------------------------------------------------------
DockerTurns(d) == /\ d # host.docker /\ Upset /\ host' = [host EXCEPT !.docker = d]
                  /\ UNCHANGED <<shared, asker, page, saved, heard>>
(* "unknown": the gateway is off or its cache is too old.                    *)
GatewayReports(g) == /\ g # host.gateway /\ Upset /\ host' = [host EXCEPT !.gateway = g]
                     /\ UNCHANGED <<shared, asker, page, saved, heard>>
ReportAges == /\ saved.fresh /\ saved' = [saved EXCEPT !.fresh = FALSE]
              /\ UNCHANGED <<host, shared, asker, page, heard, spent>>

PageInit ==
    /\ host \in [profile : {"default", "full"}, docker : {"ready"}, gateway : {"unknown", "failing"}]
    /\ shared = Nothing
    /\ asker = [t \in Thread |-> [pc |-> "idle", copy |-> NoSurvey]]
    /\ page = NoSurvey
    /\ saved = [report |-> NoSurvey, fresh |-> FALSE]
    /\ heard = [t \in Thread |-> {}]
    /\ spent = [survey |-> 0, upset |-> 0]

PageNext ==
    \/ \E t \in Thread :
          Asks(t) \/ Surveys(t) \/ SavesReport(t) \/ Wakes(t) \/ Listens(t) \/ Publishes(t) \/ RefusesRequest(t)
    \/ CopiesPage \/ MarksFailed \/ ReportAges
    \/ \E file \in {saved, [report |-> NoSurvey, fresh |-> FALSE]} : Restarts(file)
    \/ \E d \in Access : DockerTurns(d)
    \/ \E g \in {"unknown", "failing", "ready"} : GatewayReports(g)

PageSpec == PageInit /\ [][PageNext]_pageVars

----------------------------------------------------------------------------
PageTypeOK == /\ page.overall \in {"unknown", "unready", "degraded", "ready"}
              /\ spent.survey <= MaxSurvey /\ spent.upset <= MaxUpset

(* However many ask, one probe runs (manager_api.py:727, BUG-379).           *)
OneSurvey ==
    /\ Cardinality({t \in Thread : asker[t].pc \in {"surveys", "saves", "done", "failed"}}) <= 1
    /\ shared.on <=> \E t \in Thread : asker[t].pc \in {"surveys", "saves", "done", "failed"}

(* A thread tells of a probe that ended after it asked: the report it gives  *)
(* is of such a one, and it fails only if such a one failed (721-745).       *)
AnswersAreHeard ==
    \A t \in Thread : /\ Stands(t, "answers") => asker[t].copy.n \in heard[t]
                      /\ Stands(t, "raises") => 0 \in heard[t]

(* The file never goes back to an older report while probes follow each     *)
(* other, and memory never shows what the file has not (754-762).            *)
FileLeads ==
    /\ page.n <= saved.report.n
    /\ \A t \in Thread : Stands(t, "saves") => saved.report.n < asker[t].copy.n

(* /api/health calls nothing ready before the manager has probed, whatever   *)
(* the gateway reports (capability.py 734-764, BUG-257).                     *)
ReadyWasProbed == Health.overall = "ready" => page.n > 0

(* The page in one statement.                                                *)
PageIsHonest == PageTypeOK /\ OneSurvey /\ AnswersAreHeard /\ FileLeads /\ ReadyWasProbed

(* manager_api.py:790 says that after a failed probe the whole stays unknown *)
(* (no false green); the code judges the parts it kept anew as soon as the   *)
(* gateway reports something else.                                           *)
UnknownStays == page.overall = "unknown" => Health.overall = "unknown"

(* Memory is put in place outside the lock, so that an older report may      *)
(* replace a newer one (manager_api.py:810, 1024).                           *)
MemoryFollows == (\A t \in Thread : Stands(t, "idle")) => page.overall = "unknown" \/ page.n = saved.report.n
=============================================================================
