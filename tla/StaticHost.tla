----------------------------- MODULE StaticHost -----------------------------
(* Hosting of static instances with the builtin backend (hosting.py,        *)
(* static_gateway.py, ports.py, status.py): a deployment builds, wipes and  *)
(* fills public/, keeps or takes a port, and replaces the site's http.server*)
(* under the gateway's mutation lock; a failing start is undone.  The      *)
(* status is what the deployment wrote last or what an observer concluded   *)
(* from the process and from any answer on the port of the site's row.      *)
EXTENDS Integers, FiniteSets

CONSTANTS Static,      \* static instances
          Spa,         \* those with a build step (build_and_host_frontend)
          HostPort,        \* the port pool
          NoHostPort, DeadPid, NoStatic, Foreign,
          MaxHost,     \* bound: deployments
          MaxMiss,     \* bound: failing steps, deaths of processes and commands
          MaxForeign   \* bound: ports taken by processes of the machine

ASSUME HostAssumption ==
    /\ Spa \subseteq Static /\ HostPort \subseteq Nat /\ IsFiniteSet(HostPort)
    /\ NoHostPort \notin HostPort /\ DeadPid \notin HostPort \cup {NoHostPort}
    /\ NoStatic \notin Static /\ Foreign \notin Static \cup {NoStatic}
    /\ MaxHost \in Nat /\ MaxMiss \in Nat /\ MaxForeign \in Nat

VARIABLES
    owner,     \* the ports table: who a port is registered for
    listen,    \* who has bound a port
    pidFile,   \* run/static-<id>.pid: the port of the live process it names
    site,      \* the port in the site's configuration file
    srow,      \* status, enabled and host_port in the registry
    built,     \* the latest row of builds
    public,    \* the state of public/
    gate,      \* holder of the gateway's mutation lock
    dep,       \* the deployment that holds the instance's lock
    hgh,       \* ghost: ports given up by a site whose row or configuration names
               \* them, sites one of whose servers could not be killed
    spentHost

hostVars == <<owner, listen, pidFile, site, srow, built, public, gate, dep, hgh, spentHost>>
portVars == <<owner, hgh>>
serverVars == <<listen, pidFile, site>>

MaybePort == HostPort \cup {NoHostPort}
Quiescent == [pc |-> "idle", serving |-> FALSE, synced |-> FALSE, was |-> "none", port |-> NoHostPort,
              fresh |-> FALSE, prev |-> NoHostPort, restore |-> FALSE]
Hosting(s, pc) == dep[s].pc = pc
Step(s, pc) == dep' = [dep EXCEPT ![s].pc = pc]
Free(s) == Hosting(s, "idle")

Slip == spentHost.miss < MaxMiss /\ spentHost' = [spentHost EXCEPT !.miss = @ + 1]
Well == UNCHANGED spentHost

HostInit ==
    /\ owner = [p \in HostPort |-> NoStatic] /\ listen = [p \in HostPort |-> NoStatic]
    /\ pidFile = [s \in Static |-> NoHostPort] /\ site = [s \in Static |-> NoHostPort]
    /\ srow = [s \in Static |-> [status |-> "stopped", on |-> FALSE, port |-> NoHostPort]]
    /\ built = [s \in Static |-> "none"] /\ public = [s \in Static |-> "none"]
    /\ gate = NoStatic /\ dep = [s \in Static |-> Quiescent]
    /\ hgh = [adrift |-> {}, stray |-> {}]
    /\ spentHost = [host |-> 0, miss |-> 0, foreign |-> 0]

----------------------------------------------------------------------------
(* A deployment ends                                                        *)

(* A failing build of a site that serves leaves the old files and the       *)
(* status; one that fails after public/ was touched has nothing to offer.   *)
(* Mutant: what happened to public/ is not looked at.                       *)
StillServes_Always(s) == s \in Spa /\ dep[s].serving
StillServes(s) == s \in Spa /\ dep[s].serving /\ ~dep[s].synced

HostFails(s) ==
    /\ srow' = [srow EXCEPT ![s].status = IF StillServes(s) THEN "running" ELSE "failed"]
    /\ built' = IF s \in Spa THEN [built EXCEPT ![s] = "failed"] ELSE built
    /\ dep' = [dep EXCEPT ![s] = Quiescent]

----------------------------------------------------------------------------
(* Building and filling public/                                             *)

BeginHost(s) ==
    /\ Free(s) /\ spentHost.host < MaxHost
    /\ spentHost' = [spentHost EXCEPT !.host = @ + 1]
    /\ dep' = [dep EXCEPT ![s] = [Quiescent EXCEPT
                  !.pc = IF s \in Spa THEN "build" ELSE "sync",
                  !.serving = srow[s].status = "running" /\ public[s] # "none",
                  !.was = public[s]]]
    /\ srow' = [srow EXCEPT ![s].status = "building"]
    /\ built' = IF s \in Spa THEN [built EXCEPT ![s] = "running"] ELSE built
    /\ UNCHANGED <<portVars, serverVars, public, gate>>

(* A cancelled build leaves the status to the next observation. *)
BuildEnds(s) ==
    /\ Hosting(s, "build")
    /\ \/ Step(s, "sync") /\ Well /\ UNCHANGED <<srow, built>>
       \/ HostFails(s) /\ Slip
       \/ /\ built' = [built EXCEPT ![s] = "cancelled"]
          /\ dep' = [dep EXCEPT ![s] = Quiescent]
          /\ Slip /\ UNCHANGED srow
    /\ UNCHANGED <<portVars, serverVars, public, gate>>

(* public/ is removed before the new files are copied; a page without an    *)
(* HTML file is refused before.                                             *)
EmptyPublic(s) ==
    /\ Hosting(s, "sync")
    /\ \/ /\ public' = [public EXCEPT ![s] = "part"]
          /\ dep' = [dep EXCEPT ![s].pc = "copy", ![s].synced = TRUE]
          /\ Well /\ UNCHANGED <<srow, built>>
       \/ HostFails(s) /\ Slip /\ UNCHANGED public
    /\ UNCHANGED <<portVars, serverVars, gate>>

FillPublic(s) ==
    /\ Hosting(s, "copy")
    /\ \/ /\ public' = [public EXCEPT ![s] = "whole"]
          /\ built' = IF s \in Spa THEN [built EXCEPT ![s] = "success"] ELSE built
          /\ Step(s, "port") /\ Well /\ UNCHANGED srow
       \/ HostFails(s) /\ Slip /\ UNCHANGED public
    /\ UNCHANGED <<portVars, serverVars, gate>>

----------------------------------------------------------------------------
(* The port                                                                 *)

OwnLive(s, p) == srow[s].on /\ owner[p] = s /\ pidFile[s] = p

Reusable(s, p) ==
    /\ p # NoHostPort
    /\ listen[p] = NoStatic \/ OwnLive(s, p)
    /\ owner[p] \in {s, NoStatic}

Dropped(s) == [p \in HostPort |-> IF owner[p] = s THEN NoStatic ELSE owner[p]]

(* _ensure_static_port: the port of the row if nobody else has it by now;   *)
(* otherwise what is registered for the site is given up, although its row  *)
(* and its configuration name that port until the deployment succeeds.      *)
EnsurePort(s) ==
    /\ Hosting(s, "port")
    /\ IF Reusable(s, srow[s].port)
       THEN /\ owner' = [owner EXCEPT ![srow[s].port] = s]
            /\ dep' = [dep EXCEPT ![s].pc = "gate", ![s].port = srow[s].port]
            /\ UNCHANGED hgh
       ELSE /\ owner' = Dropped(s) /\ Step(s, "claim")
            /\ hgh' = [hgh EXCEPT !.adrift = @ \cup ({srow[s].port, site[s]} \ {NoHostPort})]
    /\ UNCHANGED <<serverVars, srow, built, public, gate, spentHost>>

Claimable == {p \in HostPort : owner[p] = NoStatic /\ listen[p] = NoStatic}

(* PortAllocator.allocate: the first port that nobody has registered and    *)
(* that can be bound; the registration itself decides a race.               *)
ClaimPort(s) ==
    /\ Hosting(s, "claim")
    /\ \/ \E p \in Claimable :
            /\ \A q \in Claimable : p <= q
            /\ owner' = [owner EXCEPT ![p] = s]
            /\ dep' = [dep EXCEPT ![s].pc = "gate", ![s].port = p, ![s].fresh = TRUE]
            /\ UNCHANGED <<srow, built>>
       \/ Claimable = {} /\ HostFails(s) /\ UNCHANGED owner
    /\ UNCHANGED <<serverVars, public, gate, hgh, spentHost>>

----------------------------------------------------------------------------
(* The server of the site                                                   *)

HostAlive(s) == pidFile[s] \in HostPort

(* _stop_builtin: the process the pid file names is gone, or the file stays *)
(* and nobody is told.                                                      *)
KillServer(s) ==
    \/ /\ HostAlive(s)
       /\ listen' = [listen EXCEPT ![pidFile[s]] = NoStatic]
       /\ pidFile' = [pidFile EXCEPT ![s] = NoHostPort]
       /\ Well /\ UNCHANGED hgh
    \/ /\ HostAlive(s) /\ Slip
       /\ hgh' = [hgh EXCEPT !.stray = @ \cup {s}]
       /\ UNCHANGED <<listen, pidFile>>
    \/ /\ ~HostAlive(s)
       /\ pidFile' = [pidFile EXCEPT ![s] = NoHostPort]
       /\ Well /\ UNCHANGED <<listen, hgh>>

StopOldServer(s) ==
    /\ Hosting(s, "gate") /\ gate = NoStatic /\ gate' = s
    /\ KillServer(s)
    /\ site' = [site EXCEPT ![s] = dep[s].port]
    /\ dep' = [dep EXCEPT ![s].pc = "spawn", ![s].prev = site[s], ![s].restore = HostAlive(s)]
    /\ UNCHANGED <<owner, srow, built, public>>

(* A server that cannot bind its port dies at once; its pid is recorded.    *)
Bound(s, p, l) == IF l[p] = NoStatic THEN [l EXCEPT ![p] = s] ELSE l
Noted(s, p, l) == [pidFile EXCEPT ![s] = IF l[p] = NoStatic THEN p ELSE DeadPid]

SpawnServer(s) ==
    /\ Hosting(s, "spawn") /\ Step(s, "wait")
    /\ listen' = Bound(s, dep[s].port, listen)
    /\ pidFile' = Noted(s, dep[s].port, listen)
    /\ UNCHANGED <<portVars, site, srow, built, public, gate, spentHost>>

(* Any good answer on the port counts. *)
Healthy(s) ==
    /\ Hosting(s, "wait") /\ listen[dep[s].port] # NoStatic
    /\ Step(s, "note") /\ gate' = NoStatic
    /\ UNCHANGED <<portVars, serverVars, srow, built, public, spentHost>>

(* _restore_after_enable_failure: the new server is stopped, the old        *)
(* configuration and, if one was stopped before, the old server come back.  *)
(* Mutant: the new server is forgotten.                                     *)
NewGone_Kept(s) == listen
NewGone(s) == IF HostAlive(s) THEN [listen EXCEPT ![pidFile[s]] = NoStatic] ELSE listen

Unhealthy(s) ==
    /\ Hosting(s, "wait")
    /\ IF listen[dep[s].port] = s THEN Slip ELSE Well
    /\ site' = [site EXCEPT ![s] = dep[s].prev]
    /\ IF dep[s].restore /\ dep[s].prev # NoHostPort
       THEN /\ listen' = Bound(s, dep[s].prev, NewGone(s))
            /\ pidFile' = Noted(s, dep[s].prev, NewGone(s))
       ELSE listen' = NewGone(s) /\ pidFile' = [pidFile EXCEPT ![s] = NoHostPort]
    /\ Step(s, "giveback") /\ gate' = NoStatic
    /\ UNCHANGED <<portVars, srow, built, public>>

(* Only a port this deployment took is given back: one it reused stays the  *)
(* site's, whose row names it.  Mutant: every port is given back.           *)
GivenBack_Any(s) == [owner EXCEPT ![dep[s].port] = NoStatic]
GivenBack(s) == IF dep[s].fresh THEN [owner EXCEPT ![dep[s].port] = NoStatic] ELSE owner

GiveBack(s) ==
    /\ Hosting(s, "giveback") /\ owner' = GivenBack(s) /\ HostFails(s)
    /\ UNCHANGED <<serverVars, public, gate, hgh, spentHost>>

Hosted(s) ==
    /\ Hosting(s, "note")
    /\ srow' = [srow EXCEPT ![s] = [status |-> "running", on |-> TRUE, port |-> dep[s].port]]
    /\ dep' = [dep EXCEPT ![s] = Quiescent]
    /\ UNCHANGED <<portVars, serverVars, built, public, gate, spentHost>>

----------------------------------------------------------------------------
(* Stopping, observing, and what happens to processes                       *)

StopStatic(s) ==
    /\ Free(s) /\ gate = NoStatic /\ srow[s].on
    /\ KillServer(s)
    /\ site' = [site EXCEPT ![s] = NoHostPort]
    /\ srow' = [srow EXCEPT ![s].status = "stopped", ![s].on = FALSE]
    /\ UNCHANGED <<owner, built, public, gate, dep>>

ActiveBuild(s) == built[s] = "running"
HostAnswers(s) == srow[s].port # NoHostPort /\ listen[srow[s].port] # NoStatic
Observed(s) == IF srow[s].on /\ (HostAlive(s) \/ HostAnswers(s)) THEN "running" ELSE "stopped"

ObserveStatic(s) ==
    /\ Free(s)
    /\ srow[s].status = "building" => ~ActiveBuild(s)
    /\ srow' = [srow EXCEPT ![s].status = Observed(s)]
    /\ UNCHANGED <<portVars, serverVars, built, public, gate, dep, spentHost>>

(* After its time a status of building is taken for a dead deployment's,    *)
(* without the instance's lock; a cancelled build is never too old.         *)
RecoverStale(s) ==
    /\ srow[s].status = "building" /\ built[s] # "cancelled"
    /\ srow' = [srow EXCEPT ![s].status = "failed"]
    /\ built' = IF ActiveBuild(s) THEN [built EXCEPT ![s] = "failed"] ELSE built
    /\ UNCHANGED <<portVars, serverVars, public, gate, dep, spentHost>>

HostDies(s) ==
    /\ ~Free(s) /\ Slip
    /\ dep' = [dep EXCEPT ![s] = Quiescent]
    /\ gate' = IF gate = s THEN NoStatic ELSE gate
    /\ UNCHANGED <<portVars, serverVars, srow, built, public>>

ServerDies(p) ==
    /\ listen[p] \in Static /\ Slip
    /\ listen' = [listen EXCEPT ![p] = NoStatic]
    /\ pidFile' = [s \in Static |-> IF pidFile[s] = p THEN DeadPid ELSE pidFile[s]]
    /\ UNCHANGED <<portVars, site, srow, built, public, gate, dep>>

ForeignTakes(p) ==
    /\ listen[p] = NoStatic /\ spentHost.foreign < MaxForeign
    /\ spentHost' = [spentHost EXCEPT !.foreign = @ + 1]
    /\ listen' = [listen EXCEPT ![p] = Foreign]
    /\ UNCHANGED <<portVars, pidFile, site, srow, built, public, gate, dep>>

ForeignLeaves(p) ==
    /\ listen[p] = Foreign /\ listen' = [listen EXCEPT ![p] = NoStatic]
    /\ UNCHANGED <<portVars, pidFile, site, srow, built, public, gate, dep, spentHost>>

HostStep(s) ==
    \/ BeginHost(s) \/ BuildEnds(s) \/ EmptyPublic(s) \/ FillPublic(s) \/ EnsurePort(s)
    \/ ClaimPort(s) \/ StopOldServer(s) \/ SpawnServer(s) \/ Healthy(s) \/ Unhealthy(s)
    \/ GiveBack(s) \/ Hosted(s) \/ StopStatic(s) \/ ObserveStatic(s) \/ RecoverStale(s)
    \/ HostDies(s)

HostNext ==
    \/ \E s \in Static : HostStep(s)
    \/ \E p \in HostPort : ServerDies(p) \/ ForeignTakes(p) \/ ForeignLeaves(p)

HostSpec == HostInit /\ [][HostNext]_hostVars

----------------------------------------------------------------------------
(* Properties                                                               *)

HostTypeOK ==
    /\ owner \in [HostPort -> Static \cup {NoStatic}]
    /\ listen \in [HostPort -> Static \cup {NoStatic, Foreign}]
    /\ pidFile \in [Static -> MaybePort \cup {DeadPid}] /\ site \in [Static -> MaybePort]
    /\ srow \in [Static -> [status : {"stopped", "building", "running", "failed"},
                            on : BOOLEAN, port : MaybePort]]
    /\ built \in [Static -> {"none", "running", "success", "failed", "cancelled"}]
    /\ public \in [Static -> {"none", "part", "whole"}]
    /\ gate \in Static \cup {NoStatic}
    /\ dep \in [Static -> [pc : {"idle", "build", "sync", "copy", "port", "claim", "gate", "spawn",
                                 "wait", "giveback", "note"},
                           serving : BOOLEAN, synced : BOOLEAN, was : {"none", "part", "whole"},
                           port : MaybePort, fresh : BOOLEAN, prev : MaybePort,
                           restore : BOOLEAN]]

(* The address of a site that is called running is never answered by        *)
(* another site (hosting.py:143-147, 2785-2788, BUG-045 and BUG-182).       *)
OwnContent == \A s \in Static : srow[s].status = "running" /\ srow[s].on =>
                  listen[srow[s].port] \notin Static \ {s}

(* It holds for every port that no site gave up while its row or its        *)
(* configuration still named it.                                            *)
OwnContentKept == \A s \in Static :
    srow[s].status = "running" /\ srow[s].on /\ srow[s].port \notin hgh.adrift
        => listen[srow[s].port] \notin Static \ {s}

(* Every server that runs is named by its site's pid file, so that a later  *)
(* stop finds it, unless killing one of the site's servers had failed.      *)
Traceable == \A s \in Static \ hgh.stray, p \in HostPort : listen[p] = s => pidFile[s] = p

(* A deployment that ends by calling the site running has filled public/,   *)
(* or did not touch it (BUG-833).                                           *)
RunningIsWhole == [][\A s \in Static :
    dep[s].pc # "idle" /\ dep'[s].pc = "idle" /\ srow'[s].status = "running"
    /\ srow[s].status # "running"
        => public'[s] = "whole" \/ public'[s] = dep[s].was]_hostVars

(* The files of a site that is called running are whole (hosting.py:894).   *)
DeclaredWhole == \A s \in Static : srow[s].status = "running" /\ Free(s) => public[s] = "whole"

(* Static sites in one statement: each answers at its own address, its       *)
(* server can be found, and its files are whole when it is called running.   *)
HostIsSafe == []HostTypeOK /\ []OwnContentKept /\ []Traceable /\ RunningIsWhole
=============================================================================
