--------------------------- MODULE GatewaySwitch ---------------------------
(* Changing the backend that serves the static sites (gateway_switch.py),   *)
(* with what it runs: start_gateway and stop_gateway (gateway_service.py)   *)
(* and the site fragments, the Caddy master and the built-in servers        *)
(* (static_gateway.py).  Switches run one at a time under the switch lock,  *)
(* starts of Caddy under the start lock; stopping Caddy takes neither, and  *)
(* sites are started and stopped by other commands all the while, each with *)
(* the configuration its process has loaded: a command line a moment ago,   *)
(* the manager and the daemon when they were started.                       *)
EXTENDS FiniteSets, Integers

CONSTANTS Site,       \* static instances
          Aliased,    \* those with a path alias
          Switcher,   \* processes that switch: the command line and the API
          Resident,   \* processes that keep the configuration they loaded: the manager, the daemon
          NoOne,
          MaxSwitch,  \* bound: switches
          MaxFault,   \* bound: failing steps and deaths
          MaxOther    \* bound: other commands

ASSUME GatewayAssumption ==
    /\ Aliased \subseteq Site /\ IsFiniteSet(Site) /\ NoOne \notin Switcher \cup {"on"} /\ "on" \notin Switcher
    /\ MaxSwitch \in Nat /\ MaxFault \in Nat /\ MaxOther \in Nat

VARIABLES
    backend,  \* staticGateway in config.yml
    enabled,  \* gateway.json: the intent of the user
    caddy,    \* the Caddy master: whether it runs and the fragments it has loaded
    frag,     \* the fragments on disk
    main,     \* the fragments the main Caddyfile on disk is made of
    config,   \* staticGateway in the configuration each resident process holds
    builtin,  \* sites that have a live built-in server
    man, row, \* the gateway named by the manifest and by the row of static_sites
    running,  \* sites whose desired state or status is "running"
    op,       \* the command that holds the instance lock of each site
    sw,       \* the switches
    boot,     \* the start_gateway that holds the start lock
    ggh,      \* ghost: a command overlapped a switch, Caddy did not stop, a switch was torn,
              \*        a plan or a command went by an old configuration; the sites saved last
              \*        with another name than the backend of that moment
    spentSwitch

gatewayVars == <<backend, enabled, caddy, frag, main, builtin, man, row, running, config, op, sw, boot,
                 ggh, spentSwitch>>
siteVars == <<man, row, running, config, op>>
servers  == <<caddy, frag, main, builtin>>

Backend  == {"caddy", "builtin"}
Fragment == {"site", "alias"} \X Site
Of(kind, sites) == {kind} \X sites
NoSnap   == [backend |-> "caddy", enabled |-> FALSE, frag |-> {}, man |-> [i \in Site |-> "caddy"],
             row |-> [i \in Site |-> "caddy"], old |-> {}]
NoSwitch == [pc |-> "idle", from |-> "caddy", to |-> "caddy", snap |-> NoSnap, todo |-> {},
             answer |-> "none"]
NoOp     == [pc |-> "idle", does |-> "start", b |-> "caddy", m |-> "caddy"]
NoBoot   == [by |-> NoOne, pc |-> "none", stopped |-> {}]

Locked     == \E w \in Switcher : sw[w].pc \notin {"idle", "lock"}
Knows(w)   == IF w \in Resident THEN config[w] ELSE backend
Goes(w, pc) == sw' = [sw EXCEPT ![w].pc = pc]
Starts(w, pc, todo) == sw' = [sw EXCEPT ![w].pc = pc, ![w].todo = todo]
Answers(w, a) == sw' = [sw EXCEPT ![w] = [NoSwitch EXCEPT !.answer = a]]
Fails(w)   == Goes(w, "undo")
Fault      == spentSwitch.faults < MaxFault
              /\ spentSwitch' = [spentSwitch EXCEPT !.faults = @ + 1]
Smooth     == UNCHANGED spentSwitch

(* Caddy cannot bind the port of a site that a built-in server holds. *)
PortsHeld(fs) == \E i \in builtin : <<"site", i>> \in fs
Served(i, b) == IF b = "caddy" THEN caddy.up /\ <<"site", i>> \in caddy.loaded /\ i \notin builtin
                               ELSE i \in builtin /\ ~caddy.up
Stopped == [up |-> FALSE, loaded |-> {}]

----------------------------------------------------------------------------
(* start_gateway: the intent is written before Caddy is started and the     *)
(* built-in servers are stopped before that; whoever calls it holds the     *)
(* start lock.                                                              *)

Begins(who) == boot = NoBoot /\ boot' = [NoBoot EXCEPT !.by = who, !.pc = "stop"]
BootEnds(how) == boot' = [boot EXCEPT !.pc = how]

(* stop_all_builtin; a server that resists keeps its port and its pid file. *)
BootStops ==
    /\ boot.pc = "stop"
    /\ \E left \in SUBSET builtin :
         /\ IF left = {} THEN Smooth ELSE Fault
         /\ builtin' = left
         /\ boot' = [boot EXCEPT !.stopped = builtin \ left,
                                 !.pc = IF caddy.up THEN "reload" ELSE "intent"]
    /\ main' = frag
    /\ UNCHANGED <<backend, enabled, caddy, frag, siteVars, sw, ggh>>

BootIntent ==
    /\ boot.pc = "intent" /\ enabled' = TRUE /\ BootEnds("start") /\ Smooth
    /\ UNCHANGED <<backend, servers, siteVars, sw, ggh>>

(* _restore_stopped_builtin *)
BroughtBack == builtin \cup boot.stopped

CaddyStarts ==
    /\ boot.pc = "start"
    /\ IF caddy.up THEN BootEnds("tls") /\ Smooth /\ UNCHANGED <<caddy, builtin>>
       ELSE \/ /\ ~PortsHeld(main) /\ caddy' = [up |-> TRUE, loaded |-> main]
               /\ BootEnds(IF boot.stopped = {} THEN "tls" ELSE "reload")
               /\ UNCHANGED builtin /\ Smooth
            \/ /\ IF PortsHeld(main) THEN Smooth ELSE Fault
               /\ builtin' = BroughtBack /\ BootEnds("failed") /\ UNCHANGED caddy
    /\ UNCHANGED <<backend, enabled, frag, main, siteVars, sw, ggh>>

(* A reload that fails is tolerated, an entry without a valid certificate   *)
(* is not, although Caddy keeps running.                                    *)
BootReloads ==
    /\ boot.pc = "reload" /\ BootEnds("tls")
    /\ \/ ~PortsHeld(frag) /\ caddy.up /\ caddy' = [caddy EXCEPT !.loaded = frag]
          /\ main' = frag /\ Smooth
       \/ (IF PortsHeld(frag) \/ ~caddy.up THEN Smooth ELSE Fault) /\ UNCHANGED <<caddy, main>>
    /\ UNCHANGED <<backend, enabled, frag, builtin, siteVars, sw, ggh>>

BootVerifies ==
    /\ boot.pc = "tls"
    /\ \/ BootEnds("ok") /\ Smooth
       \/ BootEnds("failed") /\ Fault
    /\ UNCHANGED <<backend, enabled, servers, siteVars, sw, ggh>>

Booted(who, how) == boot.by = who /\ boot.pc = how
Released == boot' = NoBoot

(* stop_gateway: Caddy is stopped and only then the intent withdrawn, with  *)
(* the built-in backend the intent first.  It answers whether Caddy         *)
(* stopped.  Mutant: the state is not written after Caddy stopped.          *)
StopGateway_KeepsIntent(b, stops) ==
    /\ caddy' = IF stops THEN Stopped ELSE caddy
    /\ enabled' = IF b = "builtin" THEN FALSE ELSE enabled
    /\ ggh' = [ggh EXCEPT !.stuck = @ \/ (caddy.up /\ ~stops)]
StopGateway(b, stops) ==
    /\ caddy' = IF stops THEN Stopped ELSE caddy
    /\ enabled' = IF stops \/ b = "builtin" THEN FALSE ELSE enabled
    /\ ggh' = [ggh EXCEPT !.stuck = @ \/ (caddy.up /\ ~stops)]

----------------------------------------------------------------------------
(* The switch                                                               *)

(* The plan is made from the configuration the process has loaded, before   *)
(* the lock is taken.                                                       *)
BeginSwitch(w, to) ==
    /\ sw[w].pc = "idle" /\ to # Knows(w)
    /\ spentSwitch.switches < MaxSwitch
    /\ spentSwitch' = [spentSwitch EXCEPT !.switches = @ + 1]
    /\ sw' = [sw EXCEPT ![w] = [NoSwitch EXCEPT !.pc = "lock", !.from = Knows(w), !.to = to]]
    /\ UNCHANGED <<backend, enabled, servers, siteVars, boot, ggh>>

TakeLock(w) ==
    /\ sw[w].pc = "lock"
    /\ \/ ~Locked /\ Goes(w, "snap")
       \/ Locked /\ Answers(w, "refused")
    /\ Smooth /\ UNCHANGED <<backend, enabled, servers, siteVars, boot, ggh>>

Snapshot == [backend |-> backend, enabled |-> enabled, frag |-> frag, man |-> man, row |-> row,
             old |-> ggh.old]
Busy     == \E i \in Site : op[i] # NoOp
TakeSnapshot(w) ==
    /\ sw[w].pc = "snap"
    /\ \/ /\ sw' = [sw EXCEPT ![w].snap = Snapshot,
                              ![w].pc = IF sw[w].to = "builtin" THEN "stop" ELSE "yaml"]
          /\ Smooth
       \/ Answers(w, "refused") /\ Fault
    /\ ggh' = [ggh EXCEPT !.overlap = @ \/ boot.by = "on" \/ Busy, !.stale = @ \/ sw[w].from # backend]
    /\ UNCHANGED <<backend, enabled, servers, siteVars, boot>>

StopCaddy(w) ==
    /\ sw[w].pc = "stop"
    /\ \/ StopGateway("caddy", TRUE) /\ Goes(w, "yaml") /\ Smooth
       \/ caddy.up /\ StopGateway("caddy", FALSE) /\ Fails(w) /\ Fault
    /\ UNCHANGED <<backend, frag, main, builtin, siteVars, boot>>

(* The manager changes the configuration it holds before it is saved, and a *)
(* rollback reads the file without changing that back.                      *)
WriteYaml(w) ==
    /\ sw[w].pc = "yaml"
    /\ config' = IF w \in Resident THEN [config EXCEPT ![w] = sw[w].to] ELSE config
    /\ \/ /\ backend' = sw[w].to /\ Smooth
          /\ IF sw[w].to = "builtin" THEN Starts(w, "enable", running) ELSE Goes(w, "boot")
       \/ Fails(w) /\ Fault /\ UNCHANGED backend
    /\ UNCHANGED <<enabled, servers, man, row, running, op, boot, ggh>>

(* gateway.enable with the built-in backend: its own server is stopped,     *)
(* another is started; where Caddy still holds the port the new server dies *)
(* and the health check is answered by Caddy.                               *)
Revived(i) == IF caddy.up /\ <<"site", i>> \in caddy.loaded THEN builtin \ {i}
                                                            ELSE builtin \cup {i}
EnableBuiltin(w) ==
    /\ sw[w].pc = "enable"
    /\ IF sw[w].todo = {}
       THEN /\ Starts(w, "sync", Site) /\ Smooth /\ UNCHANGED <<frag, builtin>>
       ELSE \E i \in sw[w].todo :
              \/ /\ builtin' = Revived(i) /\ frag' = frag \cup Of("site", {i}) /\ Smooth
                 /\ Starts(w, "enable", sw[w].todo \ {i})
              \/ Fails(w) /\ Fault /\ UNCHANGED <<frag, builtin>>
    /\ UNCHANGED <<backend, enabled, caddy, main, siteVars, boot, ggh>>

CallStart(w) ==
    /\ sw[w].pc \in {"boot", "reboot"}
    /\ \/ Begins(w) /\ Goes(w, IF sw[w].pc = "boot" THEN "booting" ELSE "rebooting")
       \/ boot # NoBoot /\ UNCHANGED boot
          /\ IF sw[w].pc = "boot" THEN Fails(w) ELSE Answers(w, "degraded")
    /\ Smooth /\ UNCHANGED <<backend, enabled, servers, siteVars, ggh>>

StartReturns(w) ==
    /\ sw[w].pc = "booting" /\ Released
    /\ \/ Booted(w, "ok") /\ Goes(w, "alias")
       \/ Booted(w, "failed") /\ Fails(w)
    /\ Smooth /\ UNCHANGED <<backend, enabled, servers, siteVars, ggh>>

(* reload_all starts a master that is gone. *)
RebuildAliases(w) ==
    /\ sw[w].pc = "alias"
    /\ frag' = frag \cup Of("alias", Aliased)
    /\ \/ /\ Aliased = {} \/ ~PortsHeld(frag')
          /\ IF Aliased = {} THEN UNCHANGED <<caddy, main>>
             ELSE main' = frag' /\ caddy' = [up |-> TRUE, loaded |-> frag']
          /\ Starts(w, "sync", Site) /\ Smooth
       \/ /\ Aliased # {} /\ (IF PortsHeld(frag') THEN Smooth ELSE Fault)
          /\ Fails(w) /\ UNCHANGED <<caddy, main>>
    /\ UNCHANGED <<backend, enabled, builtin, siteVars, boot, ggh>>

SyncManifests(w) ==
    /\ sw[w].pc = "sync"
    /\ IF sw[w].todo = {} THEN Goes(w, "access") /\ Smooth /\ UNCHANGED <<man, row, ggh>>
       ELSE \E i \in sw[w].todo :
              /\ man' = [man EXCEPT ![i] = sw[w].to]
              /\ ggh' = [ggh EXCEPT !.old = @ \ {i}]
              /\ \/ /\ row' = [row EXCEPT ![i] = sw[w].to] /\ Smooth
                    /\ Starts(w, "sync", sw[w].todo \ {i})
                 \/ Fails(w) /\ Fault /\ UNCHANGED row
    /\ UNCHANGED <<backend, enabled, servers, running, config, op, boot>>

(* The access pass reports what it finds; only an exception undoes. *)
AccessPass(w) ==
    /\ sw[w].pc = "access"
    /\ \/ Answers(w, "ok") /\ Smooth
       \/ Fails(w) /\ Fault
    /\ UNCHANGED <<backend, enabled, servers, siteVars, boot, ggh>>

----------------------------------------------------------------------------
(* _rollback                                                                *)

(* _restore_snapshot.  Mutant: the registry's rows are left as the failed   *)
(* switch wrote them.                                                       *)
RestoredRows_Left(s) == row
RestoredRows(s) == s.row

Undo(w) ==
    /\ sw[w].pc = "undo"
    /\ LET s == sw[w].snap IN
       \/ /\ backend' = s.backend /\ enabled' = s.enabled /\ frag' = s.frag
          /\ man' = s.man /\ row' = RestoredRows(s)
          /\ Goes(w, IF sw[w].from = "caddy" THEN (IF s.backend = "caddy" THEN "reboot" ELSE "lost")
                                             ELSE "restop")
          /\ Smooth /\ ggh' = [ggh EXCEPT !.old = s.old]
       \/ /\ backend' = s.backend /\ Fault /\ Answers(w, "degraded")
          /\ ggh' = [ggh EXCEPT !.torn = TRUE] /\ UNCHANGED <<enabled, frag, man, row>>
    /\ UNCHANGED <<caddy, main, builtin, running, config, op, boot>>

(* The result of stop_gateway is not looked at. *)
StopAgain(w) ==
    /\ sw[w].pc = "restop"
    /\ \/ StopGateway(backend, TRUE) /\ Smooth
       \/ caddy.up /\ StopGateway(backend, FALSE) /\ Fault
    /\ Starts(w, "reenable", running)
    /\ UNCHANGED <<backend, frag, main, builtin, siteVars, boot>>

Reenable(w) ==
    /\ sw[w].pc = "reenable"
    /\ IF sw[w].todo = {} THEN Goes(w, "review") /\ Smooth /\ UNCHANGED servers
       ELSE \E i \in sw[w].todo :
              \/ /\ frag' = frag \cup Of("site", {i}) /\ Smooth
                 /\ IF backend = "builtin" THEN builtin' = Revived(i) /\ UNCHANGED <<caddy, main>>
                    ELSE builtin' = builtin \ {i} /\ main' = frag'
                         /\ caddy' = [up |-> TRUE, loaded |-> frag']
                 /\ Starts(w, "reenable", sw[w].todo \ {i})
              \/ Answers(w, "degraded") /\ Fault /\ UNCHANGED servers
    /\ UNCHANGED <<backend, enabled, siteVars, boot, ggh>>

RestartReturns(w) ==
    /\ \/ sw[w].pc = "rebooting" /\ Booted(w, "ok") /\ Goes(w, "review") /\ Released
       \/ sw[w].pc = "rebooting" /\ Booted(w, "failed") /\ Answers(w, "degraded") /\ Released
       \/ sw[w].pc = "lost" /\ Answers(w, "degraded") /\ UNCHANGED boot
    /\ Smooth /\ UNCHANGED <<backend, enabled, servers, siteVars, ggh>>

(* The review after a rollback asks every running site. *)
Reachable(i) == (caddy.up /\ <<"site", i>> \in caddy.loaded) \/ i \in builtin
Review(w) ==
    /\ sw[w].pc = "review"
    /\ \/ (\A i \in running : Reachable(i)) /\ Answers(w, "back") /\ Smooth
       \/ (IF \A i \in running : Reachable(i) THEN Fault ELSE Smooth) /\ Answers(w, "degraded")
    /\ UNCHANGED <<backend, enabled, servers, siteVars, boot, ggh>>

(* A process that dies leaves everything where it is; its locks are free. *)
SwitchDies(w) ==
    /\ sw[w].pc # "idle" /\ Fault
    /\ Answers(w, "none")
    /\ boot' = IF boot.by = w THEN NoBoot ELSE boot
    /\ ggh' = [ggh EXCEPT !.torn = @ \/ sw[w].pc # "lock"]
    /\ config' = IF w \in Resident THEN [config EXCEPT ![w] = backend] ELSE config
    /\ UNCHANGED <<backend, enabled, servers, man, row, running, op>>

----------------------------------------------------------------------------
(* Other commands.  One that works while a switch does overlaps it.         *)

Other ==
    /\ spentSwitch.others < MaxOther
    /\ spentSwitch' = [spentSwitch EXCEPT !.others = @ + 1]
    /\ ggh' = [ggh EXCEPT !.overlap = @ \/ Locked]

GatewayOn ==
    /\ Other /\ backend = "caddy" /\ Begins("on")
    /\ UNCHANGED <<backend, enabled, servers, siteVars, sw>>
GatewayOnReturns ==
    /\ Booted("on", "ok") \/ Booted("on", "failed")
    /\ Released /\ Smooth
    /\ UNCHANGED <<backend, enabled, servers, siteVars, sw, ggh>>

(* `gateway off` takes no lock; it overlaps a start that is under way. *)
GatewayOff ==
    /\ spentSwitch.others < MaxOther
    /\ spentSwitch' = [spentSwitch EXCEPT !.others = @ + 1]
    /\ caddy' = Stopped /\ enabled' = FALSE
    /\ ggh' = [ggh EXCEPT !.overlap = @ \/ Locked \/ boot # NoBoot]
    /\ UNCHANGED <<backend, frag, main, builtin, siteVars, sw, boot>>

(* A start, restart or heal of a site goes by the configuration its process *)
(* holds; so does a stop.  They keep the instance lock, which no switch     *)
(* takes; one that runs beside a switch overlaps it.                        *)
TakesSite(i, does) ==
    /\ Other /\ op[i] = NoOp
    /\ \E b \in {backend} \cup {config[p] : p \in Resident} :
          op' = [op EXCEPT ![i] = [pc |-> "taken", does |-> does, b |-> b, m |-> b]]
    /\ UNCHANGED <<backend, enabled, servers, man, row, running, config, sw, boot>>
StartSite(i) == TakesSite(i, "start")
StopSite(i)  == i \in running /\ TakesSite(i, "stop")

Works(i, does) ==
    /\ op[i].pc = "taken" /\ op[i].does = does /\ Smooth
    /\ ggh' = [ggh EXCEPT !.stale = @ \/ op[i].b # backend]
    /\ UNCHANGED <<backend, enabled, man, row, running, config, sw, boot>>

(* gateway.enable; Caddy is started when it does not run. *)
EnableSite(i) ==
    /\ Works(i, "start")
    /\ op' = [op EXCEPT ![i].pc = "save"]
    /\ frag' = frag \cup Of("site", {i})
                    \cup (IF op[i].b = "caddy" THEN Of("alias", Aliased \cap {i}) ELSE {})
    /\ IF op[i].b = "builtin"
       THEN builtin' = Revived(i) /\ UNCHANGED <<caddy, main>>
       ELSE /\ caddy.up \/ boot = NoBoot
            /\ builtin' = builtin \ {i} /\ ~\E j \in builtin' : <<"site", j>> \in frag'
            /\ main' = frag' /\ caddy' = [up |-> TRUE, loaded |-> frag']

(* gateway.disable, with the manifest loaded before. *)
DisableSite(i) ==
    /\ Works(i, "stop")
    /\ op' = [op EXCEPT ![i].pc = "save", ![i].m = man[i]]
    /\ frag' = frag \ ({"site", "alias"} \X {i})
    /\ IF op[i].b = "builtin"
       THEN builtin' = builtin \ {i} /\ UNCHANGED <<caddy, main>>
       ELSE /\ main' = frag' /\ UNCHANGED builtin
            /\ caddy' = IF caddy.up THEN [caddy EXCEPT !.loaded = frag'] ELSE caddy

(* The start names the backend it went by, the stop what it had loaded.     *)
SaveSite(i) ==
    /\ op[i].pc = "save" /\ Smooth
    /\ man' = [man EXCEPT ![i] = op[i].m] /\ row' = [row EXCEPT ![i] = op[i].m]
    /\ running' = IF op[i].does = "start" THEN running \cup {i} ELSE running \ {i}
    /\ ggh' = [ggh EXCEPT !.old = IF op[i].m = backend THEN @ \ {i} ELSE @ \cup {i}]
    /\ op' = [op EXCEPT ![i] = NoOp]
    /\ UNCHANGED <<backend, enabled, servers, config, sw, boot>>

(* The gateway refuses: what it wrote is taken back, nothing is saved.      *)
SiteFails(i) ==
    /\ op[i].pc = "taken" /\ Smooth
    /\ op' = [op EXCEPT ![i] = NoOp]
    /\ UNCHANGED <<backend, enabled, servers, man, row, running, config, sw, boot, ggh>>

(* The manager or the daemon is restarted. *)
Reloads(p) ==
    /\ p \in Switcher => sw[p].pc = "idle"
    /\ config' = [config EXCEPT ![p] = backend] /\ Smooth
    /\ UNCHANGED <<backend, enabled, servers, man, row, running, op, sw, boot, ggh>>

----------------------------------------------------------------------------
GatewayInit ==
    /\ backend \in Backend /\ running \in SUBSET Site
    /\ enabled = (backend = "caddy")
    /\ frag = Of("site", running)
              \cup (IF backend = "caddy" THEN Of("alias", Aliased \cap running) ELSE {})
    /\ caddy = IF backend = "caddy" THEN [up |-> TRUE, loaded |-> frag] ELSE Stopped
    /\ main = caddy.loaded
    /\ builtin = IF backend = "caddy" THEN {} ELSE running
    /\ man = [i \in Site |-> backend] /\ row = man
    /\ config = [p \in Resident |-> backend] /\ op = [i \in Site |-> NoOp]
    /\ sw = [w \in Switcher |-> NoSwitch] /\ boot = NoBoot
    /\ ggh = [overlap |-> FALSE, stuck |-> FALSE, torn |-> FALSE, stale |-> FALSE, old |-> {}]
    /\ spentSwitch = [switches |-> 0, faults |-> 0, others |-> 0]

BootStep == BootStops \/ BootIntent \/ CaddyStarts \/ BootReloads \/ BootVerifies
SwitchStep(w) ==
    \/ \E b \in Backend : BeginSwitch(w, b)
    \/ TakeLock(w) \/ TakeSnapshot(w) \/ StopCaddy(w) \/ WriteYaml(w) \/ EnableBuiltin(w)
    \/ CallStart(w) \/ StartReturns(w) \/ RebuildAliases(w) \/ SyncManifests(w) \/ AccessPass(w)
    \/ Undo(w) \/ StopAgain(w) \/ Reenable(w) \/ RestartReturns(w) \/ Review(w) \/ SwitchDies(w)
OtherStep == GatewayOn \/ GatewayOnReturns \/ GatewayOff
             \/ (\E i \in Site : StartSite(i) \/ StopSite(i) \/ EnableSite(i) \/ DisableSite(i)
                                 \/ SaveSite(i) \/ SiteFails(i))
             \/ \E p \in Resident : Reloads(p)
GatewayNext == BootStep \/ (\E w \in Switcher : SwitchStep(w)) \/ OtherStep

GatewaySpec == GatewayInit /\ [][GatewayNext]_gatewayVars

----------------------------------------------------------------------------
(* The states keep to the values the code writes. *)
GatewayTypeOK ==
    /\ backend \in Backend /\ enabled \in BOOLEAN
    /\ caddy \in [up : BOOLEAN, loaded : SUBSET Fragment]
    /\ frag \subseteq Fragment /\ main \subseteq Fragment
    /\ builtin \subseteq Site /\ running \subseteq Site
    /\ man \in [Site -> Backend] /\ row \in [Site -> Backend] /\ config \in [Resident -> Backend]
    /\ boot.by \in Switcher \cup {"on", NoOne}

(* config.yml, the manifests and the rows of static_sites name one backend  *)
(* whenever no switch is under way, whatever failed in it and whatever ran  *)
(* beside it: no switch leaves behind, and no rollback brings back, another *)
(* name (gateway_switch.py 370-388, 515-560, BUG-515).  Excepted are a      *)
(* switch that died, or whose files could not be put back and that said so, *)
(* and a site that was saved since by a process with an old configuration.  *)
OneBackendNamed ==
    ~Locked /\ ~ggh.torn => \A i \in Site \ ggh.old : man[i] = backend /\ row[i] = backend

(* When a switch answers that it is done, or that all is as before, every   *)
(* running site is served by the backend config.yml names and by no other,  *)
(* Caddy runs exactly if it is that backend, and after a switch that was    *)
(* done the intent says so too and Caddy has loaded every alias.  Another   *)
(* command at the same time, a plan or a command that went by a             *)
(* configuration from before another switch, or a Caddy that will not stop  *)
(* can break it.                                                            *)
SwitchServes ==
    [][\A w \in Switcher :
         sw[w].pc \in {"access", "review"} /\ sw'[w].answer \in {"ok", "back"}
            /\ ~ggh.overlap /\ ~ggh.stuck /\ ~ggh.torn /\ ~ggh.stale =>
         /\ \A i \in running : Served(i, backend)
         /\ caddy.up = (backend = "caddy")
         /\ sw'[w].answer = "ok" => enabled = (backend = "caddy")
         /\ sw'[w].answer = "ok" /\ backend = "caddy" => Of("alias", Aliased) \subseteq caddy.loaded]_gatewayVars

(* A switch of the gateway in one statement: one backend is named, and what  *)
(* a switch answers is so.                                                   *)
SwitchIsSafe == []GatewayTypeOK /\ []OneBackendNamed /\ SwitchServes
=============================================================================
