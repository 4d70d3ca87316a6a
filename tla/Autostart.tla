----------------------------- MODULE Autostart -----------------------------
(* The user units that start the services of a workspace at login           *)
(* (autostart.py, with the systemd backend).  A unit's name is global to    *)
(* the user: one file per service, which names the workspace it serves, so  *)
(* the commands of two workspaces meet in it.  systemd runs what it last    *)
(* read of the file.  A service may also run detached, outside its unit.    *)
EXTENDS Integers, FiniteSets

CONSTANTS Owner,      \* workspaces of one user
          NoOwner,
          Svc,        \* services with a unit
          Target,     \* [Owner -> SUBSET Svc]: what the configuration asks for
          Migrating,  \* services whose detached process is stopped first (not the gateway)
          MaxAuto,    \* bound: commands
          MaxSnag,    \* bound: failing systemctl calls, dying processes
          MaxLogin    \* bound: logins

ASSUME AutostartAssumption ==
    /\ NoOwner \notin Owner /\ Owner # {} /\ IsFiniteSet(Svc)
    /\ Target \in [Owner -> SUBSET Svc] /\ Migrating \subseteq Svc
    /\ MaxAuto \in Nat /\ MaxSnag \in Nat /\ MaxLogin \in Nat

VARIABLES
    unitFile,   \* the workspace each unit file names
    known,      \* the workspace systemd has read in it
    link,       \* the services enabled for login
    main,       \* the workspace whose process is the unit's main process
    det,        \* the services each workspace runs detached
    wish,       \* the services each workspace wants on (its service state)
    acmd,       \* the command of each workspace
    seen,       \* workspaces whose last deep check was green and still stands
    augh,        \* ghosts: off answered; a unit of another workspace was touched
    spentAuto

unitVars == <<unitFile, known, link, main>>
ownVars  == <<det, wish>>
autoVars == <<unitFile, known, link, main, det, wish, acmd, seen, augh, spentAuto>>

MaybeOwner == Owner \cup {NoOwner}
NoAuto == [pc |-> "idle", kind |-> "none", todo |-> {}, write |-> {}, cur |-> {},
           saved |-> NoOwner, good |-> TRUE]

Installed == {s \in Svc : unitFile[s] # NoOwner}
IsActive(s)  == main[s] # NoOwner
IsEnabled(s) == s \in link /\ unitFile[s] # NoOwner
IsManaged(s)   == unitFile[s] # NoOwner /\ (IsActive(s) \/ IsEnabled(s))
PointsHere(w, s) == unitFile[s] = w
RunsOf(w, s) == main[s] = w \/ s \in det[w]

Snag   == spentAuto.snag < MaxSnag /\ spentAuto' = [spentAuto EXCEPT !.snag = @ + 1]
NoSnag == UNCHANGED spentAuto

GoTo(w, c) == acmd' = [acmd EXCEPT ![w] = c]
Done(w)    == GoTo(w, NoAuto)
KeepUnits  == UNCHANGED unitVars
KeepOwn    == UNCHANGED ownVars
KeepSeen   == UNCHANGED <<seen, augh>>
(* Ghost: a command of w works on a unit that is another workspace's. *)
Touch(w, s) ==
    augh' = [augh EXCEPT !.mixed = @ \/ {unitFile[s], known[s], main[s]} \ {w, NoOwner} # {}]

AutoInit ==
    /\ unitFile = [s \in Svc |-> NoOwner] /\ known = unitFile /\ main = unitFile
    /\ link = {} /\ det = [w \in Owner |-> {}] /\ wish = det
    /\ acmd = [w \in Owner |-> NoAuto]
    /\ seen = {} /\ augh = [off |-> [w \in Owner |-> {}], mixed |-> FALSE]
    /\ spentAuto = [cmds |-> 0, snag |-> 0, logins |-> 0]

----------------------------------------------------------------------------
(* systemctl.  A call that fails may have done the first half of its work.  *)

(* enable --now: an active unit is left running what it runs. *)
EnabledNow(s) ==
    /\ known' = unitFile /\ link' = link \cup {s}
    /\ main' = [main EXCEPT ![s] = IF @ = NoOwner THEN unitFile[s] ELSE @]
    /\ UNCHANGED unitFile

EnableFails(s) ==
    /\ link' \in {link, link \cup {s}}
    /\ known' \in {known, unitFile} /\ UNCHANGED <<unitFile, main>>

DisabledNow(s) ==
    /\ link' = link \ {s} /\ main' = [main EXCEPT ![s] = NoOwner]
    /\ known' = unitFile /\ UNCHANGED unitFile

DisableFails(s) == link' \in {link, link \ {s}} /\ UNCHANGED <<unitFile, known, main>>

StartedNow(s)   == main' = [main EXCEPT ![s] = IF @ = NoOwner THEN known[s] ELSE @]
RestartedNow(s) == main' = [main EXCEPT ![s] = known[s]]

----------------------------------------------------------------------------
Begins(w) ==
    /\ acmd[w].pc = "idle" /\ spentAuto.cmds < MaxAuto
    /\ spentAuto' = [spentAuto EXCEPT !.cmds = @ + 1]
    /\ seen' = {}

(* _prepare_daemon_for_supervision and the services' own start: the         *)
(* workspace wants them on; a service once put off is no longer.            *)
Wanted(w, S) == /\ wish' = [wish EXCEPT ![w] = @ \cup S]
                /\ augh' = [augh EXCEPT !.off[w] = @ \ S]

(* install: the units the configuration no longer asks for are uninstalled, *)
(* unless they are kept (repair).                                           *)
BeginInstall(w) ==
    /\ Begins(w)
    /\ \E on \in BOOLEAN, keep \in BOOLEAN :
         LET services == Target[w] \cup (IF keep THEN Installed ELSE {})
             orphans  == Installed \ services
         IN  GoTo(w, [NoAuto EXCEPT !.pc = IF orphans = {} THEN "write" ELSE "drop",
                                    !.kind = IF on THEN "install" ELSE "write",
                                    !.todo = orphans, !.write = services])
    /\ KeepUnits /\ KeepOwn /\ UNCHANGED augh

BeginUninstall(w) ==
    /\ Begins(w) /\ Installed # {}
    /\ GoTo(w, [NoAuto EXCEPT !.pc = "drop", !.kind = "uninstall", !.todo = Installed])
    /\ KeepUnits /\ KeepOwn /\ UNCHANGED augh

(* uninstall of one unit: disable; the file of a unit that is not disabled  *)
(* stays.                                                                   *)
DropDisable(w) ==
    /\ acmd[w].pc = "drop"
    /\ \E s \in acmd[w].todo :
         /\ \/ /\ DisabledNow(s) /\ NoSnag
               /\ GoTo(w, [acmd[w] EXCEPT !.pc = "unlink", !.cur = {s}])
            \/ /\ DisableFails(s) /\ Snag
               /\ GoTo(w, [acmd[w] EXCEPT !.pc = "next", !.todo = @ \ {s}, !.good = FALSE,
                                          !.write = @ \cup {s}])
         /\ Touch(w, s)
    /\ KeepOwn /\ UNCHANGED seen

Unlink(w) ==
    /\ acmd[w].pc = "unlink"
    /\ \E s \in acmd[w].cur :
         /\ unitFile' = [unitFile EXCEPT ![s] = NoOwner]
         /\ GoTo(w, [acmd[w] EXCEPT !.pc = "reload", !.saved = unitFile[s]])
         /\ Touch(w, s)
    /\ UNCHANGED <<known, link, main, seen, spentAuto>> /\ KeepOwn

(* The file is put back when systemd was not told (BUG-161).  Mutant: it    *)
(* is not.                                                                  *)
FileAfter_Gone(w, s) == UNCHANGED unitFile
FileAfter(w, s) == unitFile' = [unitFile EXCEPT ![s] = acmd[w].saved]

ReloadUnits(w) ==
    /\ acmd[w].pc = "reload"
    /\ \E s \in acmd[w].cur :
         \/ /\ known' = unitFile /\ NoSnag /\ UNCHANGED unitFile
            /\ GoTo(w, [acmd[w] EXCEPT !.pc = "next", !.todo = @ \ {s}, !.cur = {},
                                       !.good = @ /\ ~IsActive(s)])
         \/ /\ FileAfter(w, s) /\ Snag /\ UNCHANGED known
            /\ GoTo(w, [acmd[w] EXCEPT !.pc = "next", !.todo = @ \ {s}, !.cur = {},
                                       !.good = FALSE, !.write = @ \cup {s}])
    /\ UNCHANGED <<link, main>> /\ KeepOwn /\ KeepSeen

AfterDrop(w) ==
    /\ acmd[w].pc = "next"
    /\ IF acmd[w].todo # {} THEN GoTo(w, [acmd[w] EXCEPT !.pc = "drop"])
       ELSE IF acmd[w].kind = "uninstall" THEN Done(w)
       ELSE GoTo(w, [acmd[w] EXCEPT !.pc = "write"])
    /\ KeepUnits /\ KeepOwn /\ KeepSeen /\ NoSnag

(* Every unit is written for this workspace, whomever it named before.      *)
WriteUnits(w) ==
    /\ acmd[w].pc = "write"
    /\ unitFile' = [s \in Svc |-> IF s \in acmd[w].write THEN w ELSE unitFile[s]]
    /\ IF acmd[w].kind = "install"
       THEN /\ GoTo(w, [acmd[w] EXCEPT !.pc = "serve", !.todo = acmd[w].write])
            /\ wish' = [wish EXCEPT ![w] = @ \cup Target[w]]
            /\ augh' = [augh EXCEPT !.off[w] = @ \ Target[w],
                         !.mixed = @ \/ \E s \in acmd[w].write :
                                          {unitFile[s], known[s], main[s]} \ {w, NoOwner} # {}]
       ELSE /\ Done(w) /\ UNCHANGED wish
            /\ augh' = [augh EXCEPT !.mixed = @ \/ \E s \in acmd[w].write :
                                          {unitFile[s], known[s], main[s]} \ {w, NoOwner} # {}]
    /\ UNCHANGED <<known, link, main, det, seen>> /\ NoSnag

(* enable works on every installed unit, or on the named ones.              *)
BeginEnable(w) ==
    /\ Begins(w)
    /\ \E S \in SUBSET Installed \ {{}} :
         /\ GoTo(w, [NoAuto EXCEPT !.pc = "serve", !.kind = "enable", !.todo = S])
         /\ Wanted(w, S)
    /\ KeepUnits /\ UNCHANGED det

(* A detached process is stopped first, unless the unit is managed already. *)
NeedsMigration(w, s) == s \in Migrating \cap det[w] /\ ~IsManaged(s)

MigrateDetached(w, s) ==
    /\ NeedsMigration(w, s)
    /\ wish' = [wish EXCEPT ![w] = @ \ {s}]
    /\ \/ /\ det' = [det EXCEPT ![w] = @ \ {s}] /\ NoSnag
          /\ GoTo(w, [acmd[w] EXCEPT !.pc = "enable", !.cur = {s}])
       \/ /\ Snag /\ UNCHANGED det
          /\ GoTo(w, [acmd[w] EXCEPT !.pc = "more", !.todo = @ \ {s}, !.good = FALSE])

(* A unit kept but not asked for is disabled. *)
Serve(w) ==
    /\ acmd[w].pc = "serve"
    /\ \E s \in acmd[w].todo :
         /\ Touch(w, s)
         /\ IF acmd[w].kind = "install" /\ s \notin Target[w]
            THEN /\ GoTo(w, [acmd[w] EXCEPT !.pc = "stop", !.cur = {s}])
                 /\ KeepOwn /\ NoSnag
            ELSE \/ MigrateDetached(w, s)
                 \/ /\ ~NeedsMigration(w, s) /\ KeepOwn /\ NoSnag
                    /\ GoTo(w, [acmd[w] EXCEPT !.pc = "enable", !.cur = {s}])
    /\ KeepUnits /\ UNCHANGED seen

(* A gateway whose unit was not enabled is started detached if it is wanted *)
(* on.                                                                      *)
FailSafe(w, s) ==
    \/ UNCHANGED det
    \/ /\ s \notin Migrating /\ s \in wish[w] /\ main[s] # w
       /\ det' = [det EXCEPT ![w] = @ \cup {s}]

(* The unit's process writes the service's state when it starts.            *)
EnableUnits(w) ==
    /\ acmd[w].pc = "enable"
    /\ \E s \in acmd[w].cur :
         /\ Touch(w, s)
         /\ \/ /\ EnabledNow(s) /\ NoSnag /\ UNCHANGED det
               /\ wish' = IF main[s] = NoOwner /\ unitFile[s] # NoOwner
                          THEN [wish EXCEPT ![unitFile[s]] = @ \cup {s}] ELSE wish
               /\ GoTo(w, [acmd[w] EXCEPT !.pc = "more", !.todo = @ \ {s}, !.cur = {}])
            \/ /\ EnableFails(s) /\ Snag /\ UNCHANGED wish /\ FailSafe(w, s)
               /\ GoTo(w, [acmd[w] EXCEPT !.pc = "more", !.todo = @ \ {s}, !.cur = {},
                                          !.good = FALSE])
    /\ UNCHANGED seen

BeginDisable(w) ==
    /\ Begins(w)
    /\ \E S \in SUBSET Installed \ {{}} :
         GoTo(w, [NoAuto EXCEPT !.pc = "stop", !.kind = "disable", !.todo = S])
    /\ KeepUnits /\ KeepOwn /\ UNCHANGED augh

StopUnit(w) ==
    /\ acmd[w].pc = "stop"
    /\ \E s \in IF acmd[w].kind = "disable" THEN acmd[w].todo ELSE acmd[w].cur :
         /\ Touch(w, s)
         /\ \/ DisabledNow(s) /\ NoSnag
            \/ DisableFails(s) /\ Snag
         /\ GoTo(w, [acmd[w] EXCEPT !.pc = "more", !.todo = @ \ {s}, !.cur = {}])
    /\ KeepOwn /\ UNCHANGED seen

More(w) ==
    /\ acmd[w].pc = "more"
    /\ IF acmd[w].todo = {} THEN Done(w)
       ELSE GoTo(w, [acmd[w] EXCEPT !.pc = IF acmd[w].kind = "disable" THEN "stop" ELSE "serve"])
    /\ KeepUnits /\ KeepOwn /\ KeepSeen /\ NoSnag

----------------------------------------------------------------------------
(* off, and the restarts of an update, first look whether the service's     *)
(* unit is this workspace's own (BUG-890) and would bring the process back: *)
(* it is running, or enabled though it is not (BUG-147).                    *)
(* Mutant: an enabled unit that is not running is overlooked.               *)
Supervised_Active(w, s) == PointsHere(w, s) /\ IsActive(s)
Supervised(w, s) == PointsHere(w, s) /\ (IsActive(s) \/ IsEnabled(s))

BeginAutoOff(w) ==
    /\ Begins(w)
    /\ \E s \in Svc :
         GoTo(w, [NoAuto EXCEPT !.pc = IF Supervised(w, s) THEN "unitoff" ELSE "ownoff",
                                !.kind = "off", !.cur = {s}])
    /\ KeepUnits /\ KeepOwn /\ UNCHANGED augh

(* Nothing is stopped when the unit could not be disabled.                  *)
OffUnit(w) ==
    /\ acmd[w].pc = "unitoff"
    /\ \E s \in acmd[w].cur :
         \/ DisabledNow(s) /\ NoSnag /\ GoTo(w, [acmd[w] EXCEPT !.pc = "ownoff"])
         \/ DisableFails(s) /\ Snag /\ Done(w)
    /\ KeepOwn /\ KeepSeen

(* The workspace stops its own process; one that a unit runs comes back.    *)
OffOwn(w) ==
    /\ acmd[w].pc = "ownoff"
    /\ \E s \in acmd[w].cur :
         /\ wish' = [wish EXCEPT ![w] = @ \ {s}]
         /\ \/ /\ NoSnag /\ det' = [det EXCEPT ![w] = @ \ {s}]
               /\ main' = [main EXCEPT ![s] = IF @ = w THEN known[s] ELSE @]
               /\ augh' = [augh EXCEPT !.off[w] = @ \cup {s}]
            \/ Snag /\ UNCHANGED <<det, main, augh>>
    /\ Done(w) /\ UNCHANGED <<unitFile, known, link, seen>>

BeginRestart(w) ==
    /\ Begins(w)
    /\ \E s \in Svc :
         /\ RunsOf(w, s) \/ s \in wish[w]
         /\ GoTo(w, [NoAuto EXCEPT !.pc = IF Supervised(w, s) THEN "unitre" ELSE "ownre",
                                   !.kind = IF RunsOf(w, s) THEN "restart" ELSE "start",
                                   !.cur = {s}])
         /\ Wanted(w, {s})
    /\ KeepUnits /\ UNCHANGED det

(* A start of a unit that runs is a restart: a start would change nothing   *)
(* (BUG-614).                                                               *)
RestartUnit(w) ==
    /\ acmd[w].pc = "unitre"
    /\ \E s \in acmd[w].cur :
         \/ /\ NoSnag /\ Done(w)
            /\ IF acmd[w].kind = "restart" \/ IsActive(s) THEN RestartedNow(s) ELSE StartedNow(s)
         \/ /\ Snag /\ UNCHANGED main /\ GoTo(w, [acmd[w] EXCEPT !.pc = "ownre"])
    /\ UNCHANGED <<unitFile, known, link>> /\ KeepOwn /\ KeepSeen

RestartOwn(w) ==
    /\ acmd[w].pc = "ownre"
    /\ \E s \in acmd[w].cur :
         /\ det' = [det EXCEPT ![w] = IF main[s] = w THEN @ ELSE @ \cup {s}]
         /\ wish' = [wish EXCEPT ![w] = @ \cup {s}]
    /\ Done(w) /\ KeepUnits /\ KeepSeen /\ NoSnag

(* on starts the service detached, without a look at its unit.              *)
OnDetached(w) ==
    /\ Begins(w)
    /\ \E s \in Svc :
         /\ det' = [det EXCEPT ![w] = IF main[s] = w THEN @ ELSE @ \cup {s}]
         /\ Wanted(w, {s})
    /\ KeepUnits /\ UNCHANGED acmd

----------------------------------------------------------------------------
(* The deep check of one unit: it names this workspace, is enabled, and its *)
(* main process is this workspace's service.  Mutant: whose unit it is does *)
(* not matter.                                                              *)
UnitIdentity_Any(w, s) == unitFile[s] # NoOwner
UnitIdentity(w, s) == unitFile[s] = w

UnitLooksGood(w, s) == UnitIdentity(w, s) /\ IsEnabled(s) /\ main[s] = w

CheckIsGreen(w) == /\ Installed # {} /\ Target[w] \subseteq Installed
                   /\ \A s \in Installed : UnitLooksGood(w, s)

Check(w) ==
    /\ \A v \in Owner : acmd[v].pc = "idle"
    /\ CheckIsGreen(w) /\ w \notin seen /\ seen' = seen \cup {w}
    /\ KeepUnits /\ KeepOwn /\ NoSnag /\ UNCHANGED <<acmd, augh>>

(* systemd gives a unit up; a detached process dies.                        *)
UnitGivenUp(s) ==
    /\ IsActive(s) /\ Snag /\ main' = [main EXCEPT ![s] = NoOwner]
    /\ UNCHANGED <<unitFile, known, link, acmd>> /\ KeepOwn /\ KeepSeen

DetachedDies(w, s) ==
    /\ s \in det[w] /\ Snag /\ det' = [det EXCEPT ![w] = @ \ {s}]
    /\ KeepUnits /\ UNCHANGED <<wish, acmd>> /\ KeepSeen

(* The user logs out and in: commands and processes end, systemd reads the  *)
(* files and starts what is enabled.                                        *)
Login ==
    /\ spentAuto.logins < MaxLogin
    /\ spentAuto' = [spentAuto EXCEPT !.logins = @ + 1]
    /\ known' = unitFile
    /\ main' = [s \in Svc |-> IF IsEnabled(s) THEN unitFile[s] ELSE NoOwner]
    /\ det' = [w \in Owner |-> {}] /\ acmd' = [w \in Owner |-> NoAuto]
    /\ wish' = [w \in Owner |-> wish[w] \cup {s \in Svc : main'[s] = w}]
    /\ UNCHANGED <<unitFile, link>> /\ KeepSeen

AutoCommand(w) ==
    \/ BeginInstall(w) \/ BeginUninstall(w) \/ DropDisable(w) \/ Unlink(w) \/ ReloadUnits(w)
    \/ AfterDrop(w) \/ WriteUnits(w) \/ BeginEnable(w) \/ Serve(w) \/ EnableUnits(w)
    \/ BeginDisable(w) \/ StopUnit(w) \/ More(w)
    \/ BeginAutoOff(w) \/ OffUnit(w) \/ OffOwn(w)
    \/ BeginRestart(w) \/ RestartUnit(w) \/ RestartOwn(w) \/ OnDetached(w) \/ Check(w)

AutoNext ==
    \/ \E w \in Owner : AutoCommand(w)
    \/ \E s \in Svc : UnitGivenUp(s) \/ \E w \in Owner : DetachedDies(w, s)
    \/ Login

AutoSpec == AutoInit /\ [][AutoNext]_autoVars

----------------------------------------------------------------------------
(* Properties                                                               *)

AutoTypeOK ==
    /\ unitFile \in [Svc -> MaybeOwner] /\ known \in [Svc -> MaybeOwner]
    /\ main \in [Svc -> MaybeOwner] /\ link \subseteq Svc
    /\ det \in [Owner -> SUBSET Svc] /\ wish \in [Owner -> SUBSET Svc]
    /\ seen \subseteq Owner
    /\ \A w \in Owner : acmd[w].todo \subseteq Svc /\ Cardinality(acmd[w].cur) \in 0..1

(* A unit whose file is gone is gone for systemd too, whatever call failed  *)
(* on the way (autostart.py:632, BUG-161): what is left could not even be   *)
(* listed for another uninstall.                                            *)
ForgottenIsGone ==
    ~augh.mixed /\ (\A w \in Owner : acmd[w].pc # "reload") =>
        \A s \in Svc \ Installed : known[s] = NoOwner /\ main[s] = NoOwner

(* A service put off stays off, through dying units and the next logins,    *)
(* until its workspace starts it again (autostart.py:1319-1320, BUG-147),   *)
(* as long as no workspace works on another one's units.                    *)
OffStaysOff ==
    ~augh.mixed => \A w \in Owner : \A s \in augh.off[w] : ~RunsOf(w, s)

(* What the deep check calls complete comes back at the next login          *)
(* (autostart.py:1877 and 2122, BUG-151), whatever dies in between.         *)
GreenComesBack ==
    [][spentAuto'.logins > spentAuto.logins =>
         \A w \in seen : \A s \in Target[w] : main'[s] = w]_autoVars

(* off in one workspace never stops the service of another one              *)
(* (autostart.py:1302-1304, BUG-890).                                       *)
OffSparesOthers ==
    [][\A w \in Owner : acmd[w].pc = "unitoff" /\ acmd'[w].pc = "ownoff" =>
         \A s \in Svc : main[s] \notin {w, NoOwner} => main'[s] = main[s]]_autoVars

(* Autostart in one statement: uninstalled is gone, off stays off, and what  *)
(* the check calls complete comes back.                                      *)
AutostartObeys == []AutoTypeOK /\ []ForgottenIsGone /\ []OffStaysOff /\ GreenComesBack
=============================================================================
