---------------------------- MODULE CaddyMaster ----------------------------
(* The Caddy masters of two workspaces on one machine (static_gateway.py,   *)
(* admin_port.py): every workspace has an admin port of its own, a pid file *)
(* and a main Caddyfile made of fragments; masters are started under the    *)
(* start lock, configured under the configuration lock and stopped under    *)
(* neither.  Another Caddy, of the system, may use the default admin port.  *)
EXTENDS Integers, FiniteSets

CONSTANTS Ours, Theirs,  \* processes that work on the one and on the other workspace
          Nobody,
          Port, Legacy,  \* ports to assign, and Caddy's default, 2019
          MaxPid, NoPid,
          MaxCmd,        \* bound: commands
          MaxCaddyTrouble     \* bound: deaths, requests that get lost, slow starts

ASSUME CaddyAssumption ==
    /\ Ours \cap Theirs = {} /\ Nobody \notin Ours \cup Theirs
    /\ Legacy \notin Port /\ "unassigned" \notin Port /\ IsFiniteSet(Port)
    /\ MaxPid \in Nat \ {0} /\ NoPid \notin 1..MaxPid /\ MaxCmd \in Nat /\ MaxCaddyTrouble \in Nat

VARIABLES
    reg,       \* run/admin-port
    pidf,      \* run/caddy.pid
    pieces,    \* the fragments under sites/ and aliases/
    mainText,  \* the main Caddyfile
    procs,     \* the Caddy processes of the machine
    startLk, confLk,
    act,       \* the commands
    cgh,       \* ghost: a start was given up while its child was booting, whom a command
               \*        reached besides its own master
    spentCaddy

caddyVars == <<reg, pidf, pieces, mainText, procs, startLk, confLk, act, cgh, spentCaddy>>
diskVars  == <<reg, pidf, pieces, mainText>>
lockVars  == <<startLk, confLk>>

Workspace == {"ours", "theirs"}
Actor   == Ours \cup Theirs
Ws(a)   == IF a \in Ours THEN "ours" ELSE "theirs"
Pid     == 1..MaxPid
Piece   == {"old", "new", "bad"}    \* Caddy rejects a configuration with "bad"
NoPort  == "unassigned"
NoMain  == [adm |-> Legacy, text |-> "none"]
NoProc  == [ws |-> "none", port |-> Legacy, text |-> "none", st |-> "free"]
NoAct   == [pc |-> "idle", op |-> "none", ret |-> "none", prev |-> NoMain, old |-> "old",
            child |-> NoPid, sys |-> FALSE]

AdminOf(w)   == IF reg[w] = NoPort THEN Legacy ELSE reg[w]
Listeners(q) == {p \in Pid : procs[p].st = "up" /\ procs[p].port = q}
AdminAlive(w) == Listeners(AdminOf(w)) # {}
PidAlive(w)  == pidf[w] # NoPid /\ procs[pidf[w]].st = "up"
OwnerOk(w)   == PidAlive(w)     \* asked only when the admin port answers
SystemUp     == \E p \in Pid : procs[p].ws = "system" /\ procs[p].st = "up"
Fresh        == CHOOSE p \in Pid : procs[p].st = "free"
HasFresh     == \E p \in Pid : procs[p].st = "free"
Rendered(w)  == [adm |-> AdminOf(w), text |-> pieces[w]]

CaddyGoes(a, pc)  == act' = [act EXCEPT ![a].pc = pc]
Trouble      == spentCaddy.trouble < MaxCaddyTrouble
                /\ spentCaddy' = [spentCaddy EXCEPT !.trouble = @ + 1]
CaddySmooth       == UNCHANGED spentCaddy
Ends(a)      == /\ act' = [act EXCEPT ![a] = NoAct]
                /\ startLk' = [w \in Workspace |-> IF startLk[w] = a THEN Nobody ELSE startLk[w]]
                /\ confLk' = [w \in Workspace |-> IF confLk[w] = a THEN Nobody ELSE confLk[w]]

(* Whom a request of a reaches besides the masters of its workspace: a      *)
(* Caddy of the system, or the master of the neighbour.                     *)
Reaches(a, p) ==
    IF procs[p].ws = Ws(a) THEN cgh.foreign
    ELSE cgh.foreign \cup {IF procs[p].ws # "system" THEN "neighbour"
                           ELSE IF act[a].sys THEN "system" ELSE "raced"}

(* Masters run already under the default port before an admin port is       *)
(* assigned, from an earlier version.                                       *)
CaddyInit ==
    /\ reg = [w \in Workspace |-> NoPort]
    /\ \E who \in {"none", "system"} \cup Workspace :
         /\ procs = [p \in Pid |-> IF p = 1 /\ who # "none"
                                   THEN [ws |-> who, port |-> Legacy, text |-> "old", st |-> "up"]
                                   ELSE NoProc]
         /\ pidf = [w \in Workspace |-> IF w = who THEN 1 ELSE NoPid]
         /\ mainText = [w \in Workspace |-> IF w = who THEN [adm |-> Legacy, text |-> "old"] ELSE NoMain]
    /\ pieces = [w \in Workspace |-> "old"]
    /\ startLk = [w \in Workspace |-> Nobody] /\ confLk = [w \in Workspace |-> Nobody]
    /\ act = [a \in Actor |-> NoAct]
    /\ cgh = [slow |-> FALSE, foreign |-> {}]
    /\ spentCaddy = [cmds |-> 0, trouble |-> 0]

----------------------------------------------------------------------------
(* Commands.  "enable" writes a fragment and reloads, and takes the         *)
(* fragment back when that fails; "sync" writes the main file whatever      *)
(* happens; "on" is start_gateway and "off" caddy_stop.                     *)

First(op) == CASE op \in {"enable", "sync"} -> "conf" [] op = "on" -> "lock" [] op = "off" -> "off"

BeginCaddy(a, op) ==
    /\ act[a].pc = "idle" /\ spentCaddy.cmds < MaxCmd
    /\ spentCaddy' = [spentCaddy EXCEPT !.cmds = @ + 1]
    /\ act' = [act EXCEPT ![a] = [NoAct EXCEPT !.pc = First(op), !.op = op, !.sys = SystemUp]]
    /\ UNCHANGED <<diskVars, procs, lockVars, cgh>>

(* ensure_admin_port: any port nobody listens on.  What another workspace   *)
(* has registered is not looked up.                                         *)
EnsureAdminPort(w) ==
    reg' \in {[reg EXCEPT ![w] = q] :
                q \in IF reg[w] # NoPort THEN {reg[w]} ELSE {r \in Port : Listeners(r) = {}}}

TakeConf(a) ==
    LET w == Ws(a) IN
    /\ act[a].pc = "conf" /\ confLk[w] = Nobody
    /\ confLk' = [confLk EXCEPT ![w] = a]
    /\ EnsureAdminPort(w)
    /\ pieces' \in {[pieces EXCEPT ![w] = x] :
                      x \in CASE act[a].op = "enable" -> Piece
                              [] act[a].op = "sync" -> {"old", "new"}
                              [] OTHER -> {pieces[w]}}
    /\ act' = [act EXCEPT ![a].old = pieces[w],
                          ![a].pc = IF act[a].op = "sync" THEN "render" ELSE "judge"]
    /\ UNCHANGED <<pidf, mainText, procs, startLk, cgh, spentCaddy>>

(* The owner of the master is checked before anything is written; a master  *)
(* that is down is started.                                                 *)
Judge(a) ==
    LET w == Ws(a) IN
    /\ act[a].pc = "judge"
    /\ IF AdminAlive(w) THEN CaddyGoes(a, IF OwnerOk(w) THEN "render" ELSE "undo")
       ELSE act' = [act EXCEPT ![a].pc = "lock", ![a].ret = "render"]
    /\ UNCHANGED <<diskVars, procs, lockVars, cgh, spentCaddy>>

Render(a) ==
    LET w == Ws(a) IN
    /\ act[a].pc = "render"
    /\ mainText' = [mainText EXCEPT ![w] = Rendered(w)]
    /\ act' = [act EXCEPT ![a].prev = mainText[w],
                 ![a].pc = IF act[a].op = "sync" /\ AdminAlive(w) /\ ~OwnerOk(w) THEN "end" ELSE "push"]
    /\ UNCHANGED <<reg, pidf, pieces, procs, lockVars, cgh, spentCaddy>>

(* caddy reload: whoever listens on the admin port takes the configuration. *)
Takes(a, p, text) ==
    /\ procs' = [procs EXCEPT ![p].text = text]
    /\ cgh' = [cgh EXCEPT !.foreign = Reaches(a, p)]

Push(a) ==
    LET w == Ws(a) IN
    /\ act[a].pc \in {"push", "again"}
    /\ \/ /\ mainText[w].text \notin {"bad", "none"} /\ CaddySmooth
          /\ \E p \in Listeners(AdminOf(w)) : Takes(a, p, mainText[w].text)
          /\ CaddyGoes(a, "end")
       \/ /\ IF AdminAlive(w) /\ mainText[w].text # "bad" THEN Trouble ELSE CaddySmooth
          /\ CaddyGoes(a, IF act[a].pc = "push" THEN "heal" ELSE "back")
          /\ UNCHANGED <<procs, cgh>>
    /\ UNCHANGED <<diskVars, lockVars>>

Heal(a) ==
    LET w == Ws(a) IN
    /\ act[a].pc = "heal"
    /\ IF AdminAlive(w) THEN CaddyGoes(a, IF OwnerOk(w) THEN "again" ELSE "back")
       ELSE act' = [act EXCEPT ![a].pc = "lock", ![a].ret = "again"]
    /\ UNCHANGED <<diskVars, procs, lockVars, cgh, spentCaddy>>

(* The main file of before, and an attempt to load it. *)
PutBack(a) ==
    LET w == Ws(a) IN
    /\ act[a].pc = "back"
    /\ mainText' = IF act[a].op = "sync" THEN mainText
                   ELSE [mainText EXCEPT ![w] = act[a].prev]
    /\ \/ act[a].op # "sync" /\ act[a].prev.text \notin {"bad", "none"}
          /\ \E p \in Listeners(AdminOf(w)) : Takes(a, p, act[a].prev.text)
       \/ UNCHANGED <<procs, cgh>>
    /\ CaddyGoes(a, IF act[a].op = "enable" THEN "undo" ELSE "end")
    /\ UNCHANGED <<reg, pidf, pieces, lockVars, spentCaddy>>

(* The site's fragment is taken back and the main file follows the disk.    *)
UndoCaddy(a) ==
    LET w == Ws(a) IN
    /\ act[a].pc = "undo"
    /\ IF act[a].op # "enable" THEN CaddyGoes(a, "end") /\ UNCHANGED pieces
       ELSE /\ pieces' = [pieces EXCEPT ![w] = act[a].old]
            /\ act' = [act EXCEPT ![a].op = "sync", ![a].pc = "render"]
    /\ UNCHANGED <<reg, pidf, mainText, procs, lockVars, cgh, spentCaddy>>

EndCaddy(a) ==
    /\ act[a].pc = "end" /\ Ends(a)
    /\ UNCHANGED <<diskVars, procs, cgh, spentCaddy>>

----------------------------------------------------------------------------
(* Starting                                                                 *)

(* start_gateway itself, and not a reload, which it may do under its lock.  *)
StartsGateway(a) == act[a].op = "on" /\ act[a].ret = "none"

(* Where a start returns to: how it went matters only to a reload.          *)
Returns(a, ok) ==
    /\ act' = [act EXCEPT ![a].pc = IF StartsGateway(a) THEN IF ok THEN "conf" ELSE "end"
                                    ELSE IF act[a].ret = "render" \/ ok THEN act[a].ret ELSE "back"]
    /\ startLk' = [startLk EXCEPT ![Ws(a)] = IF @ = a /\ act[a].op # "on" THEN Nobody ELSE @]

(* Under the lock the master is looked for again.  Mutant: it is not.       *)
Rechecked_Not(w) == FALSE
Rechecked(w) == AdminAlive(w)

(* The lock is re-entrant.  One that stays taken is given up: the master    *)
(* may be up by then.                                                       *)
TakeStart(a) ==
    LET w == Ws(a) IN
    /\ act[a].pc = "lock"
    /\ \/ /\ startLk[w] \in {Nobody, a}
          /\ IF StartsGateway(a)
             THEN startLk' = [startLk EXCEPT ![w] = a] /\ CaddyGoes(a, "look")
             ELSE IF Rechecked(w) THEN Returns(a, OwnerOk(w))
             ELSE startLk' = [startLk EXCEPT ![w] = a] /\ CaddyGoes(a, "start")
       \/ /\ startLk[w] \notin {Nobody, a}
          /\ IF StartsGateway(a) THEN CaddyGoes(a, "end") /\ UNCHANGED startLk
             ELSE Returns(a, AdminAlive(w) /\ OwnerOk(w))
    /\ UNCHANGED <<diskVars, procs, confLk, cgh, spentCaddy>>

(* adopt_orphan_master: the process on the admin port, when its command     *)
(* line names the workspace.                                                *)
Adoptable(w) == {p \in Listeners(AdminOf(w)) : procs[p].ws = w}

Look(a) ==
    LET w == Ws(a) IN
    /\ act[a].pc = "look"
    /\ IF AdminAlive(w) /\ ~PidAlive(w)
       THEN \/ \E p \in Adoptable(w) : pidf' = [pidf EXCEPT ![w] = p] /\ CaddyGoes(a, "conf")
            \/ Listeners(AdminOf(w)) # Adoptable(w) /\ CaddyGoes(a, "end") /\ UNCHANGED pidf
       ELSE CaddyGoes(a, IF AdminAlive(w) THEN "conf" ELSE "write") /\ UNCHANGED pidf
    /\ UNCHANGED <<reg, pieces, mainText, procs, lockVars, cgh, spentCaddy>>

WriteMain(a) ==
    LET w == Ws(a) IN
    /\ act[a].pc = "write" /\ confLk[w] = Nobody
    /\ mainText' = [mainText EXCEPT ![w] = Rendered(w)] /\ CaddyGoes(a, "start")
    /\ UNCHANGED <<reg, pidf, pieces, procs, lockVars, cgh, spentCaddy>>

(* A master that exits removes the pid file of its workspace, whatever      *)
(* process that names.                                                      *)
Exits(p) ==
    /\ procs' = [procs EXCEPT ![p].st = "dead"]
    /\ pidf' = IF procs[p].ws \in Workspace THEN [pidf EXCEPT ![procs[p].ws] = NoPid] ELSE pidf

(* A master of this workspace on the default port is stopped, anyone        *)
(* else's left alone.  Mutant: it is not asked whose it is.                 *)
LegacyOurs_Any(w) == Listeners(Legacy)
LegacyOurs(w) == {p \in Listeners(Legacy) : procs[p].ws = w}

StopLegacy(a) ==
    \/ \E p \in LegacyOurs(Ws(a)) : Exits(p) /\ CaddySmooth
                                    /\ cgh' = [cgh EXCEPT !.foreign = Reaches(a, p)]
    \/ /\ IF LegacyOurs(Ws(a)) # {} THEN Trouble ELSE CaddySmooth
       /\ UNCHANGED <<procs, pidf, cgh>>

PrepareStart(a) ==
    /\ act[a].pc = "start" /\ EnsureAdminPort(Ws(a))
    /\ StopLegacy(a) /\ CaddyGoes(a, "spawn")
    /\ UNCHANGED <<pieces, mainText, lockVars>>

(* Without a main file a bootstrap configuration is loaded; one rendered    *)
(* for another admin port is rendered again.                                *)
Spawn(a) ==
    LET w == Ws(a)
        stale == mainText[w] # NoMain /\ mainText[w].adm # reg[w]
        text == IF mainText[w] = NoMain THEN "boot" ELSE IF stale THEN pieces[w] ELSE mainText[w].text
    IN
    /\ act[a].pc = "spawn" /\ HasFresh
    /\ mainText' = IF stale THEN [mainText EXCEPT ![w] = Rendered(w)] ELSE mainText
    /\ procs' = [procs EXCEPT ![Fresh] = [ws |-> w, port |-> reg[w], text |-> text, st |-> "booting"]]
    /\ act' = [act EXCEPT ![a].pc = "wait", ![a].child = Fresh]
    /\ UNCHANGED <<reg, pidf, pieces, lockVars, cgh, spentCaddy>>

(* Two masters may bind the same port. *)
BootsUp(p) ==
    /\ procs[p].st = "booting" /\ procs[p].text # "bad"
    /\ procs' = [procs EXCEPT ![p].st = "up"]
    /\ pidf' = [pidf EXCEPT ![procs[p].ws] = p]
    /\ UNCHANGED <<reg, pieces, mainText, lockVars, act, cgh, spentCaddy>>

BootFails(p) ==
    /\ procs[p].st = "booting" /\ IF procs[p].text = "bad" THEN CaddySmooth ELSE Trouble
    /\ procs' = [procs EXCEPT ![p].st = "dead"]
    /\ pidf' \in {pidf, [pidf EXCEPT ![procs[p].ws] = NoPid]}
    /\ UNCHANGED <<reg, pieces, mainText, lockVars, act, cgh>>

(* caddy_start answers from the admin port and the pid file, or after a     *)
(* while, when the child has died or is slow.                               *)
AwaitStart(a) ==
    LET w == Ws(a)
        c == procs[act[a].child]
        ready == AdminAlive(w) /\ PidAlive(w)
    IN
    /\ act[a].pc = "wait"
    /\ \/ (ready \/ c.st = "up") /\ AdminAlive(w) /\ Returns(a, TRUE) /\ CaddySmooth
       \/ ~ready /\ c.st = "dead" /\ Returns(a, FALSE) /\ CaddySmooth
       \/ ~ready /\ c.st # "dead" /\ Returns(a, FALSE) /\ Trouble
    /\ cgh' = [cgh EXCEPT !.slow = @ \/ c.st = "booting"]
    /\ UNCHANGED <<diskVars, procs, confLk>>

----------------------------------------------------------------------------
(* Stopping                                                                 *)

ClearStale(w) == pidf' = IF PidAlive(w) THEN pidf ELSE [pidf EXCEPT ![w] = NoPid]

(* Only a master the pid file names, or one that can be adopted, is         *)
(* stopped; whoever else holds the port is left alone.  Mutant: anyone.     *)
MayStop_Any(w) == TRUE
MayStop(w) == PidAlive(w)

LookAtMaster(a) ==
    LET w == Ws(a) IN
    /\ act[a].pc = "off"
    /\ IF ~AdminAlive(w) THEN ClearStale(w) /\ CaddyGoes(a, "legacy")
       ELSE IF MayStop(w) THEN UNCHANGED pidf /\ CaddyGoes(a, "post")
       ELSE \/ \E p \in Adoptable(w) : pidf' = [pidf EXCEPT ![w] = p] /\ CaddyGoes(a, "post")
            \/ /\ Listeners(AdminOf(w)) # Adoptable(w)
               /\ ClearStale(w) /\ CaddyGoes(a, "legacy")
    /\ UNCHANGED <<reg, pieces, mainText, procs, lockVars, cgh, spentCaddy>>

PostStop(a) ==
    /\ act[a].pc = "post" /\ CaddyGoes(a, "legacy")
    /\ \/ \E p \in Listeners(AdminOf(Ws(a))) :
             Exits(p) /\ CaddySmooth /\ cgh' = [cgh EXCEPT !.foreign = Reaches(a, p)]
       \/ /\ IF AdminAlive(Ws(a)) THEN Trouble /\ UNCHANGED pidf ELSE ClearStale(Ws(a)) /\ CaddySmooth
          /\ UNCHANGED <<procs, cgh>>
    /\ UNCHANGED <<reg, pieces, mainText, lockVars>>

StopRest(a) ==
    /\ act[a].pc = "legacy"
    /\ IF reg[Ws(a)] = NoPort THEN CaddySmooth /\ UNCHANGED <<procs, pidf, cgh>> ELSE StopLegacy(a)
    /\ CaddyGoes(a, "end")
    /\ UNCHANGED <<reg, pieces, mainText, lockVars>>

----------------------------------------------------------------------------
(* What happens meanwhile                                                   *)

CommandDies(a) ==
    /\ act[a].pc # "idle" /\ Trouble /\ Ends(a)
    /\ cgh' = [cgh EXCEPT !.slow = @ \/ act[a].pc = "wait"]
    /\ UNCHANGED <<diskVars, procs>>

MasterDies(p) ==
    /\ procs[p].st = "up" /\ procs[p].ws # "system" /\ Trouble
    /\ procs' = [procs EXCEPT ![p].st = "dead"]
    /\ UNCHANGED <<diskVars, lockVars, act, cgh>>

SystemStarts ==
    /\ ~SystemUp /\ Listeners(Legacy) = {} /\ HasFresh /\ Trouble
    /\ procs' = [procs EXCEPT ![Fresh] = [ws |-> "system", port |-> Legacy, text |-> "old", st |-> "up"]]
    /\ UNCHANGED <<diskVars, lockVars, act, cgh>>

CaddyStep(a) ==
    \/ \E op \in {"enable", "sync", "on", "off"} : BeginCaddy(a, op)
    \/ TakeConf(a) \/ Judge(a) \/ Render(a) \/ Push(a) \/ Heal(a) \/ PutBack(a) \/ UndoCaddy(a)
    \/ EndCaddy(a)
    \/ TakeStart(a) \/ Look(a) \/ WriteMain(a) \/ PrepareStart(a) \/ Spawn(a) \/ AwaitStart(a)
    \/ LookAtMaster(a) \/ PostStop(a) \/ StopRest(a) \/ CommandDies(a)

CaddyNext ==
    \/ \E a \in Actor : CaddyStep(a)
    \/ \E p \in Pid : BootsUp(p) \/ BootFails(p) \/ MasterDies(p)
    \/ SystemStarts

CaddySpec == CaddyInit /\ [][CaddyNext]_caddyVars

----------------------------------------------------------------------------
(* Properties                                                               *)

CaddyTypeOK ==
    /\ reg \in [Workspace -> Port \cup {NoPort}] /\ pidf \in [Workspace -> Pid \cup {NoPid}]
    /\ pieces \in [Workspace -> Piece]
    /\ mainText \in [Workspace -> [adm : Port \cup {Legacy}, text : Piece \cup {"none"}]]
    /\ procs \in [Pid -> [ws : Workspace \cup {"none", "system"}, port : Port \cup {Legacy},
                          text : Piece \cup {"none", "boot"}, st : {"free", "booting", "up", "dead"}]]
    /\ startLk \in [Workspace -> Actor \cup {Nobody}] /\ confLk \in [Workspace -> Actor \cup {Nobody}]

(* A Caddy of the system that ran when a command began is neither           *)
(* configured nor stopped by it (static_gateway.py:1883-1887, BUG-176).     *)
SystemUntouched == "system" \notin cgh.foreign

(* However starts by the command line, the daemon and a reload interleave,  *)
(* a workspace has one master on its admin port, unless a start was given   *)
(* up while its child was still booting (static_gateway.py:2064, CHK-280).  *)
OneMaster ==
    ~cgh.slow => \A w \in Workspace :
        Cardinality({p \in Pid : /\ procs[p].st \in {"booting", "up"} /\ procs[p].ws = w
                                 /\ procs[p].port = AdminOf(w)}) <= 1

(* The master of another workspace is never configured nor stopped          *)
(* (admin_port.py:1-18, BUG-783).                                           *)
NeighbourUntouched == "neighbour" \notin cgh.foreign

(* Caddy's masters in one statement: one for a workspace, and that of the    *)
(* system is left alone.                                                      *)
MasterIsSafe == CaddyTypeOK /\ OneMaster /\ SystemUntouched
=============================================================================
