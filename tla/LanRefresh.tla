------------------------------ MODULE LanRefresh ------------------------------
(* The addresses of the instances follow the LAN address of the host: the    *)
(* manager (on every list request) and the daemon (on every round) notice a  *)
(* change, rewrite the addresses of all manifests and reload Caddy, while    *)
(* operations under the instance lock write the same manifests               *)
(* (access_workflow.py, access.py).                                          *)
EXTENDS Integers, FiniteSets

CONSTANTS Addr,        \* addresses the host can have
          NoAddr,
          Place,       \* instances with a port
          Refresher,   \* processes that refresh: manager, daemon
          MaxRoam,     \* bound: changes of the address
          MaxLocked,   \* bound: writes under an instance lock
          MaxBlind     \* bound: failing lookups and reloads, deaths, and Caddy switched

ASSUME LanAssumption ==
    /\ NoAddr \notin Addr /\ Addr # {} /\ {MaxRoam, MaxLocked, MaxBlind} \subseteq Nat

VARIABLES
    lan,       \* the address the host has
    page,      \* each manifest: the host of lanUrl, and the locked writes it holds
    held,      \* each instance: the copy of the manifest of who holds its lock
    tls,       \* Caddy: it runs, the address in the Caddyfile and the one it is bound to;
               \*        ghost: the file was written and the reload that follows failed
    memory,    \* each process: cached address, whether it is fresh, last one, just refreshed
    sweep,     \* each process: the refresh in progress
    told       \* bounds

lanVars == <<lan, page, held, tls, memory, sweep, told>>

NoCopy == [host |-> NoAddr, work |-> -1]
NoMemory == [cache |-> NoAddr, fresh |-> FALSE, last |-> NoAddr, recent |-> FALSE]
NoSweep == [on |-> FALSE, asked |-> NoAddr, ip |-> NoAddr, todo |-> {}, at |-> {}, copy |-> NoCopy]

Budget == [roam |-> MaxRoam, locked |-> MaxLocked, blind |-> MaxBlind]
Charge(w) == told[w] < Budget[w] /\ told' = [told EXCEPT ![w] = @ + 1]

----------------------------------------------------------------------------
(* maybe_throttled_lan_refresh                                               *)

(* cached_resolve_lan_ip: a short-lived cache over the lookup.               *)
Cached(p) == IF memory[p].fresh THEN memory[p].cache ELSE lan

(* _persisted_lan_hosts_differ                                               *)
OldInManifests(ip) == \E s \in Place : page[s].host \notin {NoAddr, ip}

Drifted(p, ip) == memory[p].last \notin {NoAddr, ip} \/ OldInManifests(ip)

(* sync_caddy_tls_bind: whether the address is another is judged by the      *)
(* Caddyfile alone.  reload_all writes it anew, reloads a running Caddy, and *)
(* puts the old file back when that fails, which is only logged; one that    *)
(* was switched off stays off.                                               *)
BoundToLan == [on |-> TRUE, file |-> lan, run |-> lan, lag |-> FALSE]
OldText(ip)  == tls.on /\ tls.file # ip
SyncsTlsBind(ip) ==
    \/ ~OldText(ip) /\ UNCHANGED <<tls, told>>
    \/ OldText(ip) /\ tls' = BoundToLan /\ UNCHANGED told
    \/ /\ OldText(ip) /\ Charge("blind")
       /\ tls' \in {tls, [tls EXCEPT !.run = tls.file, !.lag = FALSE]}

(* No drift: the address is remembered, and only Caddy is looked after.      *)
AsksCalm(p) ==
    LET ip == Cached(p)
    IN /\ ~Drifted(p, ip)
       /\ memory' = [memory EXCEPT ![p].cache = ip, ![p].fresh = TRUE, ![p].last = ip]
       /\ SyncsTlsBind(ip)
       /\ UNCHANGED <<lan, page, held, sweep>>

(* Drift: one refresh at a time in a process, and not right after the last.  *)
(* refresh_network_entries looks the address up again.                       *)
AsksDrifted(p) ==
    LET ip == Cached(p)
    IN /\ Drifted(p, ip) /\ ~memory[p].recent /\ ~sweep[p].on
       /\ memory' = [memory EXCEPT ![p].cache = ip, ![p].fresh = TRUE]
       /\ sweep' = [sweep EXCEPT ![p] = [NoSweep EXCEPT !.on = TRUE, !.asked = ip, !.ip = lan, !.todo = Place]]
       /\ UNCHANGED <<lan, page, held, tls, told>>

(* The lookup inside the refresh fails: no manifest is touched (BUG-325).    *)
LooksInVain(p) ==
    /\ sweep[p].on /\ sweep[p].todo = Place /\ sweep[p].at = {} /\ Charge("blind")
    /\ sweep' = [sweep EXCEPT ![p].todo = {}, ![p].ip = NoAddr]
    /\ UNCHANGED <<lan, page, held, tls, memory>>

(* The manifest is loaded, and saved with the addresses of the new host; the *)
(* rest of it as it was loaded.  No lock is taken.                           *)
LoadsPage(p, s) ==
    /\ sweep[p].on /\ sweep[p].at = {} /\ s \in sweep[p].todo
    /\ sweep' = [sweep EXCEPT ![p].at = {s}, ![p].copy = page[s]]
    /\ UNCHANGED <<lan, page, held, tls, memory, told>>

SavesPage(p, s) ==
    /\ sweep[p].at = {s}
    /\ page' = [page EXCEPT ![s] = [sweep[p].copy EXCEPT !.host = sweep[p].ip]]
    /\ sweep' = [sweep EXCEPT ![p].at = {}, ![p].todo = @ \ {s}, ![p].copy = NoCopy]
    /\ UNCHANGED <<lan, held, tls, memory, told>>

EndsSweep(p) ==
    /\ sweep[p].on /\ sweep[p].todo = {}
    /\ IF sweep[p].ip = NoAddr THEN UNCHANGED <<tls, told>> ELSE SyncsTlsBind(sweep[p].ip)
    /\ memory' = [memory EXCEPT ![p].recent = TRUE, ![p].last = sweep[p].asked]
    /\ sweep' = [sweep EXCEPT ![p] = NoSweep]
    /\ UNCHANGED <<lan, page, held>>

(* A process that dies forgets, and its refresh stays half done.             *)
RefresherDies(p) ==
    /\ Charge("blind")
    /\ memory' = [memory EXCEPT ![p] = NoMemory] /\ sweep' = [sweep EXCEPT ![p] = NoSweep]
    /\ UNCHANGED <<lan, page, held, tls>>

(* The minimal interval and the lifetime of the cache run out.               *)
IntervalOver(p) ==
    /\ memory[p].recent /\ memory' = [memory EXCEPT ![p].recent = FALSE]
    /\ UNCHANGED <<lan, page, held, tls, sweep, told>>
CacheOver(p) ==
    /\ memory[p].fresh /\ memory' = [memory EXCEPT ![p].fresh = FALSE]
    /\ UNCHANGED <<lan, page, held, tls, sweep, told>>

----------------------------------------------------------------------------
(* Around it                                                                 *)

(* An operation (start, stop, record_lan_observation) loads the manifest     *)
(* under the instance lock and saves it; a deployment with the address of    *)
(* the moment, others with the address they loaded.                          *)
TakesLock(s) ==
    /\ held[s] = NoCopy /\ Charge("locked")
    /\ held' = [held EXCEPT ![s] = page[s]] /\ UNCHANGED <<lan, page, tls, memory, sweep>>
SavesLocked(s) ==
    /\ held[s] # NoCopy
    /\ \E h \in {held[s].host, lan} : page' = [page EXCEPT ![s] = [host |-> h, work |-> held[s].work + 1]]
    /\ held' = [held EXCEPT ![s] = NoCopy] /\ UNCHANGED <<lan, tls, memory, sweep, told>>

Roams ==
    /\ Charge("roam") /\ \E a \in Addr \ {lan} : lan' = a
    /\ UNCHANGED <<page, held, tls, memory, sweep>>

(* The gateway is switched on, with the address of the moment, or off.       *)
SwitchesCaddy ==
    /\ Charge("blind") /\ tls' = IF tls.on THEN [tls EXCEPT !.on = FALSE] ELSE BoundToLan
    /\ UNCHANGED <<lan, page, held, memory, sweep>>

(* Other operations on the fragments write the Caddyfile anew                *)
(* (_sync_main_config); when the reload fails they only warn and leave the   *)
(* file.  So does a process that dies between the two.                       *)
WritesCaddyfile ==
    /\ tls.on
    /\ \/ tls' = BoundToLan /\ UNCHANGED told
       \/ tls' = [tls EXCEPT !.file = lan, !.lag = TRUE] /\ Charge("blind")
    /\ UNCHANGED <<lan, page, held, memory, sweep>>

LanInit ==
    /\ lan \in Addr
    /\ page = [s \in Place |-> [host |-> lan, work |-> 0]]
    /\ held = [s \in Place |-> NoCopy]
    /\ tls = BoundToLan
    /\ memory = [p \in Refresher |-> NoMemory]
    /\ sweep = [p \in Refresher |-> NoSweep]
    /\ told = [roam |-> 0, locked |-> 0, blind |-> 0]

RefreshStep(p) ==
    \/ AsksCalm(p) \/ AsksDrifted(p) \/ EndsSweep(p)
    \/ \E s \in Place : LoadsPage(p, s) \/ SavesPage(p, s)
TimeStep(p) == IntervalOver(p) \/ CacheOver(p)
LanNext ==
    \/ \E p \in Refresher : RefreshStep(p) \/ TimeStep(p) \/ LooksInVain(p) \/ RefresherDies(p)
    \/ \E s \in Place : TakesLock(s) \/ SavesLocked(s)
    \/ Roams \/ SwitchesCaddy \/ WritesCaddyfile

(* List requests and daemon rounds keep coming, a refresh goes on, time      *)
(* passes, and who holds a lock gets done.                                   *)
LanSpec ==
    /\ LanInit /\ [][LanNext]_lanVars
    /\ \A p \in Refresher : /\ WF_lanVars(RefreshStep(p))
                            /\ WF_lanVars(IntervalOver(p)) /\ WF_lanVars(CacheOver(p))
    /\ \A s \in Place : WF_lanVars(SavesLocked(s))

----------------------------------------------------------------------------
LanTypeOK ==
    /\ lan \in Addr /\ tls \in [on : BOOLEAN, file : Addr, run : Addr, lag : BOOLEAN]
    /\ \A s \in Place : page[s].host \in Addr /\ page[s].work \in 0..MaxLocked
    /\ \A p \in Refresher : sweep[p].todo \subseteq Place /\ Cardinality(sweep[p].at) <= 1

(* Once the host keeps its address, every manifest and a running Caddy come  *)
(* to have it and keep it, although operations write back manifests they     *)
(* loaded before and reloads fail (access_workflow.py 226-288, issue #44);   *)
(* but nobody repeats a reload that failed after the Caddyfile had been      *)
(* written and was left there, while the address stays.                      *)
AddressesFollow ==
    <>[](/\ \A s \in Place : page[s].host = lan
         /\ tls.on => tls.file = lan /\ (tls.run = lan \/ tls.lag))

(* Concurrent clients are serialised by the instance lock (docs/             *)
(* agent-guide.md 95): what was written under it is not taken back.          *)
LockedWritesStay == [][\A s \in Place : page'[s].work >= page[s].work]_lanVars

(* The addresses in one statement: their types, and that they follow the     *)
(* host.                                                                     *)
LanFollows == []LanTypeOK /\ AddressesFollow
=============================================================================
