------------------------------ MODULE WslExposure ------------------------------
(***************************************************************************)
(* What a workspace inside WSL says of an instance's reachability from     *)
(* the local network (wsl_network.py).  It only reads Windows: a snapshot  *)
(* of addresses, port forwards, listeners and firewalls, any part of which *)
(* may be unreadable.  Somebody on another device tries the address, and   *)
(* `record_lan_observation` stores the answer with a fingerprint of the    *)
(* snapshot.  `describe_instance_access` believes the answer for as long   *)
(* as the fingerprint and the address stay the same, and only then calls   *)
(* the instance "externally-verified".                                     *)
(*                                                                         *)
(* The network itself, with what really reaches the instance, is external: *)
(* `world` is the truth, a snapshot is what was read of it.                *)
(***************************************************************************)
EXTENDS Integers, FiniteSets

CONSTANTS
  ServicePort,  \* the ports the instance may serve on
  SparePort,    \* other ports of the Windows host
  Guest,        \* the addresses WSL may give the guest under NAT
  HostAddr,     \* the addresses the Windows host may have
  MaxShift      \* changes of the network and of what is readable

ASSUME WslAssumption ==
  /\ ServicePort # {} /\ ServicePort \cap SparePort = {}
  /\ Guest # {} /\ HostAddr # {} /\ Guest \cap HostAddr = {}
  /\ MaxShift \in Nat

WslPort == ServicePort \cup SparePort
Sense   == {"portproxy", "tcp_listen", "firewall", "hyperv_firewall"}
Goal    == (Guest \cup {"loopback"}) \X WslPort
Rule    == WslPort \X Goal           \* a port forward <<listen, <<to, port>>>>
Url     == HostAddr \X WslPort

VARIABLES
  world,    \* the network as it is
  senses,   \* the queries that answer
  served,   \* the port the instance's entry is on
  tried,    \* the last attempt from another device, not yet recorded
  observed, \* externalLanObservation of the manifest
  cached,   \* the snapshot the manager's process keeps for 45 seconds
  shifts,   \* changes so far
  rgh       \* ghosts: see Record and Shift

wslVars == <<world, senses, served, tried, observed, cached, shifts, rgh>>

Worlds == [mode : {"nat", "mirrored"}, guest : Guest \cup HostAddr, host : HostAddr,
           rules : SUBSET Rule, hears : SUBSET WslPort,
           firewall : {"allow", "block"}, vm : {"allow", "block"}]

\* Nothing tried, nothing observed, nothing cached
Nothing == [is |-> FALSE]

(***************************************************************************)
(* EXTERNAL.  Whether a device on the network that opens port `p` of the   *)
(* host gets to the instance: a forward takes the port wherever it points  *)
(* and needs its listener; without one a mirrored guest answers itself,    *)
(* past the Hyper-V firewall.                                              *)
(***************************************************************************)
Alive(w, goal) == goal[1] \in {"loopback", w.guest}

WslReaches(w, url) ==
  LET here == {r \in w.rules : r[1] = url[2]} IN
  /\ w.firewall = "allow"
  /\ url[1] = w.host
  /\ \/ \E r \in here : Alive(w, r[2]) /\ r[2][2] = served /\ url[2] \in w.hears
     \/ here = {} /\ w.mode = "mirrored" /\ url[2] = served /\ w.vm = "allow"

(***************************************************************************)
(* `_collect_uncached`: what the queries give.  One that fails leaves its  *)
(* part empty and is remembered as unknown.                                *)
(***************************************************************************)
WslSnapshot ==
  [mode |-> world.mode, guest |-> world.guest, host |-> world.host, caps |-> senses,
   rules |-> IF "portproxy" \in senses THEN world.rules ELSE {},
   hears |-> IF "tcp_listen" \in senses THEN world.hears ELSE {},
   firewall |-> IF "firewall" \in senses THEN world.firewall ELSE "",
   vm |-> IF "hyperv_firewall" \in senses THEN world.vm ELSE ""]

\* `snapshot_fingerprint`: the forwards that touch the entry's port, the
\* listeners of the ports those forwards join, and the rest as it is.  Of
\* the queries, the state of every one but portproxy is in it.  (_All: as
\* before BUG-981.  _Own: the listeners of the entry's own port only.)
RelatedRules_All(s) == s.rules
RelatedPorts_Own(s) == {served}
RelatedRules(s) == {r \in s.rules : r[1] = served \/ r[2][2] = served}
RelatedPorts(s) == {served} \cup UNION {{r[1], r[2][2]} : r \in RelatedRules(s)}

WslFingerprint(s) ==
  [mode |-> s.mode, guest |-> s.guest, host |-> s.host, rules |-> RelatedRules(s),
   hears |-> s.hears \cap RelatedPorts(s), firewall |-> s.firewall, vm |-> s.vm,
   caps |-> s.caps \ {"portproxy"}]

(***************************************************************************)
(* `describe_instance_access` for one snapshot.                            *)
(***************************************************************************)
\* `_matching_forward`: the forwards that end at the instance
Matching(s) == {r \in s.rules : r[2][2] = served /\ Alive(s, r[2])}

\* The addresses it may present, the listener of one of the forwards or the
\* port itself; none when no entry was found
Entries(s) ==
  IF Matching(s) # {} THEN {<<s.host, r[1]>> : r \in Matching(s)}
  ELSE IF s.mode = "mirrored" THEN {<<s.host, served>>} ELSE {}

\* The first of them: which one comes first is netsh's order
Entry(s) == CHOOSE u \in Entries(s) : TRUE

IsStale(s) == observed.mark # WslFingerprint(s) \/ Entries(s) = {} \/ observed.url # Entry(s)

Verdict(s) ==
  IF Entries(s) = {} THEN IF "portproxy" \in s.caps THEN "entry-missing" ELSE "unknown"
  ELSE IF observed.is /\ observed.ok /\ ~IsStale(s)
       THEN "externally-verified" ELSE "candidate-unverified"

(***************************************************************************)
(* Init and the actions.                                                   *)
(***************************************************************************)
FirstWorlds ==
  {w \in [mode : {"nat"}, guest : Guest, host : HostAddr,
          rules : {{<<l, <<t, p>>>>} : l \in SparePort, t \in Guest, p \in ServicePort},
          hears : {WslPort}, firewall : {"allow"}, vm : {"allow"}] :
     \A r \in w.rules : r[2][1] = w.guest}
  \cup
  {w \in [mode : {"mirrored"}, guest : HostAddr, host : HostAddr, rules : {{}},
          hears : {{}}, firewall : {"allow"}, vm : {"allow"}] : w.guest = w.host}

WslInit ==
  /\ world \in FirstWorlds
  /\ senses = Sense
  /\ served \in ServicePort
  /\ tried = Nothing /\ observed = Nothing /\ cached = Nothing
  /\ shifts = 0
  /\ rgh = [late |-> FALSE, blind |-> FALSE, touched |-> FALSE, at |-> served]

\* EXTERNAL.  Somebody opens the address the status page presents from
\* another device.
Try ==
  /\ Entries(WslSnapshot) # {}
  /\ tried' = [is |-> TRUE, url |-> Entry(WslSnapshot), old |-> FALSE,
               ok |-> WslReaches(world, Entry(WslSnapshot))]
  /\ UNCHANGED <<world, senses, served, observed, cached, shifts, rgh>>

\* `collect_wsl_network_snapshot`: a process with a young snapshot uses it.
\* The manager keeps its own, a command line starts with none.
Sees(s, by) ==
  IF by = "manager" /\ cached.is THEN s = cached.snap ELSE s = WslSnapshot

CacheAfter(s, by) == IF by = "manager" THEN [is |-> TRUE, snap |-> s] ELSE cached

\* `record_lan_observation`: the attempt is stored with the fingerprint of
\* the snapshot of now.  (The ghosts keep whether that snapshot shows the
\* network the attempt met, whether a query had failed, and the port.)
Record(by) ==
  /\ tried.is
  /\ \E s \in {WslSnapshot} \cup {c.snap : c \in {x \in {cached} : x.is}} :
       /\ Sees(s, by)
       /\ observed' = [is |-> TRUE, url |-> tried.url, ok |-> tried.ok, mark |-> WslFingerprint(s)]
       /\ cached' = CacheAfter(s, by)
       /\ rgh' = [late |-> s # WslSnapshot \/ tried.old, blind |-> s.caps # Sense,
                  touched |-> FALSE, at |-> served]
  /\ tried' = Nothing
  /\ UNCHANGED <<world, senses, served, shifts>>

\* The manager reads the network for a status page, or its snapshot ages
\* past 45 seconds.
Refresh ==
  /\ \/ ~cached.is /\ cached' = [is |-> TRUE, snap |-> WslSnapshot]
     \/ cached.is /\ cached' = Nothing
  /\ UNCHANGED <<world, senses, served, tried, observed, shifts, rgh>>

\* An attempt that was made before the network changed
Aged == IF tried.is THEN [tried EXCEPT !.old = TRUE] ELSE tried

\* EXTERNAL.  The network changes in something the entry may hang on.
Shift(w) ==
  /\ shifts < MaxShift
  /\ world' = w
  /\ shifts' = shifts + 1
  /\ rgh' = [rgh EXCEPT !.touched = TRUE]
  /\ tried' = Aged
  /\ UNCHANGED <<senses, served, observed, cached>>

Restarts ==          \* WSL restarts under NAT: the guest's address moves
  \E g \in Guest \ {world.guest} : world.mode = "nat" /\ Shift([world EXCEPT !.guest = g])
Roams ==             \* the host gets another address, a mirrored guest with it
  \E h \in HostAddr \ {world.host} :
    Shift([world EXCEPT !.host = h, !.guest = IF world.mode = "nat" THEN @ ELSE h])
Forwards ==          \* a forward is added, replaced or removed
  \E l \in WslPort :
    \/ \E g \in Goal : Shift([world EXCEPT !.rules = {r \in @ : r[1] # l} \cup {<<l, g>>},
                                          !.hears = @ \cup {l}])
    \/ Shift([world EXCEPT !.rules = {r \in @ : r[1] # l}])
Deafens ==           \* the listener of a forward stops or comes back
  \E l \in WslPort : Shift([world EXCEPT !.hears = IF l \in @ THEN @ \ {l} ELSE @ \cup {l}])
Guards ==            \* a firewall closes or opens
  \/ Shift([world EXCEPT !.firewall = IF @ = "allow" THEN "block" ELSE "allow"])
  \/ Shift([world EXCEPT !.vm = IF @ = "allow" THEN "block" ELSE "allow"])

\* EXTERNAL.  Another program of the host opens or closes a port, or
\* forwards it to itself, that no forward of the instance uses.
Elsewhere ==
  /\ shifts < MaxShift
  /\ \E l \in SparePort \ RelatedPorts(world) :
       \/ world' = [world EXCEPT !.hears = IF l \in @ THEN @ \ {l} ELSE @ \cup {l}]
       \/ world' = [world EXCEPT !.rules = {r \in @ : r[1] # l} \cup {<<l, <<"loopback", l>>>>}]
  /\ shifts' = shifts + 1
  /\ UNCHANGED <<senses, served, tried, observed, cached, rgh>>

\* EXTERNAL.  A query of Windows starts to fail, or answers again.
Blinks ==
  /\ shifts < MaxShift
  /\ \E q \in Sense : senses' = IF q \in senses THEN senses \ {q} ELSE senses \cup {q}
  /\ shifts' = shifts + 1
  /\ UNCHANGED <<world, served, tried, observed, cached, rgh>>

\* A deployment moves the instance to another port; `merge_network_entry`
\* keeps the observation.
Redeploys ==
  /\ shifts < MaxShift
  /\ served' \in ServicePort \ {served}
  /\ shifts' = shifts + 1
  /\ rgh' = [rgh EXCEPT !.touched = TRUE]
  /\ tried' = Aged
  /\ UNCHANGED <<world, senses, observed, cached>>

WslNext ==
  \/ Try
  \/ \E by \in {"manager", "command"} : Record(by)
  \/ Refresh
  \/ Restarts \/ Roams \/ Forwards \/ Deafens \/ Guards
  \/ Elsewhere \/ Blinks \/ Redeploys

WslSpec == WslInit /\ [][WslNext]_wslVars

(***************************************************************************)
(* Properties.                                                             *)
(***************************************************************************)
WslTypeOK ==
  /\ world \in Worlds /\ senses \subseteq Sense /\ served \in ServicePort
  /\ tried.is => tried.url \in Url /\ tried.ok \in BOOLEAN
  /\ observed.is => observed.url \in Url /\ observed.ok \in BOOLEAN
  /\ cached.is => cached.snap.caps \subseteq Sense
  /\ shifts \in 0..MaxShift

\* An instance that is shown as externally verified, from what Windows says
\* now, is reachable at the address it was verified at: the fingerprint
\* holds everything that reachability hangs on (docs/known-limitations.md:67,
\* 72).  Taken out: an attempt recorded after the network had changed, or
\* while a query failed; a portproxy query that fails now; and an instance
\* that moved to the very port on which a forward to its old one listens.
VerifiedReaches ==
  ( /\ observed.is /\ ~rgh.late /\ ~rgh.blind /\ "portproxy" \in senses /\ rgh.at = served
    /\ Verdict(WslSnapshot) = "externally-verified" )
    => WslReaches(world, observed.url)

\* What other programs of the host do with their own ports does not take
\* the verdict back (BUG-981).
OthersDoNotWithdraw ==
  (observed.is /\ ~rgh.late /\ ~rgh.blind /\ ~rgh.touched /\ senses = Sense)
    => (observed.ok /\ Entries(WslSnapshot) # {} /\ observed.url = Entry(WslSnapshot)
          => Verdict(WslSnapshot) = "externally-verified")

\* "采集能力 unknown↔available 变化仍会使观测失效": a query that answered
\* when the observation was recorded and fails now withdraws the verdict
\* (docs/known-limitations.md:72).
UnreadableWithdraws ==
  (observed.is /\ ~rgh.blind /\ senses # Sense) => Verdict(WslSnapshot) # "externally-verified"

(* The verdict on the Windows entrance in one statement: "verified" is       *)
(* reachable, and strangers' changes do not take it back.                    *)
VerdictIsTrue == WslTypeOK /\ VerifiedReaches /\ OthersDoNotWithdraw
================================================================================
