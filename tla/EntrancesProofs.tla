--------------------------- MODULE EntrancesProofs ---------------------------
(* Proofs about the entrances, for any processes, addresses, ports and any   *)
(* bound: the certificate of the HTTPS entry, the verdict on the entrance     *)
(* through Windows, Caddy's masters, static sites, the change from one        *)
(* backend to the other, and path aliases.  The modules share no state.       *)
EXTENDS EntryCert, WslExposure, CaddyMaster, StaticHost, GatewaySwitch, PathAlias,
        FiniteSetTheorems, TLAPS

(***************************************************************************)
(* The certificate of the entrance.                                        *)
(***************************************************************************)
Issues  == [n : Serials, names : Net \cup {"none"}, root : Nat, aged : BOOLEAN]
TlsText == [way : {"internal", "file"}, names : Net \cup {"none"}]
RendSteps   == {"idle", "key", "crt", "meta", "text", "load"}

Signs(r)   == rend[r].pc \in {"key", "crt", "meta"}
(* A renderer that will have Caddy read the files again. *)
WillForce(r) ==
    \/ rend[r].pc = "meta"
    \/ rend[r].pc \in {"text", "load"} /\ rend[r].renewed

CertTypes ==
    /\ net \in Net /\ root \in Nat
    /\ keyF \in Serials /\ crtF \in Issues /\ metaF \in Issues
    /\ tlsLk \in Renderer \cup {NoRenderer}
    /\ rend \in [Renderer -> [pc : RendSteps, new : Issues, renewed : BOOLEAN]]
    /\ conf \in TlsText /\ loaded \in [conf : TlsText, crt : Issues]
    /\ egh \in [cut : BOOLEAN, missed : BOOLEAN]
    /\ spentCert \in [serial : Serials, trips : Nat]

(* The lock is held by the one that signs. *)
OneSigner == \A r \in Renderer : Signs(r) <=> tlsLk = r

(* The files are of one serial but for what the signer has put already. *)
PairBehindSigner ==
    ~egh.cut =>
        /\ tlsLk = NoRenderer => keyF = crtF.n
        /\ \A r \in Renderer :
             /\ rend[r].pc = "key"  => keyF = crtF.n
             /\ rend[r].pc = "crt"  => keyF = rend[r].new.n
             /\ rend[r].pc = "meta" => keyF = rend[r].new.n /\ crtF.n = rend[r].new.n

(* What Caddy runs lags behind the files only while somebody is to load it. *)
LagIsLoaded ==
    ~egh.cut /\ ~egh.missed =>
        /\ conf # loaded.conf => \E r \in Renderer : rend[r].pc = "load"
        /\ loaded.conf.way = "file" /\ loaded.crt.n # crtF.n => \E r \in Renderer : WillForce(r)

CertInv == CertTypes /\ OneSigner /\ PairBehindSigner /\ LagIsLoaded

(* A text of TLS and an issue of a certificate are well formed. *)
LEMMA CertRecords ==
    /\ NoIssue \in Issues /\ NoTls \in TlsText
    /\ \A names \in Net \cup {"none"} : ByFile(names) \in TlsText /\ ByFile(names).way = "file"
BY CertAssumption DEF Serials, NoIssue, NoTls, ByFile, Issues, TlsText

(* The certificate begins with nothing signed. *)
LEMMA CertStarts == CertInit => CertInv
BY CertAssumption, CertRecords DEF CertInit, Serials, CertTypes, NoRend, NoLoad, RendSteps,
       OneSigner, Signs, NoIssue, NoTls, CertInv, PairBehindSigner, LagIsLoaded

(* Checking the certificate either finds it current or begins to sign. *)
LEMMA CheckCertKeeps ==
    ASSUME CertInv, NEW r \in Renderer, CheckCert(r)
    PROVE  CertInv'
<1> USE DEF CertInv
<1> DEFINE fresh == Issue(spentCert.serial + 1, net)
<1>1. CASE Current(net)
  <2>1. rend' = [rend EXCEPT ![r] = [pc |-> "text", new |-> metaF, renewed |-> FALSE]]
        /\ UNCHANGED <<net, root, keyF, crtF, metaF, tlsLk, conf, loaded, egh, spentCert>>
        /\ rend[r].pc = "idle"
    BY <1>1 DEF CheckCert, entryVars, certFiles
  <2>2. [pc |-> "text", new |-> metaF, renewed |-> FALSE]
           \in [pc : RendSteps, new : Issues, renewed : BOOLEAN]
    BY DEF CertTypes, RendSteps
  <2>3. CertTypes'
    BY <2>1, <2>2 DEF CertTypes
  <2>4. /\ \A q \in Renderer : q # r => rend'[q] = rend[q]
        /\ rend'[r].pc = "text"
    BY <2>1 DEF CertTypes
  <2>5. OneSigner'
    BY <2>1, <2>4 DEF OneSigner, Signs
  <2>6. PairBehindSigner'
    BY <2>1, <2>4 DEF PairBehindSigner
  <2>7. LagIsLoaded'
    BY <2>1, <2>4 DEF WillForce, LagIsLoaded
  <2> QED BY <2>3, <2>5, <2>6, <2>7
<1>2. CASE ~Current(net)
  <2>1. /\ rend' = [rend EXCEPT ![r] = [pc |-> "key", new |-> fresh, renewed |-> FALSE]]
        /\ spentCert' = [spentCert EXCEPT !.serial = @ + 1] /\ spentCert.serial < MaxSerial
        /\ tlsLk' = r /\ tlsLk = NoRenderer
        /\ UNCHANGED <<net, root, keyF, crtF, metaF, conf, loaded, egh>>
        /\ rend[r].pc = "idle"
    BY <1>2 DEF CheckCert, entryVars, certFiles, TlsLockFree
  <2>2. fresh \in Issues /\ spentCert' \in [serial : Serials, trips : Nat]
    BY <2>1, CertAssumption DEF CertTypes, Serials, Issue, Issues
  <2> HIDE DEF fresh
  <2>3. [pc |-> "key", new |-> fresh, renewed |-> FALSE]
           \in [pc : RendSteps, new : Issues, renewed : BOOLEAN]
    BY <2>2 DEF RendSteps
  <2>4. CertTypes'
    BY <2>1, <2>2, <2>3 DEF CertTypes
  <2>5. /\ \A q \in Renderer : q # r => rend'[q] = rend[q]
        /\ rend'[r].pc = "key"
    BY <2>1 DEF CertTypes
  <2>6. \A q \in Renderer : ~Signs(q)
    BY <2>1, CertAssumption DEF OneSigner
  <2>7. OneSigner'
    BY <2>1, <2>5, <2>6 DEF OneSigner, Signs
  <2>8. PairBehindSigner'
    BY <2>1, <2>5, <2>6, CertAssumption DEF PairBehindSigner, Signs
  <2>9. LagIsLoaded'
    BY <2>1, <2>5 DEF WillForce, LagIsLoaded
  <2> QED BY <2>4, <2>7, <2>8, <2>9
<1> QED BY <1>1, <1>2

(* Key, certificate and record are put by the signer alone. *)
LEMMA PutKeeps ==
    ASSUME CertInv, NEW r \in Renderer, PutKey(r) \/ PutCert(r) \/ PutMeta(r)
    PROVE  CertInv'
<1> USE DEF CertInv
<1>1. Signs(r) /\ tlsLk = r /\ \A q \in Renderer \ {r} : ~Signs(q)
  BY DEF OneSigner, Signs, PutKey, PutCert, PutMeta
<1>2. rend[r] \in [pc : RendSteps, new : Issues, renewed : BOOLEAN] /\ rend[r].new.n \in Serials
  BY DEF CertTypes, Issues
<1>3. CASE PutKey(r)
  BY <1>3, <1>2, <1>1, CertAssumption DEF PutKey, entryVars, CertTypes, RendSteps, OneSigner,
         Signs, PairBehindSigner, WillForce, LagIsLoaded
<1>4. CASE PutCert(r)
  BY <1>4, <1>2, <1>1, CertAssumption DEF PutCert, entryVars, CertTypes, RendSteps, OneSigner,
         Signs, PairBehindSigner, WillForce, LagIsLoaded
<1>5. CASE PutMeta(r)
  BY <1>5, <1>2, <1>1, CertAssumption DEF PutMeta, entryVars, CertTypes, RendSteps, OneSigner,
         Signs, PairBehindSigner, WillForce, LagIsLoaded
<1> QED BY <1>3, <1>4, <1>5

(* A signing that fails leaves its lock and is remembered as cut. *)
LEMMA SignFailsKeeps ==
    ASSUME CertInv, NEW r \in Renderer, SignFails(r)
    PROVE  CertInv'
<1> USE DEF CertInv
<1>1. /\ rend' = [rend EXCEPT ![r].pc = "load", ![r].renewed = FALSE]
      /\ tlsLk' = NoRenderer /\ conf' = NoTls /\ egh' = [egh EXCEPT !.cut = TRUE]
      /\ spentCert' = [spentCert EXCEPT !.trips = @ + 1]
      /\ UNCHANGED <<net, root, keyF, crtF, metaF, loaded>>
      /\ Signs(r)
  BY DEF SignFails, Trip, entryVars, certFiles, Signs
<1>2. /\ rend' \in [Renderer -> [pc : RendSteps, new : Issues, renewed : BOOLEAN]]
      /\ \A q \in Renderer : q # r => rend'[q] = rend[q]
      /\ rend'[r].pc = "load"
  BY <1>1 DEF CertTypes, RendSteps
<1>3. spentCert' \in [serial : Serials, trips : Nat]
  BY <1>1 DEF CertTypes
<1>4. egh' \in [cut : BOOLEAN, missed : BOOLEAN] /\ egh'.cut
  BY <1>1 DEF CertTypes
<1>5. CertTypes'
  BY <1>1, <1>2, <1>3, <1>4, CertRecords DEF CertTypes
<1>6. OneSigner'
  BY <1>1, <1>2, CertAssumption DEF OneSigner, Signs
<1> QED BY <1>4, <1>5, <1>6 DEF PairBehindSigner, LagIsLoaded

(* Writing the Caddyfile leaves the load to be done. *)
LEMMA WriteTextKeeps ==
    ASSUME CertInv, NEW r \in Renderer, WriteText(r)
    PROVE  CertInv'
BY CertRecords DEF CertInv, WriteText, entryVars, certFiles, CertTypes, RendSteps, Issues,
       OneSigner, Signs, PairBehindSigner, WillForce, LagIsLoaded

(* Loading reads the pair on disk, or is remembered as missed. *)
LEMMA LoadConfKeeps ==
    ASSUME CertInv, NEW r \in Renderer, LoadConf(r)
    PROVE  CertInv'
<1> USE DEF CertInv
<1>1. /\ rend' = [rend EXCEPT ![r] = NoRend]
      /\ UNCHANGED <<net, root, keyF, crtF, metaF, tlsLk, conf>>
      /\ rend[r].pc = "load"
  BY DEF LoadConf, entryVars, certFiles
<1>2. NoRend \in [pc : RendSteps, new : Issues, renewed : BOOLEAN]
  BY CertRecords DEF NoRend, RendSteps
<1>3. /\ rend' \in [Renderer -> [pc : RendSteps, new : Issues, renewed : BOOLEAN]]
      /\ \A q \in Renderer : q # r => rend'[q] = rend[q]
      /\ rend'[r].pc = "idle"
  BY <1>1, <1>2 DEF CertTypes, NoRend
<1>4. OneSigner'
  BY <1>1, <1>3 DEF OneSigner, Signs
<1>5. ASSUME egh'.cut = egh.cut PROVE PairBehindSigner'
  BY <1>1, <1>3, <1>5 DEF PairBehindSigner
<1>6. CASE conf = loaded.conf /\ ~Forced(r) /\ UNCHANGED <<loaded, egh, spentCert>>
  BY <1>1, <1>3, <1>6, <1>4, <1>5 DEF CertTypes, WillForce, Forced, LagIsLoaded
<1>7. CASE /\ NoTrip /\ UNCHANGED egh
           /\ loaded' = [conf |-> conf, crt |-> IF conf.way = "file" THEN crtF ELSE NoIssue]
  BY <1>7, CertRecords, <1>1, <1>3, <1>4, <1>5 DEF CertTypes, NoTrip, LagIsLoaded
<1>8. CASE /\ IF Readable THEN Trip ELSE NoTrip
           /\ egh' = [egh EXCEPT !.missed = TRUE] /\ UNCHANGED loaded
  <2>1. egh' \in [cut : BOOLEAN, missed : BOOLEAN] /\ egh'.cut = egh.cut /\ egh'.missed
    BY <1>8 DEF CertTypes
  <2>2. spentCert' \in [serial : Serials, trips : Nat]
    BY <1>8 DEF CertTypes, Trip, NoTrip
  <2>3. CertTypes'
    BY <1>1, <1>3, <1>8, <2>1, <2>2 DEF CertTypes
  <2>4. LagIsLoaded'
    BY <2>1 DEF LagIsLoaded
  <2> QED BY <1>4, <1>5, <2>1, <2>3, <2>4
<1>9. \/ conf = loaded.conf /\ ~Forced(r) /\ UNCHANGED <<loaded, egh, spentCert>>
      \/ /\ NoTrip /\ UNCHANGED egh
         /\ loaded' = [conf |-> conf, crt |-> IF conf.way = "file" THEN crtF ELSE NoIssue]
      \/ /\ IF Readable THEN Trip ELSE NoTrip
         /\ egh' = [egh EXCEPT !.missed = TRUE] /\ UNCHANGED loaded
  BY DEF LoadConf
<1> QED BY <1>6, <1>7, <1>8, <1>9

(* A renderer that dies gives its lock back; what it leaves is remembered. *)
LEMMA RendererDiesKeeps ==
    ASSUME CertInv, NEW r \in Renderer, RendererDies(r)
    PROVE  CertInv'
<1> USE DEF CertInv
<1> DEFINE half == rend[r].pc \in {"crt", "meta"}
           left == rend[r].pc \in {"text", "load"}
<1>1. /\ rend' = [rend EXCEPT ![r] = NoRend]
      /\ tlsLk' = IF tlsLk = r THEN NoRenderer ELSE tlsLk
      /\ egh' = [egh EXCEPT !.cut = @ \/ half, !.missed = @ \/ left]
      /\ spentCert' = [spentCert EXCEPT !.trips = @ + 1]
      /\ UNCHANGED <<net, root, keyF, crtF, metaF, conf, loaded>>
  BY DEF RendererDies, Trip, entryVars, certFiles
<1>2. NoRend \in [pc : RendSteps, new : Issues, renewed : BOOLEAN]
  BY CertRecords DEF NoRend, RendSteps
<1>3. /\ rend' \in [Renderer -> [pc : RendSteps, new : Issues, renewed : BOOLEAN]]
      /\ \A q \in Renderer : q # r => rend'[q] = rend[q]
      /\ rend'[r].pc = "idle"
  BY <1>1, <1>2 DEF CertTypes, NoRend
<1>4. /\ egh' \in [cut : BOOLEAN, missed : BOOLEAN]
      /\ egh'.cut = (egh.cut \/ half) /\ egh'.missed = (egh.missed \/ left)
  BY <1>1 DEF CertTypes
<1>5. spentCert' \in [serial : Serials, trips : Nat] /\ tlsLk' \in Renderer \cup {NoRenderer}
  BY <1>1 DEF CertTypes
<1>6. CertTypes'
  BY <1>1, <1>3, <1>4, <1>5 DEF CertTypes
<1>7. OneSigner'
  BY <1>1, <1>3, CertAssumption DEF OneSigner, Signs
<1>8. PairBehindSigner'
  BY <1>4, <1>1, <1>3 DEF PairBehindSigner, OneSigner, Signs
<1>9. LagIsLoaded'
  BY <1>4, <1>3, <1>1 DEF LagIsLoaded, WillForce
<1> QED BY <1>6, <1>7, <1>8, <1>9

(* The world changes addresses, the root and the age of the record only. *)
LEMMA CertWorldKeeps ==
    ASSUME CertInv, NetChanges \/ RootRenewed \/ CertAges
    PROVE  CertInv'
<1> USE DEF CertInv
<1>1. /\ UNCHANGED <<keyF, crtF, tlsLk, rend, conf, loaded, egh>>
      /\ net' \in Net /\ root' \in Nat
      /\ spentCert' \in [serial : Serials, trips : Nat]
  BY DEF NetChanges, RootRenewed, CertAges, Trip, CertTypes, certFiles, entryVars
<1>2. metaF' \in Issues
  BY DEF CertAges, CertTypes, Issues, NetChanges, RootRenewed, certFiles
<1>3. CertTypes'
  BY <1>1, <1>2 DEF CertTypes
<1>4. OneSigner' /\ PairBehindSigner' /\ LagIsLoaded'
  BY <1>1 DEF OneSigner, Signs, PairBehindSigner, LagIsLoaded, WillForce
<1> QED BY <1>3, <1>4

(* No step of a renderer or of the world breaks the invariant. *)
LEMMA CertStep == CertInv /\ [CertNext]_certVars => CertInv'
BY CertWorldKeeps, CheckCertKeeps, PutKeeps, SignFailsKeeps, WriteTextKeeps, LoadConfKeeps,
   RendererDiesKeeps DEF CertInv, CertTypes, OneSigner, Signs, PairBehindSigner, LagIsLoaded,
       WillForce, certVars, CertNext

(* Key and certificate are of one serial but between the two writes of the   *)
(* signer that holds the lock, and Caddy's copy lags behind only while       *)
(* somebody is to load it (static_gateway.py, ensure_entry_tls_cert).        *)
THEOREM CertInvariant == CertSpec => []CertInv
<1> QED BY CertStarts, CertStep, PTL DEF CertSpec

(* For any renderers, addresses, number of signings, deaths and changes: the *)
(* key and the certificate on disk belong together whoever signs at once,    *)
(* and at rest Caddy serves the renewed one (static_gateway.py:478, 671).    *)
THEOREM CertStaysSafe == CertSpec => []CertIsSafe
<1>1. CertInv => CertIsSafe
  <2> SUFFICES ASSUME CertInv PROVE CertIsSafe
    OBVIOUS
  <2>1. CertTypeOK
    BY DEF CertInv, CertTypes, CertTypeOK, Issues, TlsText, RendSteps
  <2>2. PairOnDisk
    BY DEF CertInv, CertTypes, OneSigner, Signs, PairBehindSigner, PairOnDisk
  <2>3. RenewedIsServed
    BY DEF CertInv, LagIsLoaded, WillForce, RenewedIsServed
  <2> QED BY <2>1, <2>2, <2>3 DEF CertIsSafe
<1> QED BY <1>1, CertInvariant, PTL

(***************************************************************************)
(* The verdict on the Windows entrance.                                    *)
(***************************************************************************)

(* What a snapshot with every query answered says. *)
FullSnapshot(w) ==
    [mode |-> w.mode, guest |-> w.guest, host |-> w.host, caps |-> Sense, rules |-> w.rules,
     hears |-> w.hears, firewall |-> w.firewall, vm |-> w.vm]

(* Reachability as a fingerprint tells it: what `WslReaches` reads of the    *)
(* network, read off the fingerprint instead.                                *)
MarkReaches(m, url, port) ==
    LET here == {r \in m.rules : r[1] = url[2]} IN
    /\ m.firewall = "allow"
    /\ url[1] = m.host
    /\ \/ \E r \in here : Alive(m, r[2]) /\ r[2][2] = port /\ url[2] \in m.hears
       \/ here = {} /\ m.mode = "mirrored" /\ url[2] = port /\ m.vm = "allow"

(* The ports an entry may be on: the instance's own and those forwarded to it. *)
EntryPorts(w) == {served} \cup {r[1] : r \in {q \in w.rules : q[2][2] = served}}

Attempt == [is : {TRUE}, url : Url, old : BOOLEAN, ok : BOOLEAN]
Ghosts  == [late : BOOLEAN, blind : BOOLEAN, touched : BOOLEAN, at : ServicePort]

WslTypes ==
    /\ world \in Worlds /\ senses \in SUBSET Sense /\ served \in ServicePort
    /\ tried \in {Nothing} \cup Attempt
    /\ observed.is \in BOOLEAN /\ (observed.is => observed.url \in Url /\ observed.ok \in BOOLEAN)
    /\ cached.is \in BOOLEAN /\ (cached.is => cached.snap.caps \in SUBSET Sense)
    /\ shifts \in 0..MaxShift /\ rgh \in Ghosts

(* netsh keeps one forward for a port. *)
OneForward == \A r, q \in world.rules : r[1] = q[1] => r = q

(* An attempt that is not old met the network as it is. *)
AttemptIsTrue ==
    tried.is /\ ~tried.old => /\ tried.url[2] \in EntryPorts(world)
                              /\ tried.ok <=> WslReaches(world, tried.url)

(* An observation answers as its fingerprint does; the fingerprint is that of *)
(* now until something changed that it hangs on.                              *)
MarkIsTrue ==
    observed.is /\ ~rgh.late /\ ~rgh.blind =>
        /\ observed.mark.caps = Sense \ {"portproxy"}
        /\ observed.ok <=> MarkReaches(observed.mark, observed.url, rgh.at)
        /\ ~rgh.touched => observed.mark = WslFingerprint(FullSnapshot(world)) /\ rgh.at = served

WslInv == WslTypes /\ OneForward /\ AttemptIsTrue /\ MarkIsTrue

(***************************************************************************)
(* Lemmas about the network and its fingerprint.                           *)
(***************************************************************************)

(* A forward of a world is made of ports and an address. *)
LEMMA RuleParts ==
    ASSUME NEW r \in Rule
    PROVE  r[1] \in WslPort /\ r[2] \in Goal /\ r[2][2] \in WslPort
BY DEF Rule, Goal

(* When every query answers the snapshot is the full one; what a query that  *)
(* fails leaves out is only ever less.                                       *)
LEMMA Snapshots ==
    ASSUME WslTypes
    PROVE  /\ senses = Sense => WslSnapshot = FullSnapshot(world)
           /\ WslSnapshot.caps = senses /\ WslSnapshot.host = world.host
           /\ WslSnapshot.rules \subseteq world.rules
BY DEF WslSnapshot, FullSnapshot, Sense

(* An entry that is presented is on one of the ports of the instance. *)
LEMMA EntryIsPort ==
    ASSUME WslTypes, Entries(WslSnapshot) # {}
    PROVE  Entry(WslSnapshot) \in Url /\ Entry(WslSnapshot)[2] \in EntryPorts(world)
<1> DEFINE s == WslSnapshot
           u == Entry(s)
<1>1. u \in Entries(s)
  BY DEF Entry
<1>2. s.host = world.host /\ s.rules \subseteq world.rules /\ world.rules \subseteq Rule
      /\ world.host \in HostAddr /\ served \in WslPort
  BY Snapshots DEF WslTypes, Worlds, WslPort
<1>3. CASE Matching(s) # {}
  BY <1>1, <1>3, <1>2, RuleParts DEF Entries, Matching, Url, EntryPorts
<1>4. CASE Matching(s) = {}
  BY <1>1, <1>4, <1>2 DEF Entries, Url, EntryPorts
<1> QED BY <1>3, <1>4

(* For an entry of the instance the fingerprint holds everything that         *)
(* reachability hangs on.                                                     *)
LEMMA MarkTellsAll ==
    ASSUME NEW w \in Worlds, \A r, q \in w.rules : r[1] = q[1] => r = q,
           NEW url, url[2] \in EntryPorts(w)
    PROVE  WslReaches(w, url)
             <=> MarkReaches(WslFingerprint(FullSnapshot(w)), url, served)
BY DEF WslFingerprint, FullSnapshot, RelatedRules, EntryPorts, RelatedPorts, Alive, MarkReaches,
       WslReaches

(***************************************************************************)
(* The steps.                                                              *)
(***************************************************************************)

(* What strangers do with their own ports changes neither the fingerprint nor *)
(* the ports of the instance.                                                 *)
LEMMA StrangersLeaveMark ==
    ASSUME WslTypes, OneForward, Elsewhere
    PROVE  /\ world' \in Worlds /\ OneForward'
           /\ WslFingerprint(FullSnapshot(world))' = WslFingerprint(FullSnapshot(world))
           /\ EntryPorts(world)' = EntryPorts(world)
<1>1. PICK l \in SparePort \ RelatedPorts(world) :
        \/ world' = [world EXCEPT !.hears = IF l \in @ THEN @ \ {l} ELSE @ \cup {l}]
        \/ world' = [world EXCEPT !.rules = {r \in @ : r[1] # l} \cup {<<l, <<"loopback", l>>>>}]
  BY DEF Elsewhere
<1>2. served' = served /\ l \in WslPort /\ l # served /\ served \in ServicePort
  BY WslAssumption DEF Elsewhere, WslPort, WslTypes
<1> DEFINE rel == {r \in world.rules : r[1] = served \/ r[2][2] = served}
           ports == {served} \cup UNION {{r[1], r[2][2]} : r \in rel}
<1>3. l \notin ports
  BY <1>1 DEF RelatedPorts, RelatedRules
<1>4. RelatedRules(FullSnapshot(world)) = rel /\ RelatedPorts(FullSnapshot(world)) = ports
  BY DEF RelatedPorts, RelatedRules, FullSnapshot
<1>5. \A r \in rel : r[1] # l
  BY <1>3
<1>6. /\ world'.mode = world.mode /\ world'.guest = world.guest /\ world'.host = world.host
      /\ world'.firewall = world.firewall /\ world'.vm = world.vm
  BY <1>1 DEF WslTypes, Worlds
<1>7. CASE world' = [world EXCEPT !.hears = IF l \in @ THEN @ \ {l} ELSE @ \cup {l}]
  <2>1. /\ world'.rules = world.rules
        /\ world'.hears = IF l \in world.hears THEN world.hears \ {l} ELSE world.hears \cup {l}
    BY <1>7 DEF WslTypes, Worlds
  <2>2. world' \in Worlds
    BY <1>2, <1>7 DEF WslTypes, Worlds
  <2>3. OneForward' /\ EntryPorts(world)' = EntryPorts(world)
    BY <1>2, <2>1 DEF OneForward, EntryPorts
  <2>4. world'.hears \cap ports = world.hears \cap ports
    BY <1>3, <2>1
  <2>5. RelatedRules(FullSnapshot(world))' = rel /\ RelatedPorts(FullSnapshot(world))' = ports
    BY <1>2, <2>1 DEF RelatedPorts, RelatedRules, FullSnapshot
  <2>6. WslFingerprint(FullSnapshot(world))' = WslFingerprint(FullSnapshot(world))
    BY <1>4, <1>6, <2>4, <2>5 DEF WslFingerprint, FullSnapshot
  <2> QED BY <2>2, <2>3, <2>6
<1>8. CASE world' = [world EXCEPT !.rules = {r \in @ : r[1] # l} \cup {<<l, <<"loopback", l>>>>}]
  <2> DEFINE new == <<l, <<"loopback", l>>>>
  <2>1. /\ world'.hears = world.hears
        /\ world'.rules = {r \in world.rules : r[1] # l} \cup {new}
    BY <1>8 DEF WslTypes, Worlds
  <2>2. new \in Rule /\ new[1] = l /\ new[2][2] = l
    BY <1>2 DEF Rule, Goal
  <2> HIDE DEF new
  <2>3. world'.rules \in SUBSET Rule
    BY <2>1, <2>2 DEF WslTypes, Worlds
  <2>4. world' \in Worlds
    BY <1>8, <2>1, <2>3 DEF WslTypes, Worlds
  <2>5. OneForward'
    BY <2>1, <2>2 DEF OneForward
  <2>6. {r \in world'.rules : r[1] = served \/ r[2][2] = served} = rel
    BY <1>2, <1>5, <2>1, <2>2
  <2>7. {q \in world'.rules : q[2][2] = served} = {q \in world.rules : q[2][2] = served}
    BY <1>2, <1>5, <2>1, <2>2
  <2>8. EntryPorts(world)' = EntryPorts(world)
    BY <1>2, <2>7 DEF EntryPorts
  <2>9. RelatedRules(FullSnapshot(world))' = rel /\ RelatedPorts(FullSnapshot(world))' = ports
    BY <1>2, <2>6 DEF RelatedPorts, RelatedRules, FullSnapshot
  <2>10. WslFingerprint(FullSnapshot(world))' = WslFingerprint(FullSnapshot(world))
    BY <1>4, <1>6, <2>1, <2>9 DEF WslFingerprint, FullSnapshot
  <2> QED BY <2>4, <2>5, <2>8, <2>10
<1> QED BY <1>1, <1>7, <1>8

LEMMA ElsewhereKeeps == ASSUME WslInv, Elsewhere PROVE WslInv'
<1> USE DEF WslInv
<1>1. /\ UNCHANGED <<senses, served, tried, observed, cached, rgh>>
      /\ shifts' = shifts + 1 /\ shifts < MaxShift
  BY DEF Elsewhere
<1>2. /\ world' \in Worlds /\ OneForward'
      /\ WslFingerprint(FullSnapshot(world))' = WslFingerprint(FullSnapshot(world))
      /\ EntryPorts(world)' = EntryPorts(world)
  BY StrangersLeaveMark
<1>3. WslTypes'
  BY <1>1, <1>2, WslAssumption DEF WslTypes
<1>4. AttemptIsTrue'
  BY <1>1, MarkTellsAll, <1>2 DEF AttemptIsTrue, WslTypes, OneForward, EntryPorts, WslFingerprint,
         FullSnapshot, RelatedRules, RelatedPorts, WslReaches, Alive
<1>5. MarkIsTrue'
  BY <1>1, <1>2 DEF MarkIsTrue, MarkReaches, Alive
<1> QED BY <1>2, <1>3, <1>4, <1>5

(* A change of the network makes the attempt old and the observation touched. *)
LEMMA ShiftsKeep ==
    ASSUME WslInv, world' \in Worlds, OneForward', served' \in ServicePort,
           UNCHANGED <<senses, observed, cached>>, tried' = Aged,
           shifts < MaxShift, shifts' = shifts + 1, rgh' = [rgh EXCEPT !.touched = TRUE]
    PROVE  WslInv'
<1> USE DEF WslInv
<1>1. tried' \in {Nothing} \cup Attempt /\ (tried'.is => tried'.old)
  <2>1. CASE tried = Nothing
    BY <2>1 DEF Nothing, Aged
  <2>2. CASE tried \in Attempt
    BY <2>2 DEF Aged, Attempt
  <2> QED BY <2>1, <2>2 DEF WslTypes
<1>2. rgh' \in Ghosts /\ rgh'.touched
      /\ rgh'.late = rgh.late /\ rgh'.blind = rgh.blind /\ rgh'.at = rgh.at
  BY DEF WslTypes, Ghosts
<1>3. WslTypes'
  BY <1>1, <1>2, WslAssumption DEF WslTypes
<1>4. AttemptIsTrue'
  BY <1>1 DEF AttemptIsTrue
<1>5. MarkIsTrue'
  BY <1>2 DEF MarkIsTrue, MarkReaches, Alive
<1> QED BY <1>3, <1>4, <1>5

LEMMA NetworkKeeps ==
    ASSUME WslInv, Restarts \/ Roams \/ Forwards \/ Deafens \/ Guards \/ Redeploys
    PROVE  WslInv'
<1> USE DEF WslInv
<1>1. CASE Redeploys
  BY <1>1, ShiftsKeep DEF Redeploys, OneForward, WslTypes
<1>2. ASSUME NEW w \in Worlds, Shift(w), \A r, q \in w.rules : r[1] = q[1] => r = q
      PROVE  WslInv'
  BY <1>2, ShiftsKeep DEF Shift, OneForward, WslTypes
<1>3. world \in Worlds
  BY DEF WslTypes
<1>4. CASE Restarts
  BY <1>4, <1>3, <1>2 DEF Restarts, Worlds, OneForward
<1>5. CASE Roams
  BY <1>5, <1>3, <1>2 DEF Roams, Worlds, OneForward
<1>6. CASE Forwards
  <2>1. PICK l \in WslPort :
          \/ \E g \in Goal : Shift([world EXCEPT !.rules = {r \in @ : r[1] # l} \cup {<<l, g>>},
                                                !.hears = @ \cup {l}])
          \/ Shift([world EXCEPT !.rules = {r \in @ : r[1] # l}])
    BY <1>6 DEF Forwards
  <2>2. ASSUME NEW g \in Goal,
               Shift([world EXCEPT !.rules = {r \in @ : r[1] # l} \cup {<<l, g>>},
                                   !.hears = @ \cup {l}])
        PROVE  WslInv'
    <3> DEFINE w == [world EXCEPT !.rules = {r \in @ : r[1] # l} \cup {<<l, g>>},
                                  !.hears = @ \cup {l}]
    <3>1. w.rules = {r \in world.rules : r[1] # l} \cup {<<l, g>>}
      BY <1>3 DEF Worlds
    <3>2. <<l, g>> \in Rule /\ <<l, g>>[1] = l
      BY DEF Rule
    <3>3. w.rules \in SUBSET Rule
      BY <1>3, <3>1, <3>2 DEF Worlds
    <3>4. w \in Worlds
      BY <1>3, <3>1, <3>3 DEF Worlds
    <3>5. \A r, q \in w.rules : r[1] = q[1] => r = q
      BY <3>1, <3>2 DEF OneForward
    <3> QED BY <1>2, <2>2, <3>4, <3>5
  <2>3. CASE Shift([world EXCEPT !.rules = {r \in @ : r[1] # l}])
    BY <1>3, <1>2, <2>3 DEF Worlds, OneForward
  <2> QED BY <2>1, <2>2, <2>3
<1>7. CASE Deafens
  BY <1>7, <1>3, <1>2 DEF Deafens, Worlds, OneForward
<1>8. CASE Guards
  BY <1>8, <1>3, <1>2 DEF Guards, Worlds, OneForward
<1> QED BY <1>1, <1>4, <1>5, <1>6, <1>7, <1>8

(* Whoever opens the address that is presented meets the network of now. *)
LEMMA TryKeeps == ASSUME WslInv, Try PROVE WslInv'
<1> USE DEF WslInv
<1> DEFINE u == Entry(WslSnapshot)
           got == WslReaches(world, u)
<1>1. /\ UNCHANGED <<world, senses, served, observed, cached, shifts, rgh>>
      /\ tried' = [is |-> TRUE, url |-> u, old |-> FALSE, ok |-> got]
      /\ Entries(WslSnapshot) # {}
  BY DEF Try
<1>2. u \in Url /\ u[2] \in EntryPorts(world)
  BY <1>1, EntryIsPort
<1>3. got \in BOOLEAN
  BY DEF WslReaches
<1>4. PICK b \in BOOLEAN : b = got
  BY <1>3
<1>5. tried' \in Attempt /\ tried'.is /\ tried'.url = u /\ (tried'.ok <=> got)
  BY <1>1, <1>4, <1>2 DEF Attempt
<1>6. WslTypes'
  BY <1>1, <1>5 DEF WslTypes
<1>7. AttemptIsTrue'
  BY <1>1, <1>2, <1>5 DEF AttemptIsTrue, EntryPorts, WslReaches, Alive
<1>8. OneForward' /\ MarkIsTrue'
  BY <1>1 DEF OneForward, MarkIsTrue, MarkReaches, Alive, WslFingerprint, FullSnapshot,
              RelatedRules, RelatedPorts
<1> QED BY <1>6, <1>7, <1>8

(* The observation is stored with the fingerprint of the snapshot seen. *)
LEMMA RecordKeeps == ASSUME WslInv, NEW by \in {"manager", "command"}, Record(by) PROVE WslInv'
<1> USE DEF WslInv
<1>1. PICK s \in {WslSnapshot} \cup {c.snap : c \in {x \in {cached} : x.is}} :
        /\ observed' = [is |-> TRUE, url |-> tried.url, ok |-> tried.ok, mark |-> WslFingerprint(s)]
        /\ cached' = CacheAfter(s, by)
        /\ rgh' = [late |-> s # WslSnapshot \/ tried.old, blind |-> s.caps # Sense,
                   touched |-> FALSE, at |-> served]
  BY DEF Record
<1>2. tried.is /\ tried' = Nothing /\ UNCHANGED <<world, senses, served, shifts>>
  BY DEF Record
<1>3. tried \in Attempt
  BY <1>2 DEF Nothing, WslTypes
<1>4. s.caps \in SUBSET Sense
  BY <1>1, Snapshots DEF WslTypes
<1>5. PICK late \in BOOLEAN, blind \in BOOLEAN :
        late = (s # WslSnapshot \/ tried.old) /\ blind = (s.caps # Sense)
  OBVIOUS
<1>6. rgh' \in Ghosts /\ rgh'.late = late /\ rgh'.blind = blind /\ rgh'.at = served
  BY <1>1, <1>5 DEF WslTypes, Ghosts
<1>7. observed'.is /\ observed'.url = tried.url /\ observed'.ok = tried.ok
      /\ observed'.mark = WslFingerprint(s)
  BY <1>1
<1>8. cached'.is \in BOOLEAN /\ (cached'.is => cached'.snap.caps \in SUBSET Sense)
  BY <1>1, <1>4 DEF CacheAfter, WslTypes
<1>9. WslTypes'
  BY <1>2, <1>3, <1>6, <1>7, <1>8 DEF WslTypes, Attempt
<1>10. OneForward' /\ AttemptIsTrue'
  BY <1>2 DEF Nothing, OneForward, AttemptIsTrue
<1>11. MarkIsTrue'
  <2> SUFFICES ASSUME ~late, ~blind
               PROVE  /\ observed'.mark.caps = Sense \ {"portproxy"}
                      /\ observed'.ok <=> MarkReaches(observed'.mark, observed'.url, rgh'.at)
                      /\ observed'.mark = WslFingerprint(FullSnapshot(world))' /\ rgh'.at = served'
    BY <1>6 DEF MarkIsTrue, MarkReaches, Alive
  <2>1. s = FullSnapshot(world) /\ s.caps = Sense /\ ~tried.old
    BY <1>5, Snapshots
  <2>2. tried.url[2] \in EntryPorts(world) /\ (tried.ok <=> WslReaches(world, tried.url))
    BY <1>2, <2>1 DEF AttemptIsTrue
  <2>3. WslReaches(world, tried.url)
          <=> MarkReaches(WslFingerprint(FullSnapshot(world)), tried.url, served)
    BY <2>2, MarkTellsAll DEF WslTypes, OneForward
  <2>4. WslFingerprint(s).caps = Sense \ {"portproxy"}
    BY <2>1 DEF WslFingerprint
  <2>5. WslFingerprint(FullSnapshot(world))' = WslFingerprint(FullSnapshot(world))
    BY <1>2 DEF WslFingerprint, FullSnapshot, RelatedRules, RelatedPorts
  <2> QED BY <1>2, <1>6, <1>7, <2>1, <2>2, <2>3, <2>4, <2>5
<1> QED BY <1>9, <1>10, <1>11

(* Reading the network, and a query that fails, change neither the attempt nor *)
(* the observation.                                                            *)
LEMMA ReadingKeeps == ASSUME WslInv, Refresh \/ Blinks PROVE WslInv'
<1> USE DEF WslInv
<1>1. UNCHANGED <<world, served, tried, observed, rgh>>
  BY DEF Refresh, Blinks
<1>2. /\ senses' \in SUBSET Sense /\ shifts' \in 0..MaxShift
      /\ cached'.is \in BOOLEAN /\ (cached'.is => cached'.snap.caps \in SUBSET Sense)
  <2>1. CASE Refresh
    <3>1. ~Nothing.is /\ Nothing.is \in BOOLEAN
      BY DEF Nothing
    <3>2. CASE cached' = Nothing
      BY <2>1, <3>1, <3>2 DEF Refresh, WslTypes
    <3>3. CASE cached' = [is |-> TRUE, snap |-> WslSnapshot]
      BY <3>3, <2>1, Snapshots DEF Refresh, WslTypes
    <3> QED BY <2>1, <3>2, <3>3 DEF Refresh
  <2>2. CASE Blinks
    BY <2>2, WslAssumption DEF Blinks, WslTypes
  <2> QED BY <2>1, <2>2
<1>3. WslTypes'
  BY <1>1, <1>2 DEF WslTypes
<1>4. AttemptIsTrue'
  BY <1>1 DEF AttemptIsTrue, EntryPorts, WslReaches, Alive
<1>5. OneForward' /\ MarkIsTrue'
  BY <1>1 DEF OneForward, MarkIsTrue, MarkReaches, Alive, WslFingerprint, FullSnapshot,
              RelatedRules, RelatedPorts
<1> QED BY <1>3, <1>4, <1>5

(* At first nothing was tried and nothing observed. *)
LEMMA WslStarts == WslInit => WslInv
BY WslAssumption DEF Nothing, WslInit, FirstWorlds, Rule, Goal, WslPort, Worlds, OneForward,
       Ghosts, WslTypes, AttemptIsTrue, MarkIsTrue, WslInv

(* No step of the network, of a device or of the program breaks the invariant. *)
LEMMA WslStep == WslInv /\ [WslNext]_wslVars => WslInv'
<1> SUFFICES ASSUME WslInv, [WslNext]_wslVars PROVE WslInv'
  OBVIOUS
<1>1. CASE UNCHANGED wslVars
  BY <1>1 DEF WslInv, WslTypes, OneForward, AttemptIsTrue, MarkIsTrue, wslVars, EntryPorts,
              WslReaches, MarkReaches, Alive, WslFingerprint, FullSnapshot, RelatedRules,
              RelatedPorts
<1> QED BY <1>1, TryKeeps, RecordKeeps, ReadingKeeps, NetworkKeeps, ElsewhereKeeps DEF WslNext

(* An observation answers as its fingerprint does, and an attempt that is not *)
(* old as the network does (wsl_network.py, record_lan_observation).          *)
THEOREM WslInvariant == WslSpec => []WslInv
<1> QED BY WslStarts, WslStep, PTL DEF WslSpec

(* For any ports, addresses and number of changes: what is shown as verified  *)
(* from what Windows says now is reachable there, and what other programs do  *)
(* with their own ports does not take the verdict back                        *)
(* (snapshot_fingerprint, describe_instance_access; BUG-981).                 *)
THEOREM VerdictStaysTrue == WslSpec => []VerdictIsTrue
<1>1. WslInv => VerdictIsTrue
  <2> SUFFICES ASSUME WslInv PROVE VerdictIsTrue
    OBVIOUS
  <2> USE DEF WslInv
  <2>1. WslTypeOK
    <3>1. tried.is => tried.url \in Url /\ tried.ok \in BOOLEAN
      <4>1. ~Nothing.is
        BY DEF Nothing
      <4>2. CASE tried \in Attempt
        BY <4>2 DEF Attempt
      <4> QED BY <4>1, <4>2 DEF WslTypes
    <3>2. senses \subseteq Sense /\ (cached.is => cached.snap.caps \subseteq Sense)
      BY DEF WslTypes
    <3> QED BY <3>1, <3>2 DEF WslTypes, WslTypeOK
  <2>2. VerifiedReaches
    BY Snapshots, EntryIsPort, MarkTellsAll DEF VerifiedReaches, Verdict, IsStale, WslFingerprint,
           MarkIsTrue, Sense, WslTypes, OneForward
  <2>3. OthersDoNotWithdraw
    BY Snapshots DEF OthersDoNotWithdraw, MarkIsTrue, Verdict, IsStale
  <2> QED BY <2>1, <2>2, <2>3 DEF VerdictIsTrue
<1> QED BY <1>1, WslInvariant, PTL

(***************************************************************************)
(* Caddy's masters.                                                        *)
(***************************************************************************)
StartPcs == {"look", "write", "start", "spawn", "wait"}
LoadPcs  == {"judge", "render", "push", "again", "heal", "back", "undo"}
CaddyPcs == StartPcs \cup LoadPcs \cup {"idle", "conf", "lock", "off", "post", "legacy", "end"}
Mains    == [adm : Port \cup {Legacy}, text : Piece \cup {"none"}]
Procs    == [ws : Workspace \cup {"none", "system"}, port : Port \cup {Legacy},
             text : Piece \cup {"none", "boot"}, st : {"free", "booting", "up", "dead"}]
Acts     == [pc : CaddyPcs, op : {"none", "enable", "sync", "on", "off"},
             ret : {"none", "render", "again"}, prev : Mains, old : Piece,
             child : Pid \cup {NoPid}, sys : BOOLEAN]

CaddyTypes ==
    /\ reg \in [Workspace -> Port \cup {NoPort}] /\ pidf \in [Workspace -> Pid \cup {NoPid}]
    /\ pieces \in [Workspace -> Piece] /\ mainText \in [Workspace -> Mains]
    /\ procs \in [Pid -> Procs] /\ act \in [Actor -> Acts]
    /\ startLk \in [Workspace -> Actor \cup {Nobody}] /\ confLk \in [Workspace -> Actor \cup {Nobody}]
    /\ cgh \in [slow : BOOLEAN, foreign : SUBSET {"system", "neighbour", "raced"}]
    /\ spentCaddy \in [cmds : Nat, trouble : Nat]

(* A master of a workspace is on its admin port or still on the default one; *)
(* a pid file names a master of its workspace.                               *)
PortsOk ==
    /\ \A p \in Pid :
        /\ procs[p].st = "free" => procs[p].ws = "none"
        /\ procs[p].st = "booting" => procs[p].ws \in Workspace /\ procs[p].port # Legacy
        /\ procs[p].ws = "system" => procs[p].port = Legacy
        /\ procs[p].ws \in Workspace => procs[p].port \in {Legacy, reg[procs[p].ws]}
    /\ \A w \in Workspace : pidf[w] # NoPid => procs[pidf[w]].ws = w

(* Who loads a configuration has an admin port; who starts holds the lock.   *)
StepOk(a) ==
    /\ act[a].pc \in LoadPcs \cup {"spawn", "wait"} \/ act[a].ret # "none" => reg[Ws(a)] # NoPort
    /\ act[a].pc \in {"lock"} \cup StartPcs => act[a].op = "on" \/ act[a].ret # "none"
    /\ act[a].pc \in StartPcs => startLk[Ws(a)] = a
    /\ act[a].pc = "wait" => act[a].child \in Pid /\ procs[act[a].child].ws = Ws(a)
StepsOk == \A a \in Actor : StepOk(a)

(* Where a workspace has a master on the default port there is no Caddy of   *)
(* the system, and no command found one.                                     *)
SystemApart ==
    /\ \A p \in Pid : procs[p].ws \in Workspace /\ procs[p].port = Legacy /\ procs[p].st = "up" =>
          /\ \A q \in Pid : procs[q].ws # "system"
          /\ \A a \in Actor : ~act[a].sys
    /\ \A a \in Actor : act[a].pc = "post" /\ reg[Ws(a)] = NoPort => ~act[a].sys
    /\ SystemUntouched

(* The masters of a workspace, on its port. *)
Masters(w) == {p \in Pid : /\ procs[p].st \in {"booting", "up"} /\ procs[p].ws = w
                           /\ procs[p].port = AdminOf(w)}

(* While no start was given up: who starts has found no master, and a child  *)
(* that boots is waited for.                                                 *)
StartsOk ==
    /\ \A p \in Pid : procs[p].st = "booting" =>
          \E a \in Actor : act[a].pc = "wait" /\ act[a].child = p /\ Ws(a) = procs[p].ws
    /\ \A a \in Actor :
          /\ act[a].pc \in {"write", "start", "spawn"} => Masters(Ws(a)) = {}
          /\ act[a].pc = "wait" => Masters(Ws(a)) \subseteq {act[a].child}
    /\ \A w \in Workspace : \A p, q \in Masters(w) : p = q

CaddyInv == CaddyTypes /\ PortsOk /\ StepsOk /\ SystemApart /\ (~cgh.slow => StartsOk)

-----------------------------------------------------------------------------
(* What a step may do to the processes, the ports and the pid files.         *)

LEMMA WsOf == \A a \in Actor : Ws(a) \in Workspace
BY DEF Ws, Workspace

LEMMA FreshIsFree ==
    ASSUME HasFresh
    PROVE  Fresh \in Pid /\ procs[Fresh].st = "free"
BY DEF HasFresh, Fresh

(* Some end; nothing else happens to them, but for the text they have.       *)
Ending == \A p \in Pid :
    /\ procs'[p].ws = procs[p].ws /\ procs'[p].port = procs[p].port
    /\ procs'[p].st = procs[p].st \/ (procs[p].st \in {"booting", "up"} /\ procs'[p].st = "dead")
Assigning == \A w \in Workspace : reg'[w] = reg[w] \/ (reg[w] = NoPort /\ reg'[w] \in Port)
Naming == \A w \in Workspace : pidf'[w] \in {pidf[w], NoPid} \/ procs'[pidf'[w]].ws = w
(* One command moves. *)
Only(a) == \A b \in Actor \ {a} : act'[b] = act[b]

LEMMA PortsKept ==
    ASSUME CaddyTypes, CaddyTypes', PortsOk, Ending, Assigning, Naming
    PROVE  PortsOk'
BY CaddyAssumption DEF PortsOk, Ending, CaddyTypes, Procs, Assigning, NoPort, Naming

(* No process of a workspace is on a port that is only now assigned.         *)
LEMMA MastersShrink ==
    ASSUME CaddyTypes, PortsOk, Ending, Assigning, NEW w \in Workspace
    PROVE  Masters(w)' \subseteq Masters(w)
BY CaddyAssumption DEF Masters, Ending, PortsOk, CaddyTypes, Procs, AdminOf, NoPort, Assigning

LEMMA SystemKept ==
    ASSUME CaddyTypes, CaddyTypes', PortsOk, SystemApart, Ending, Assigning, SystemUntouched',
           NEW a \in Actor, Only(a), act'[a].sys => act[a].sys \/ SystemUp,
           act'[a].pc = "post" /\ reg'[Ws(a)] = NoPort => ~act'[a].sys
    PROVE  SystemApart'
BY WsOf, CaddyAssumption DEF Ending, SystemApart, SystemUp, Only, Assigning, NoPort

LEMMA StepsKept ==
    ASSUME CaddyTypes, CaddyTypes', PortsOk, StepsOk, Ending, Assigning,
           NEW a \in Actor, Only(a), StepOk(a)',
           \A b \in Actor \ {a} : startLk[Ws(b)] = b => startLk'[Ws(b)] = b
    PROVE  StepsOk'
BY WsOf DEF StepsOk, Only, Assigning, StepOk, Ending

(* Only who has found no master goes on to start one, and who waits for a    *)
(* child that boots goes on waiting.                                         *)
Starting(a) ==
    /\ act[a].pc = "wait" => \/ act'[a].pc = "wait" /\ act'[a].child = act[a].child
                             \/ procs[act[a].child].st # "booting"
    /\ act'[a].pc \in {"write", "start", "spawn"} => Masters(Ws(a)) = {}
    /\ act'[a].pc = "wait" => act[a].pc = "wait" /\ act'[a].child = act[a].child

LEMMA StartsKept ==
    ASSUME CaddyTypes, CaddyTypes', PortsOk, StepsOk, StartsOk, Ending, Assigning,
           NEW a \in Actor, Only(a), Starting(a)
    PROVE  StartsOk'
BY MastersShrink, WsOf DEF Ending, StartsOk, Only, Starting, Ws

(* Under the lock, without a listener, there is no master: neither one that  *)
(* is up nor one that boots.                                                 *)
LEMMA NoneFound ==
    ASSUME CaddyTypes, StepsOk, StartsOk, NEW a \in Actor, act[a].pc # "wait",
           startLk[Ws(a)] \in {Nobody, a}, ~AdminAlive(Ws(a))
    PROVE  Masters(Ws(a)) = {}
BY CaddyAssumption DEF Masters, AdminAlive, Listeners, StartsOk, StepsOk, StepOk, StartPcs, Actor

(* What a step of a command must keep, from the lemmas above.                *)
LEMMA CommandKeeps ==
    ASSUME CaddyInv, CaddyTypes', Ending, Assigning, Naming, SystemUntouched',
           NEW a \in Actor, Only(a), StepOk(a)',
           \A b \in Actor \ {a} : startLk[Ws(b)] = b => startLk'[Ws(b)] = b,
           act'[a].sys => act[a].sys \/ SystemUp,
           act'[a].pc = "post" /\ reg'[Ws(a)] = NoPort => ~act'[a].sys,
           ~cgh'.slow => ~cgh.slow /\ (StartsOk => Starting(a))
    PROVE  CaddyInv'
BY PortsKept, StepsKept, SystemKept, StartsKept DEF CaddyInv

-----------------------------------------------------------------------------
(* The steps of a command.                                                   *)

(* A step after which the command stands elsewhere, and no more. *)
LEMMA ActorGoes ==
    ASSUME CaddyTypes, NEW a \in Actor, NEW pc \in CaddyPcs, CaddyGoes(a, pc)
    PROVE  /\ act' \in [Actor -> Acts] /\ Only(a)
           /\ act'[a].pc = pc /\ act'[a].op = act[a].op /\ act'[a].ret = act[a].ret
           /\ act'[a].child = act[a].child /\ act'[a].sys = act[a].sys
BY DEF CaddyGoes, CaddyTypes, Acts, Only

LEMMA Moves ==
    ASSUME CaddyTypes, NEW a \in Actor, NEW new \in Acts, act' = [act EXCEPT ![a] = new]
    PROVE  act' \in [Actor -> Acts] /\ Only(a) /\ act'[a] = new
BY DEF CaddyTypes, Only

LEMMA SameProcs ==
    ASSUME CaddyTypes, UNCHANGED procs
    PROVE  Ending /\ (UNCHANGED pidf => Naming) /\ (UNCHANGED reg => Assigning)
BY DEF CaddyTypes, Ending, Naming, Assigning

LEMMA PortAssigned ==
    ASSUME CaddyTypes, NEW w \in Workspace, EnsureAdminPort(w)
    PROVE  /\ reg' \in [Workspace -> Port \cup {NoPort}] /\ Assigning /\ reg'[w] # NoPort
BY CaddyAssumption DEF EnsureAdminPort, CaddyTypes, Assigning, NoPort

(* A configuration is loaded by a listener of the port that the workspace    *)
(* was given, where no Caddy of the system is.                               *)
LEMMA Loads ==
    ASSUME CaddyInv, NEW a \in Actor, reg[Ws(a)] # NoPort,
           NEW p \in Listeners(AdminOf(Ws(a))), NEW text \in Piece, Takes(a, p, text)
    PROVE  /\ procs' \in [Pid -> Procs] /\ Ending /\ (UNCHANGED pidf => Naming)
           /\ cgh' \in [slow : BOOLEAN, foreign : SUBSET {"system", "neighbour", "raced"}]
           /\ cgh'.slow = cgh.slow /\ SystemUntouched'
<1>1. /\ procs \in [Pid -> Procs] /\ pidf \in [Workspace -> Pid \cup {NoPid}] /\ Ws(a) \in Workspace
      /\ cgh \in [slow : BOOLEAN, foreign : SUBSET {"system", "neighbour", "raced"}]
      /\ reg \in [Workspace -> Port \cup {NoPort}]
  BY WsOf DEF CaddyInv, CaddyTypes
<1>2. p \in Pid /\ procs[p].port = reg[Ws(a)]
  BY DEF Listeners, AdminOf
<1>3. procs[p].ws # "system"
  BY <1>1, <1>2, CaddyAssumption DEF CaddyInv, PortsOk
<1>4. procs' \in [Pid -> Procs] /\ Ending
  BY <1>1, <1>2 DEF Takes, Procs, Ending
<1>5. Reaches(a, p) \in {cgh.foreign, cgh.foreign \cup {"neighbour"}}
  BY <1>3 DEF Reaches
<1>6. "system" \notin cgh.foreign
  BY DEF CaddyInv, SystemApart, SystemUntouched
<1>7. cgh' = [cgh EXCEPT !.foreign = Reaches(a, p)]
  BY DEF Takes
<1>8. "system" \notin Reaches(a, p) /\ Reaches(a, p) \in SUBSET {"system", "neighbour", "raced"}
  BY <1>1, <1>5, <1>6
<1>9. /\ cgh' \in [slow : BOOLEAN, foreign : SUBSET {"system", "neighbour", "raced"}]
      /\ cgh'.slow = cgh.slow /\ cgh'.foreign = Reaches(a, p)
  BY <1>1, <1>7, <1>8
<1> QED BY <1>1, <1>4, <1>8, <1>9 DEF SystemUntouched, Naming

(* A master that exits. *)
LEMMA ExitKeeps ==
    ASSUME CaddyTypes, NEW p \in Pid, procs[p].st = "up", Exits(p)
    PROVE  /\ procs' \in [Pid -> Procs] /\ Ending /\ Naming
           /\ pidf' \in [Workspace -> Pid \cup {NoPid}]
BY DEF CaddyTypes, Exits, Procs, Ending, Naming

(* Of the default port only a master of the own workspace is stopped. *)
LEMMA LegacyStops ==
    ASSUME CaddyInv, NEW a \in Actor, StopLegacy(a)
    PROVE  /\ procs' \in [Pid -> Procs] /\ Ending /\ Naming
           /\ pidf' \in [Workspace -> Pid \cup {NoPid}]
           /\ UNCHANGED cgh /\ spentCaddy' \in [cmds : Nat, trouble : Nat]
BY ExitKeeps, SameProcs DEF CaddyInv, CaddyTypes, LegacyOurs, Listeners, Reaches, CaddySmooth,
       StopLegacy, Trouble

(* The places a start returns to; the lock goes with it, but for "on".       *)
BackPcs(a) == IF StartsGateway(a) THEN {"conf", "end"} ELSE {act[a].ret, "back"}
Back(a) ==
    /\ \E pc \in BackPcs(a) : CaddyGoes(a, pc)
    /\ startLk' = [startLk EXCEPT ![Ws(a)] = IF @ = a /\ act[a].op # "on" THEN Nobody ELSE @]

LEMMA BackKeeps ==
    ASSUME CaddyInv, NEW a \in Actor, act[a].pc \in {"lock", "wait"}, Back(a), UNCHANGED <<reg, procs>>
    PROVE  /\ act' \in [Actor -> Acts] /\ Only(a)
           /\ act'[a].pc \in {"conf", "end", "render", "again", "back"}
           /\ act'[a].sys = act[a].sys /\ StepOk(a)'
           /\ startLk' \in [Workspace -> Actor \cup {Nobody}]
           /\ \A b \in Actor \ {a} : startLk[Ws(b)] = b => startLk'[Ws(b)] = b
BY WsOf, ActorGoes DEF CaddyInv, CaddyTypes, Acts, StepsOk, StepOk, StartPcs, Back, BackPcs,
       StartsGateway, CaddyPcs, LoadPcs

LEMMA BeginKeeps ==
    ASSUME CaddyInv, NEW a \in Actor, NEW does \in {"enable", "sync", "on", "off"}, BeginCaddy(a, does)
    PROVE  CaddyInv'
<1>1. act \in [Actor -> Acts] /\ act' = [act EXCEPT ![a] = [NoAct EXCEPT !.pc = First(does), !.op = does, !.sys = SystemUp]]
  BY DEF BeginCaddy, CaddyInv, CaddyTypes
<1>2. First(does) \in {"conf", "lock", "off"} /\ (First(does) = "lock" => does = "on")
  BY DEF First
<1>3. SystemUp \in BOOLEAN
  BY DEF SystemUp
<1>4. act' \in [Actor -> Acts] /\ Only(a) /\ act'[a] = [NoAct EXCEPT !.pc = First(does), !.op = does, !.sys = SystemUp]
  BY <1>2, <1>3, <1>1 DEF NoAct, Acts, CaddyPcs, StartPcs, LoadPcs, NoMain, Mains, Piece, Only
<1>5. /\ act'[a].pc = First(does) /\ act'[a].op = does /\ act'[a].ret = "none" /\ act'[a].sys = SystemUp
  BY <1>4 DEF NoAct
<1>6. CaddyTypes'
  BY <1>4 DEF BeginCaddy, CaddyInv, CaddyTypes, diskVars, lockVars
<1>7. Ending /\ Naming /\ Assigning
  BY SameProcs DEF BeginCaddy, diskVars, CaddyInv
<1>8. StepOk(a)'
  BY <1>5, <1>2 DEF StepOk, StartPcs, LoadPcs
<1>9. SystemUntouched' /\ UNCHANGED <<cgh, startLk>> /\ Starting(a) /\ act'[a].pc # "post"
  BY <1>5, <1>2 DEF BeginCaddy, lockVars, CaddyInv, SystemApart, SystemUntouched, Starting
<1> QED BY <1>4, <1>5, <1>6, <1>7, <1>8, <1>9, CommandKeeps

LEMMA TakeConfKeeps == ASSUME CaddyInv, NEW a \in Actor, TakeConf(a) PROVE CaddyInv'
<1>1. act \in [Actor -> Acts] /\ Ws(a) \in Workspace
  BY WsOf DEF CaddyInv, CaddyTypes
<1>2. PICK pc \in {"render", "judge"} : act' = [act EXCEPT ![a].old = pieces[Ws(a)], ![a].pc = pc]
  BY DEF TakeConf
<1>3. pieces[Ws(a)] \in Piece
  BY <1>1 DEF CaddyInv, CaddyTypes
<1>4. /\ act' \in [Actor -> Acts] /\ Only(a)
      /\ act'[a].pc = pc /\ act'[a].op = act[a].op /\ act'[a].ret = act[a].ret
      /\ act'[a].child = act[a].child /\ act'[a].sys = act[a].sys
  <2> DEFINE new == [act[a] EXCEPT !.old = pieces[Ws(a)], !.pc = pc]
  <2>1. act' = [act EXCEPT ![a] = new]
    BY <1>1, <1>2
  <2>2. new \in Acts
    BY <1>1, <1>3 DEF Acts, CaddyPcs, LoadPcs
  <2>3. act' \in [Actor -> Acts] /\ Only(a) /\ act'[a] = new
    BY <2>1, <2>2, Moves DEF CaddyInv
  <2> QED BY <2>3, <1>1 DEF Acts
<1>5. /\ reg' \in [Workspace -> Port \cup {NoPort}] /\ Assigning /\ reg'[Ws(a)] # NoPort
  BY <1>1, PortAssigned DEF TakeConf, CaddyInv
<1>6. pieces' \in [Workspace -> Piece]
  BY <1>1, <1>3 DEF TakeConf, CaddyInv, CaddyTypes, Piece
<1>7. confLk' \in [Workspace -> Actor \cup {Nobody}]
  BY <1>1 DEF TakeConf, CaddyInv, CaddyTypes
<1>8. CaddyTypes'
  BY <1>4, <1>5, <1>6, <1>7 DEF TakeConf, CaddyInv, CaddyTypes
<1>9. Ending /\ Naming
  BY SameProcs DEF TakeConf, CaddyInv
<1>10. StepOk(a)'
  BY <1>4, <1>5 DEF StepOk, StartPcs, LoadPcs
<1>11. SystemUntouched' /\ UNCHANGED <<cgh, startLk>> /\ Starting(a) /\ act'[a].pc # "post"
  BY <1>4 DEF TakeConf, CaddyInv, SystemApart, SystemUntouched, Starting
<1> QED BY <1>4, <1>5, <1>8, <1>9, <1>10, <1>11, CommandKeeps

LEMMA JudgeKeeps == ASSUME CaddyInv, NEW a \in Actor, Judge(a) \/ Heal(a) PROVE CaddyInv'
<1>1. act \in [Actor -> Acts] /\ act[a].pc \in {"judge", "heal"} /\ reg[Ws(a)] # NoPort
  BY DEF CaddyInv, CaddyTypes, Judge, Heal, StepsOk, StepOk, LoadPcs
<1>2. /\ act' \in [Actor -> Acts] /\ Only(a)
      /\ act'[a].op = act[a].op /\ act'[a].child = act[a].child /\ act'[a].sys = act[a].sys
      /\ act'[a].pc \in {"render", "undo", "again", "back", "lock"}
      /\ act'[a].ret \in {act[a].ret, "render", "again"}
      /\ act'[a].pc = "lock" => act'[a].ret # "none"
  <2>1. CASE \E pc \in {"render", "undo", "again", "back"} : CaddyGoes(a, pc)
    BY <2>1, <1>1, ActorGoes DEF CaddyInv, CaddyPcs, LoadPcs
  <2>2. CASE \E r \in {"render", "again"} : act' = [act EXCEPT ![a].pc = "lock", ![a].ret = r]
    <3>1. PICK r \in {"render", "again"} : act' = [act EXCEPT ![a].pc = "lock", ![a].ret = r]
      BY <2>2
    <3> DEFINE new == [act[a] EXCEPT !.pc = "lock", !.ret = r]
    <3>2. act' = [act EXCEPT ![a] = new]
      BY <1>1, <3>1
    <3>3. new \in Acts
      BY <1>1 DEF Acts, CaddyPcs
    <3>4. act' \in [Actor -> Acts] /\ Only(a) /\ act'[a] = new
      BY <3>2, <3>3, Moves DEF CaddyInv
    <3> QED BY <3>4, <1>1 DEF Acts
  <2> QED BY <2>1, <2>2 DEF Judge, Heal
<1>3. UNCHANGED <<reg, pidf, pieces, mainText, procs, startLk, confLk, cgh, spentCaddy>>
  BY DEF Judge, Heal, diskVars, lockVars
<1>4. CaddyTypes'
  BY <1>2, <1>3 DEF CaddyInv, CaddyTypes
<1>5. Ending /\ Naming /\ Assigning
  BY <1>3, SameProcs DEF CaddyInv
<1>6. StepOk(a)'
  BY <1>1, <1>2, <1>3 DEF StepOk, StartPcs, LoadPcs
<1>7. SystemUntouched' /\ Starting(a) /\ act'[a].pc # "post"
  BY <1>1, <1>2, <1>3 DEF CaddyInv, SystemApart, SystemUntouched, Starting
<1> QED BY <1>2, <1>3, <1>4, <1>5, <1>6, <1>7, CommandKeeps

LEMMA RenderKeeps == ASSUME CaddyInv, NEW a \in Actor, Render(a) PROVE CaddyInv'
<1>1. act \in [Actor -> Acts] /\ Ws(a) \in Workspace /\ act[a].pc = "render" /\ reg[Ws(a)] # NoPort
  BY WsOf DEF CaddyInv, CaddyTypes, Render, StepsOk, StepOk, LoadPcs
<1>2. PICK pc \in {"end", "push"} : act' = [act EXCEPT ![a].prev = mainText[Ws(a)], ![a].pc = pc]
  BY DEF Render
<1>3. mainText[Ws(a)] \in Mains /\ Rendered(Ws(a)) \in Mains
  BY <1>1 DEF CaddyInv, CaddyTypes, Rendered, AdminOf, Mains
<1>4. /\ act' \in [Actor -> Acts] /\ Only(a)
      /\ act'[a].pc = pc /\ act'[a].op = act[a].op /\ act'[a].ret = act[a].ret
      /\ act'[a].child = act[a].child /\ act'[a].sys = act[a].sys
  BY <1>1, <1>2, <1>3, Moves DEF Acts, CaddyPcs, LoadPcs, CaddyInv
<1>5. mainText' \in [Workspace -> Mains]
  BY <1>1, <1>3 DEF Render, CaddyInv, CaddyTypes
<1>6. UNCHANGED <<reg, pidf, pieces, procs, startLk, confLk, cgh, spentCaddy>>
  BY DEF Render, lockVars
<1>7. CaddyTypes'
  BY <1>4, <1>5, <1>6 DEF CaddyInv, CaddyTypes
<1>8. Ending /\ Naming /\ Assigning
  BY <1>6, SameProcs DEF CaddyInv
<1>9. StepOk(a)'
  BY <1>1, <1>4, <1>6 DEF StepOk, StartPcs, LoadPcs
<1>10. SystemUntouched' /\ Starting(a) /\ act'[a].pc # "post"
  BY <1>1, <1>4, <1>6 DEF CaddyInv, SystemApart, SystemUntouched, Starting
<1> QED BY <1>4, <1>6, <1>7, <1>8, <1>9, <1>10, CommandKeeps

LEMMA PushKeeps == ASSUME CaddyInv, NEW a \in Actor, Push(a) PROVE CaddyInv'
<1>1. /\ act[a].pc \in {"push", "again"} /\ reg[Ws(a)] # NoPort /\ Ws(a) \in Workspace
      /\ mainText[Ws(a)].text \in Piece \cup {"none"} /\ spentCaddy \in [cmds : Nat, trouble : Nat]
  BY WsOf DEF CaddyInv, CaddyTypes, Push, StepsOk, StepOk, LoadPcs, Mains
<1>2. UNCHANGED <<reg, pidf, pieces, mainText, startLk, confLk>>
  BY DEF Push, diskVars, lockVars
<1>3. PICK pc \in {"end", "heal", "back"} : CaddyGoes(a, pc)
  BY DEF Push
<1>4. /\ act' \in [Actor -> Acts] /\ Only(a) /\ act'[a].pc = pc /\ act'[a].op = act[a].op
      /\ act'[a].ret = act[a].ret /\ act'[a].child = act[a].child /\ act'[a].sys = act[a].sys
  BY <1>3, ActorGoes DEF CaddyInv, CaddyPcs, LoadPcs
<1>5. spentCaddy' \in [cmds : Nat, trouble : Nat]
  BY <1>1 DEF Push, Trouble, CaddySmooth
<1>6. /\ procs' \in [Pid -> Procs] /\ Ending /\ Naming
      /\ cgh' \in [slow : BOOLEAN, foreign : SUBSET {"system", "neighbour", "raced"}]
      /\ cgh'.slow = cgh.slow /\ SystemUntouched'
  BY <1>1, <1>2, Loads, SameProcs DEF Push, CaddyInv, CaddyTypes, SystemApart, SystemUntouched
<1>7. CaddyTypes' /\ Assigning
  BY <1>2, <1>4, <1>5, <1>6 DEF CaddyInv, CaddyTypes, Assigning
<1>8. StepOk(a)'
  BY <1>1, <1>2, <1>4 DEF StepOk, StartPcs, LoadPcs
<1>9. Starting(a) /\ act'[a].pc # "post"
  BY <1>1, <1>3, <1>4 DEF Starting
<1> QED BY <1>2, <1>4, <1>6, <1>7, <1>8, <1>9, CommandKeeps

LEMMA PutBackKeeps == ASSUME CaddyInv, NEW a \in Actor, PutBack(a) PROVE CaddyInv'
<1>1. /\ act[a].pc = "back" /\ reg[Ws(a)] # NoPort /\ Ws(a) \in Workspace
      /\ act[a].prev \in Mains /\ act[a].prev.text \in Piece \cup {"none"}
  BY WsOf DEF CaddyInv, CaddyTypes, PutBack, StepsOk, StepOk, LoadPcs, Acts, Mains
<1>2. UNCHANGED <<reg, pidf, pieces, startLk, confLk, spentCaddy>>
  BY DEF PutBack, lockVars
<1>3. PICK pc \in {"end", "undo"} : CaddyGoes(a, pc)
  BY DEF PutBack
<1>4. /\ act' \in [Actor -> Acts] /\ Only(a) /\ act'[a].pc = pc /\ act'[a].op = act[a].op
      /\ act'[a].ret = act[a].ret /\ act'[a].child = act[a].child /\ act'[a].sys = act[a].sys
  BY <1>3, ActorGoes DEF CaddyInv, CaddyPcs, LoadPcs
<1>5. mainText' \in [Workspace -> Mains]
  BY <1>1 DEF PutBack, CaddyInv, CaddyTypes
<1>6. /\ procs' \in [Pid -> Procs] /\ Ending /\ Naming
      /\ cgh' \in [slow : BOOLEAN, foreign : SUBSET {"system", "neighbour", "raced"}]
      /\ cgh'.slow = cgh.slow /\ SystemUntouched'
  BY <1>1, <1>2, Loads, SameProcs DEF CaddyInv, CaddyTypes, SystemApart, SystemUntouched, PutBack
<1>7. CaddyTypes' /\ Assigning
  BY <1>2, <1>4, <1>5, <1>6 DEF CaddyInv, CaddyTypes, Assigning
<1>8. StepOk(a)'
  BY <1>1, <1>2, <1>4 DEF StepOk, StartPcs, LoadPcs
<1>9. Starting(a) /\ act'[a].pc # "post"
  BY <1>1, <1>3, <1>4 DEF Starting
<1> QED BY <1>2, <1>4, <1>6, <1>7, <1>8, <1>9, CommandKeeps

LEMMA UndoKeeps == ASSUME CaddyInv, NEW a \in Actor, UndoCaddy(a) PROVE CaddyInv'
<1>1. /\ act[a].pc = "undo" /\ reg[Ws(a)] # NoPort /\ Ws(a) \in Workspace /\ act \in [Actor -> Acts]
      /\ act[a].old \in Piece
  BY WsOf DEF CaddyInv, CaddyTypes, UndoCaddy, StepsOk, StepOk, LoadPcs, Acts
<1>2. UNCHANGED <<reg, pidf, mainText, procs, startLk, confLk, cgh, spentCaddy>>
  BY DEF UndoCaddy, lockVars
<1>3. /\ act' \in [Actor -> Acts] /\ Only(a) /\ act'[a].pc \in {"end", "render"}
      /\ act'[a].ret = act[a].ret /\ act'[a].child = act[a].child /\ act'[a].sys = act[a].sys
  BY ActorGoes, <1>1, Moves DEF CaddyInv, CaddyPcs, Acts, LoadPcs, UndoCaddy
<1>4. pieces' \in [Workspace -> Piece]
  BY <1>1 DEF UndoCaddy, CaddyInv, CaddyTypes
<1>5. CaddyTypes'
  BY <1>2, <1>3, <1>4 DEF CaddyInv, CaddyTypes
<1>6. Ending /\ Naming /\ Assigning
  BY <1>2, SameProcs DEF CaddyInv
<1>7. StepOk(a)'
  BY <1>1, <1>2, <1>3 DEF StepOk, StartPcs, LoadPcs
<1>8. SystemUntouched' /\ Starting(a) /\ act'[a].pc # "post"
  BY <1>1, <1>2, <1>3 DEF CaddyInv, SystemApart, SystemUntouched, Starting
<1> QED BY <1>2, <1>3, <1>5, <1>6, <1>7, <1>8, CommandKeeps

(* A command that ends, or is killed, gives its locks back. *)
LEMMA EndKeeps ==
    ASSUME CaddyInv, NEW a \in Actor, EndCaddy(a) \/ CommandDies(a)
    PROVE  CaddyInv'
<1>1. /\ act \in [Actor -> Acts] /\ startLk \in [Workspace -> Actor \cup {Nobody}]
      /\ confLk \in [Workspace -> Actor \cup {Nobody}] /\ spentCaddy \in [cmds : Nat, trouble : Nat]
      /\ cgh \in [slow : BOOLEAN, foreign : SUBSET {"system", "neighbour", "raced"}]
  BY DEF CaddyInv, CaddyTypes
<1>2. Ends(a) /\ UNCHANGED <<reg, pidf, pieces, mainText, procs>>
  BY DEF EndCaddy, CommandDies, diskVars
<1>3. NoAct \in Acts
  BY DEF NoAct, Acts, CaddyPcs, NoMain, Mains, Piece
<1>4. act' \in [Actor -> Acts] /\ Only(a) /\ act'[a] = NoAct
  BY <1>2, <1>3, Moves DEF Ends, CaddyInv
<1>5. act'[a].pc = "idle" /\ act'[a].op = "none" /\ act'[a].ret = "none" /\ ~act'[a].sys
  BY <1>4 DEF NoAct
<1>6. /\ startLk' \in [Workspace -> Actor \cup {Nobody}] /\ confLk' \in [Workspace -> Actor \cup {Nobody}]
      /\ \A b \in Actor \ {a} : startLk[Ws(b)] = b => startLk'[Ws(b)] = b
  BY <1>1, <1>2, WsOf DEF Ends
<1>7. /\ spentCaddy' \in [cmds : Nat, trouble : Nat]
      /\ cgh' \in [slow : BOOLEAN, foreign : SUBSET {"system", "neighbour", "raced"}]
      /\ cgh'.foreign = cgh.foreign
      /\ ~cgh'.slow => ~cgh.slow /\ act[a].pc # "wait"
  <2>1. CASE EndCaddy(a)
    BY <2>1, <1>1 DEF EndCaddy
  <2>2. CASE CommandDies(a)
    <3> DEFINE slow == cgh.slow \/ act[a].pc = "wait"
    <3>1. slow \in BOOLEAN /\ cgh' = [cgh EXCEPT !.slow = slow]
      BY <2>2 DEF CommandDies
    <3> HIDE DEF slow
    <3>2. /\ cgh' \in [slow : BOOLEAN, foreign : SUBSET {"system", "neighbour", "raced"}]
          /\ cgh'.foreign = cgh.foreign /\ cgh'.slow = slow
      BY <1>1, <3>1
    <3>3. spentCaddy' \in [cmds : Nat, trouble : Nat]
      BY <1>1, <2>2 DEF CommandDies, Trouble
    <3> QED BY <3>2, <3>3 DEF slow
  <2> QED BY <2>1, <2>2
<1>8. CaddyTypes'
  BY <1>2, <1>4, <1>6, <1>7 DEF CaddyInv, CaddyTypes
<1>9. Ending /\ Naming /\ Assigning
  BY <1>2, SameProcs DEF CaddyInv
<1>10. StepOk(a)'
  BY <1>5 DEF StepOk, StartPcs, LoadPcs
<1>11. SystemUntouched' /\ (~cgh'.slow => Starting(a)) /\ act'[a].pc # "post"
  BY <1>5, <1>7 DEF CaddyInv, SystemApart, SystemUntouched, Starting
<1> QED BY <1>4, <1>5, <1>6, <1>7, <1>8, <1>9, <1>10, <1>11, CommandKeeps

LEMMA TakeStartKeeps == ASSUME CaddyInv, NEW a \in Actor, TakeStart(a) PROVE CaddyInv'
<1>1. /\ act[a].pc = "lock" /\ startLk \in [Workspace -> Actor \cup {Nobody}] /\ Ws(a) \in Workspace
      /\ StepOk(a)
  BY WsOf DEF CaddyInv, CaddyTypes, TakeStart, StepsOk
<1>2. UNCHANGED <<reg, pidf, pieces, mainText, procs, confLk, cgh, spentCaddy>>
  BY DEF TakeStart, diskVars
<1>3. Ending /\ Naming /\ Assigning
  BY <1>2, SameProcs DEF CaddyInv
<1>4. CASE /\ startLk[Ws(a)] \in {Nobody, a} /\ startLk' = [startLk EXCEPT ![Ws(a)] = a]
           /\ \/ CaddyGoes(a, "look")
              \/ CaddyGoes(a, "start") /\ ~AdminAlive(Ws(a))
  BY <1>4, ActorGoes, <1>1, WsOf, CaddyAssumption, <1>2, NoneFound, <1>3, CommandKeeps
     DEF CaddyInv, CaddyPcs, StartPcs, Actor, CaddyTypes, StepOk, LoadPcs, Starting, SystemApart,
         SystemUntouched
<1>5. CASE CaddyGoes(a, "end") /\ UNCHANGED startLk
  BY <1>5, ActorGoes, <1>2, <1>1, <1>3, CommandKeeps DEF CaddyInv, CaddyPcs, CaddyTypes, StepOk,
         StartPcs, LoadPcs, SystemApart, SystemUntouched, Starting
<1>6. CASE Back(a)
  BY <1>1, <1>2, <1>6, BackKeeps, <1>3, CommandKeeps DEF CaddyInv, CaddyTypes, SystemApart,
         SystemUntouched, Starting
<1> QED BY <1>4, <1>5, <1>6 DEF TakeStart, Rechecked, Returns, Back, BackPcs, CaddyGoes

LEMMA LookKeeps == ASSUME CaddyInv, NEW a \in Actor, Look(a) PROVE CaddyInv'
<1>1. /\ act[a].pc = "look" /\ Ws(a) \in Workspace /\ StepOk(a) /\ startLk[Ws(a)] = a
      /\ pidf \in [Workspace -> Pid \cup {NoPid}]
  BY WsOf DEF CaddyInv, CaddyTypes, Look, StepsOk, StepOk, StartPcs
<1>2. UNCHANGED <<reg, pieces, mainText, procs, startLk, confLk, cgh, spentCaddy>>
  BY DEF Look, lockVars
<1>3. Ending /\ Assigning
  BY <1>2, SameProcs DEF CaddyInv
<1>4. PICK pc \in {"conf", "end", "write"} : CaddyGoes(a, pc) /\ (pc = "write" => ~AdminAlive(Ws(a)))
  BY DEF Look
<1>5. /\ act' \in [Actor -> Acts] /\ Only(a) /\ act'[a].pc = pc /\ act'[a].op = act[a].op
      /\ act'[a].ret = act[a].ret /\ act'[a].child = act[a].child /\ act'[a].sys = act[a].sys
  BY <1>4, ActorGoes DEF CaddyInv, CaddyPcs, StartPcs
<1>6. pidf' \in [Workspace -> Pid \cup {NoPid}] /\ Naming
  BY <1>1, <1>2, SameProcs DEF CaddyInv, Adoptable, Listeners, Naming, Look
<1>7. CaddyTypes'
  BY <1>2, <1>5, <1>6 DEF CaddyInv, CaddyTypes
<1>8. StepOk(a)'
  BY <1>1, <1>2, <1>4, <1>5 DEF StepOk, StartPcs, LoadPcs
<1>9. StartsOk => Starting(a)
  BY <1>1, <1>4, <1>5, NoneFound DEF Starting, CaddyInv
<1>10. SystemUntouched' /\ act'[a].pc # "post"
  BY <1>2, <1>4, <1>5 DEF CaddyInv, SystemApart, SystemUntouched
<1> QED BY <1>2, <1>3, <1>5, <1>6, <1>7, <1>8, <1>9, <1>10, CommandKeeps

LEMMA WriteMainKeeps == ASSUME CaddyInv, NEW a \in Actor, WriteMain(a) PROVE CaddyInv'
<1>1. act[a].pc = "write" /\ Ws(a) \in Workspace /\ StepOk(a)
  BY WsOf DEF CaddyInv, WriteMain, StepsOk
<1>2. UNCHANGED <<reg, pidf, pieces, procs, startLk, confLk, cgh, spentCaddy>>
  BY DEF WriteMain, lockVars
<1>3. Ending /\ Assigning /\ Naming
  BY <1>2, SameProcs DEF CaddyInv
<1>4. /\ act' \in [Actor -> Acts] /\ Only(a) /\ act'[a].pc = "start" /\ act'[a].op = act[a].op
      /\ act'[a].ret = act[a].ret /\ act'[a].child = act[a].child /\ act'[a].sys = act[a].sys
  BY ActorGoes DEF CaddyInv, CaddyPcs, StartPcs, WriteMain
<1>5. Rendered(Ws(a)) \in Mains
  BY <1>1 DEF CaddyInv, CaddyTypes, Rendered, AdminOf, Mains
<1>6. mainText' \in [Workspace -> Mains]
  BY <1>1, <1>5 DEF WriteMain, CaddyInv, CaddyTypes
<1>7. CaddyTypes'
  BY <1>2, <1>4, <1>6 DEF CaddyInv, CaddyTypes
<1>8. StepOk(a)'
  BY <1>1, <1>2, <1>4 DEF StepOk, StartPcs, LoadPcs
<1>9. StartsOk => Starting(a)
  BY <1>1, <1>4 DEF Starting, StartsOk
<1>10. SystemUntouched' /\ act'[a].pc # "post"
  BY <1>2, <1>4 DEF CaddyInv, SystemApart, SystemUntouched
<1> QED BY <1>2, <1>3, <1>4, <1>7, <1>8, <1>9, <1>10, CommandKeeps

LEMMA PrepareKeeps == ASSUME CaddyInv, NEW a \in Actor, PrepareStart(a) PROVE CaddyInv'
BY WsOf, LegacyStops, ActorGoes, PortAssigned, CommandKeeps DEF CaddyInv, PrepareStart, StepsOk,
       lockVars, CaddyPcs, StartPcs, CaddyTypes, StepOk, LoadPcs, Starting, StartsOk, SystemApart,
       SystemUntouched

LEMMA AwaitKeeps == ASSUME CaddyInv, NEW a \in Actor, AwaitStart(a) PROVE CaddyInv'
<1>1. /\ act[a].pc = "wait" /\ spentCaddy \in [cmds : Nat, trouble : Nat]
      /\ cgh \in [slow : BOOLEAN, foreign : SUBSET {"system", "neighbour", "raced"}]
  BY DEF CaddyInv, CaddyTypes, AwaitStart
<1>2. UNCHANGED <<reg, pidf, pieces, mainText, procs, confLk>>
  BY DEF AwaitStart, diskVars
<1>3. Ending /\ Assigning /\ Naming
  BY <1>2, SameProcs DEF CaddyInv
<1>4. Back(a)
  BY DEF AwaitStart, Returns, Back, BackPcs, CaddyGoes
<1>5. /\ act' \in [Actor -> Acts] /\ Only(a)
      /\ act'[a].pc \in {"conf", "end", "render", "again", "back"}
      /\ act'[a].sys = act[a].sys /\ StepOk(a)'
      /\ startLk' \in [Workspace -> Actor \cup {Nobody}]
      /\ \A b \in Actor \ {a} : startLk[Ws(b)] = b => startLk'[Ws(b)] = b
  BY <1>1, <1>2, <1>4, BackKeeps
<1>6. spentCaddy' \in [cmds : Nat, trouble : Nat]
  <2>1. Trouble \/ CaddySmooth
    BY Zenon DEF AwaitStart
  <2> QED BY <1>1, <2>1 DEF Trouble, CaddySmooth
<1>7. /\ cgh' \in [slow : BOOLEAN, foreign : SUBSET {"system", "neighbour", "raced"}]
      /\ cgh'.foreign = cgh.foreign
      /\ ~cgh'.slow => ~cgh.slow /\ procs[act[a].child].st # "booting"
  BY <1>1 DEF AwaitStart
<1>8. CaddyTypes'
  BY <1>2, <1>5, <1>6, <1>7 DEF CaddyInv, CaddyTypes
<1>9. SystemUntouched' /\ (~cgh'.slow => Starting(a))
  BY <1>5, <1>7 DEF CaddyInv, SystemApart, SystemUntouched, Starting
<1> QED BY <1>2, <1>3, <1>5, <1>7, <1>8, <1>9, CommandKeeps

LEMMA LookAtMasterKeeps == ASSUME CaddyInv, NEW a \in Actor, LookAtMaster(a) PROVE CaddyInv'
<1>1. /\ act[a].pc = "off" /\ Ws(a) \in Workspace /\ StepOk(a)
      /\ pidf \in [Workspace -> Pid \cup {NoPid}] /\ procs \in [Pid -> Procs]
      /\ reg \in [Workspace -> Port \cup {NoPort}]
  BY WsOf DEF CaddyInv, CaddyTypes, LookAtMaster, StepsOk
<1>2. UNCHANGED <<reg, pieces, mainText, procs, startLk, confLk, cgh, spentCaddy>>
  BY DEF LookAtMaster, lockVars
<1>3. Ending /\ Assigning
  BY <1>2, SameProcs DEF CaddyInv
<1>4. PICK pc \in {"legacy", "post"} : CaddyGoes(a, pc) /\ (pc = "post" => MayStop(Ws(a)) \/ Adoptable(Ws(a)) # {})
  BY DEF LookAtMaster
<1>5. /\ act' \in [Actor -> Acts] /\ Only(a) /\ act'[a].pc = pc /\ act'[a].op = act[a].op
      /\ act'[a].ret = act[a].ret /\ act'[a].child = act[a].child /\ act'[a].sys = act[a].sys
  BY <1>4, ActorGoes DEF CaddyInv, CaddyPcs
<1>6. pidf' \in [Workspace -> Pid \cup {NoPid}] /\ Naming
  BY <1>1, <1>2 DEF ClearStale, Naming, Adoptable, Listeners, LookAtMaster
<1>7. ASSUME pc = "post", reg[Ws(a)] = NoPort PROVE ~act[a].sys
  BY <1>1, <1>4, <1>7, CaddyAssumption DEF MayStop, PidAlive, CaddyInv, PortsOk, Adoptable,
         Listeners, Procs, NoPort, SystemApart
<1>8. CaddyTypes'
  BY <1>2, <1>5, <1>6 DEF CaddyInv, CaddyTypes
<1>9. StepOk(a)'
  BY <1>1, <1>2, <1>4, <1>5 DEF StepOk, StartPcs, LoadPcs
<1>10. SystemUntouched' /\ Starting(a)
  BY <1>1, <1>2, <1>4, <1>5 DEF CaddyInv, SystemApart, SystemUntouched, Starting
<1> QED BY <1>2, <1>3, <1>5, <1>6, <1>7, <1>8, <1>9, <1>10, CommandKeeps

LEMMA PostStopKeeps == ASSUME CaddyInv, NEW a \in Actor, PostStop(a) PROVE CaddyInv'
<1>1. /\ act[a].pc = "post" /\ Ws(a) \in Workspace /\ StepOk(a)
      /\ pidf \in [Workspace -> Pid \cup {NoPid}] /\ procs \in [Pid -> Procs]
      /\ reg \in [Workspace -> Port \cup {NoPort}] /\ spentCaddy \in [cmds : Nat, trouble : Nat]
      /\ cgh \in [slow : BOOLEAN, foreign : SUBSET {"system", "neighbour", "raced"}]
  BY WsOf DEF CaddyInv, CaddyTypes, PostStop, StepsOk
<1>2. UNCHANGED <<reg, pieces, mainText, startLk, confLk>>
  BY DEF PostStop, lockVars
<1>3. /\ act' \in [Actor -> Acts] /\ Only(a) /\ act'[a].pc = "legacy" /\ act'[a].op = act[a].op
      /\ act'[a].ret = act[a].ret /\ act'[a].child = act[a].child /\ act'[a].sys = act[a].sys
  BY ActorGoes DEF CaddyInv, CaddyPcs, PostStop
<1>4. spentCaddy' \in [cmds : Nat, trouble : Nat]
  BY <1>1 DEF PostStop, Trouble, CaddySmooth
<1>5. /\ procs' \in [Pid -> Procs] /\ Ending /\ Naming
      /\ pidf' \in [Workspace -> Pid \cup {NoPid}]
      /\ cgh' \in [slow : BOOLEAN, foreign : SUBSET {"system", "neighbour", "raced"}]
      /\ cgh'.slow = cgh.slow /\ SystemUntouched'
  BY <1>1, CaddyAssumption, ExitKeeps, SameProcs DEF Listeners, CaddyInv, PortsOk, SystemApart,
         AdminOf, Reaches, SystemUntouched, ClearStale, Naming, PostStop
<1>6. CaddyTypes' /\ Assigning
  BY <1>2, <1>3, <1>4, <1>5 DEF CaddyInv, CaddyTypes, Assigning
<1>7. StepOk(a)' /\ Starting(a)
  BY <1>1, <1>2, <1>3 DEF StepOk, StartPcs, LoadPcs, Starting
<1> QED BY <1>2, <1>3, <1>5, <1>6, <1>7, CommandKeeps

LEMMA StopRestKeeps == ASSUME CaddyInv, NEW a \in Actor, StopRest(a) PROVE CaddyInv'
<1>1. act[a].pc = "legacy" /\ Ws(a) \in Workspace /\ StepOk(a)
  BY WsOf DEF CaddyInv, StopRest, StepsOk
<1>2. UNCHANGED <<reg, pieces, mainText, startLk, confLk>>
  BY DEF StopRest, lockVars
<1>3. /\ act' \in [Actor -> Acts] /\ Only(a) /\ act'[a].pc = "end" /\ act'[a].op = act[a].op
      /\ act'[a].ret = act[a].ret /\ act'[a].child = act[a].child /\ act'[a].sys = act[a].sys
  BY ActorGoes DEF CaddyInv, CaddyPcs, StopRest
<1>4. /\ procs' \in [Pid -> Procs] /\ Ending /\ Naming
      /\ pidf' \in [Workspace -> Pid \cup {NoPid}]
      /\ UNCHANGED cgh /\ spentCaddy' \in [cmds : Nat, trouble : Nat]
  BY LegacyStops, SameProcs DEF CaddyInv, CaddyTypes, CaddySmooth, StopRest
<1>5. CaddyTypes' /\ Assigning
  BY <1>2, <1>3, <1>4 DEF CaddyInv, CaddyTypes, Assigning
<1>6. StepOk(a)' /\ Starting(a)
  BY <1>1, <1>2, <1>3 DEF StepOk, StartPcs, LoadPcs, Starting
<1>7. SystemUntouched' /\ act'[a].pc # "post"
  BY <1>3, <1>4 DEF CaddyInv, SystemApart, SystemUntouched
<1> QED BY <1>2, <1>3, <1>4, <1>5, <1>6, <1>7, CommandKeeps

(* A process that begins is one nobody has named before. *)
LEMMA FreshKeeps ==
    ASSUME CaddyInv, HasFresh, NEW proc \in Procs, proc.ws # "none", procs' = [procs EXCEPT ![Fresh] = proc]
    PROVE  /\ procs' \in [Pid -> Procs] /\ Fresh \in Pid /\ procs'[Fresh] = proc
           /\ \A p \in Pid \ {Fresh} : procs'[p] = procs[p]
           /\ \A w \in Workspace : pidf[w] # NoPid => pidf[w] \in Pid \ {Fresh}
           /\ \A b \in Actor : act[b].pc = "wait" => act[b].child \in Pid \ {Fresh}
BY FreshIsFree, WsOf DEF CaddyInv, CaddyTypes, PortsOk, Workspace, StepsOk, StepOk

LEMMA SpawnKeeps == ASSUME CaddyInv, NEW a \in Actor, Spawn(a) PROVE CaddyInv'
<1> DEFINE w == Ws(a)
<1>1. /\ act[a].pc = "spawn" /\ w \in Workspace /\ StepOk(a) /\ startLk[w] = a
      /\ reg[w] \in Port /\ AdminOf(w) = reg[w]
      /\ mainText \in [Workspace -> Mains] /\ pieces \in [Workspace -> Piece]
      /\ act \in [Actor -> Acts]
  BY WsOf DEF CaddyInv, Spawn, StepsOk, StepOk, StartPcs, CaddyTypes, AdminOf
<1>2. UNCHANGED <<reg, pidf, pieces, startLk, confLk, cgh, spentCaddy>>
  BY DEF Spawn, lockVars
<1>3. PICK text \in Piece \cup {"none", "boot"} :
         procs' = [procs EXCEPT ![Fresh] = [ws |-> w, port |-> reg[w], text |-> text, st |-> "booting"]]
  BY <1>1 DEF Mains, Spawn
<1> DEFINE proc == [ws |-> w, port |-> reg[w], text |-> text, st |-> "booting"]
<1>4. proc \in Procs /\ proc.ws = w /\ proc.port = reg[w] /\ proc.st = "booting" /\ proc.ws # "none"
  BY <1>1, <1>3 DEF Procs, Workspace
<1>5. HasFresh
  BY DEF Spawn
<1>6. PICK f \in Pid : f = Fresh /\ procs[f].st = "free"
  BY <1>5, FreshIsFree
<1>7. /\ procs' \in [Pid -> Procs] /\ procs'[f] = proc
      /\ \A p \in Pid \ {f} : procs'[p] = procs[p]
      /\ \A v \in Workspace : pidf[v] # NoPid => pidf[v] \in Pid \ {f}
      /\ \A b \in Actor : act[b].pc = "wait" => act[b].child \in Pid \ {f}
  BY <1>3, <1>4, <1>5, <1>6, FreshKeeps
<1>8. /\ act' \in [Actor -> Acts] /\ Only(a) /\ act'[a].pc = "wait" /\ act'[a].child = f
      /\ act'[a].op = act[a].op /\ act'[a].ret = act[a].ret /\ act'[a].sys = act[a].sys
  <2> DEFINE new == [act[a] EXCEPT !.pc = "wait", !.child = f]
  <2>1. act' = [act EXCEPT ![a] = new]
    BY <1>1, <1>6 DEF Spawn
  <2>2. new \in Acts
    BY <1>1 DEF Acts, CaddyPcs, StartPcs
  <2>3. act' \in [Actor -> Acts] /\ Only(a) /\ act'[a] = new
    BY <2>1, <2>2, Moves DEF CaddyInv
  <2> QED BY <2>3, <1>1 DEF Acts
<1>9. CaddyTypes'
  BY <1>1, <1>2, <1>7, <1>8 DEF Rendered, Mains, Spawn, CaddyInv, CaddyTypes
<1>10. PortsOk'
  BY <1>1, <1>2, <1>4, <1>7, CaddyAssumption DEF CaddyInv, PortsOk, Workspace
<1>11. StepsOk'
  BY <1>1, <1>2, <1>4, <1>7, <1>8 DEF StepOk, StartPcs, LoadPcs, CaddyInv, StepsOk, Only
<1>12. SystemApart'
  BY <1>4, <1>7, <1>1, <1>8, <1>2 DEF CaddyInv, SystemApart, Only, Workspace, SystemUntouched
<1>13. ASSUME ~cgh'.slow PROVE StartsOk'
  <2>1. StartsOk
    BY <1>2, <1>13 DEF CaddyInv
  <2>2. Masters(w) = {}
    BY <2>1, <1>1 DEF StartsOk
  <2>3. \A v \in Workspace : AdminOf(v)' = AdminOf(v)
    BY <1>2 DEF AdminOf
  <2>4. /\ \A v \in Workspace \ {w} : Masters(v)' = Masters(v)
        /\ Masters(w)' \subseteq {f}
    BY <2>2, <2>3, <1>1, <1>4, <1>6, <1>7 DEF Masters
  <2>5. ASSUME NEW p \in Pid, procs'[p].st = "booting"
        PROVE  \E b \in Actor : act'[b].pc = "wait" /\ act'[b].child = p /\ Ws(b) = procs'[p].ws
    BY <1>4, <1>7, <1>8, <2>1, <2>5, <1>1 DEF StartsOk, Only
  <2>6. ASSUME NEW b \in Actor, b # a
        PROVE  /\ act'[b].pc \in {"write", "start", "spawn"} => Masters(Ws(b))' = {}
               /\ act'[b].pc = "wait" => Masters(Ws(b))' \subseteq {act'[b].child}
    <3>1. act'[b] = act[b]
      BY <2>6, <1>8 DEF Only
    <3>2. act[b].pc \in {"write", "start", "spawn", "wait"} => Ws(b) # w
      BY <1>1, <2>6 DEF CaddyInv, StepsOk, StepOk, StartPcs
    <3>3. Ws(b) \in Workspace /\ (Ws(b) # w => Masters(Ws(b))' = Masters(Ws(b)))
      BY <2>4, WsOf DEF Ws
    <3> QED BY <3>1, <3>2, <3>3, <2>1 DEF StartsOk
  <2>7. \A v \in Workspace : \A p, q \in Masters(v)' : p = q
    BY <2>1, <2>4 DEF StartsOk
  <2> QED BY <2>4, <2>5, <2>6, <2>7, <1>8 DEF StartsOk
<1> QED BY <1>9, <1>10, <1>11, <1>12, <1>13 DEF CaddyInv

-----------------------------------------------------------------------------
(* What happens meanwhile.                                                   *)

LEMMA EndingsKeep ==
    ASSUME CaddyInv, CaddyTypes', Ending, Naming, UNCHANGED <<reg, startLk, act, cgh>>
    PROVE  CaddyInv'
BY PortsKept, MastersShrink, WsOf DEF Assigning, CaddyInv, StepsOk, StepOk, Ending, SystemApart,
       SystemUntouched, StartsOk, Ws

LEMMA BootFailsKeeps ==
    ASSUME CaddyInv, NEW p \in Pid, BootFails(p) \/ MasterDies(p)
    PROVE  CaddyInv'
<1>1. /\ procs \in [Pid -> Procs] /\ pidf \in [Workspace -> Pid \cup {NoPid}]
      /\ spentCaddy \in [cmds : Nat, trouble : Nat]
      /\ procs[p].st \in {"booting", "up"} /\ (procs[p].st = "booting" => procs[p].ws \in Workspace)
  BY DEF CaddyInv, CaddyTypes, BootFails, MasterDies, PortsOk
<1>2. /\ UNCHANGED <<reg, pieces, mainText, startLk, confLk, act, cgh>>
      /\ procs' = [procs EXCEPT ![p].st = "dead"]
  BY DEF BootFails, MasterDies, lockVars, diskVars
<1>3. procs' \in [Pid -> Procs] /\ Ending
  BY <1>1, <1>2 DEF Procs, Ending
<1>4. pidf' \in [Workspace -> Pid \cup {NoPid}] /\ Naming
  BY <1>1 DEF BootFails, MasterDies, diskVars, Naming
<1>5. spentCaddy' \in [cmds : Nat, trouble : Nat]
  BY <1>1 DEF BootFails, MasterDies, Trouble, CaddySmooth
<1>6. CaddyTypes'
  BY <1>2, <1>3, <1>4, <1>5 DEF CaddyInv, CaddyTypes
<1> QED BY <1>2, <1>3, <1>4, <1>6, EndingsKeep

LEMMA BootsUpKeeps == ASSUME CaddyInv, NEW p \in Pid, BootsUp(p) PROVE CaddyInv'
<1>1. /\ procs \in [Pid -> Procs] /\ pidf \in [Workspace -> Pid \cup {NoPid}]
      /\ procs[p].st = "booting" /\ procs[p].ws \in Workspace /\ procs[p].port # Legacy
  BY DEF CaddyInv, CaddyTypes, BootsUp, PortsOk
<1>2. /\ UNCHANGED <<reg, pieces, mainText, startLk, confLk, act, cgh, spentCaddy>>
      /\ procs' = [procs EXCEPT ![p].st = "up"] /\ pidf' = [pidf EXCEPT ![procs[p].ws] = p]
  BY DEF BootsUp, lockVars
<1>3. /\ procs' \in [Pid -> Procs] /\ procs'[p].st = "up"
      /\ \A q \in Pid : procs'[q].ws = procs[q].ws /\ procs'[q].port = procs[q].port
      /\ \A q \in Pid \ {p} : procs'[q].st = procs[q].st
  BY <1>1, <1>2 DEF Procs
<1>4. pidf' \in [Workspace -> Pid \cup {NoPid}]
  BY <1>1, <1>2
<1>5. CaddyTypes'
  BY <1>2, <1>3, <1>4 DEF CaddyInv, CaddyTypes
<1>6. PortsOk'
  BY <1>1, <1>2, <1>3 DEF CaddyInv, PortsOk
<1>7. StepsOk'
  BY <1>2, <1>3 DEF StepsOk, CaddyInv, StepOk
<1>8. SystemApart'
  BY <1>1, <1>2, <1>3 DEF CaddyInv, SystemApart, SystemUntouched
<1>9. ASSUME ~cgh'.slow PROVE StartsOk'
  <2>1. StartsOk
    BY <1>2, <1>9 DEF CaddyInv
  <2>2. \A w \in Workspace : Masters(w)' = Masters(w)
    BY <1>2, <1>1, <1>3 DEF AdminOf, Masters
  <2>3. ASSUME NEW q \in Pid, procs'[q].st = "booting"
        PROVE  \E b \in Actor : act'[b].pc = "wait" /\ act'[b].child = q /\ Ws(b) = procs'[q].ws
    BY <2>1, <2>3, <1>2, <1>3 DEF StartsOk
  <2>4. ASSUME NEW b \in Actor
        PROVE  /\ act'[b].pc \in {"write", "start", "spawn"} => Masters(Ws(b))' = {}
               /\ act'[b].pc = "wait" => Masters(Ws(b))' \subseteq {act'[b].child}
    <3>1. Masters(Ws(b))' = Masters(Ws(b))
      BY <2>2, WsOf DEF Ws
    <3> QED BY <3>1, <2>1, <1>2 DEF StartsOk
  <2> QED BY <2>1, <2>2, <2>3, <2>4 DEF StartsOk
<1> QED BY <1>5, <1>6, <1>7, <1>8, <1>9 DEF CaddyInv

LEMMA SystemStartsKeeps == ASSUME CaddyInv, SystemStarts PROVE CaddyInv'
<1> DEFINE proc == [ws |-> "system", port |-> Legacy, text |-> "old", st |-> "up"]
<1>1. /\ UNCHANGED <<reg, pidf, pieces, mainText, startLk, confLk, act, cgh>>
      /\ HasFresh /\ Listeners(Legacy) = {} /\ procs' = [procs EXCEPT ![Fresh] = proc]
  BY DEF SystemStarts, diskVars, lockVars
<1>2. proc \in Procs /\ proc.ws = "system" /\ proc.port = Legacy /\ proc.st = "up" /\ proc.ws # "none"
  BY DEF Procs, Piece
<1>3. PICK f \in Pid : f = Fresh /\ procs[f].st = "free" /\ procs[f].ws = "none"
  BY <1>1, FreshIsFree DEF CaddyInv, PortsOk
<1>4. /\ procs' \in [Pid -> Procs] /\ procs'[f] = proc
      /\ \A p \in Pid \ {f} : procs'[p] = procs[p]
      /\ \A v \in Workspace : pidf[v] # NoPid => pidf[v] \in Pid \ {f}
      /\ \A b \in Actor : act[b].pc = "wait" => act[b].child \in Pid \ {f}
  BY <1>1, <1>2, <1>3, FreshKeeps
<1> HIDE DEF proc
<1>5. spentCaddy' \in [cmds : Nat, trouble : Nat]
  BY DEF SystemStarts, Trouble, CaddyInv, CaddyTypes
<1>6. CaddyTypes'
  BY <1>1, <1>4, <1>5 DEF CaddyInv, CaddyTypes
<1>7. PortsOk'
  BY <1>1, <1>2, <1>4 DEF CaddyInv, PortsOk, Workspace
<1>8. StepsOk'
  BY <1>1, <1>4 DEF StepsOk, CaddyInv, StepOk
<1>9. SystemApart'
  BY <1>2, <1>4, <1>1 DEF Workspace, Listeners, CaddyInv, SystemApart, SystemUntouched
<1>10. ASSUME ~cgh'.slow PROVE StartsOk'
  BY <1>1, <1>10, <1>2, <1>3, <1>4, WsOf DEF CaddyInv, AdminOf, Workspace, Masters, StartsOk, Ws
<1> QED BY <1>6, <1>7, <1>8, <1>9, <1>10 DEF CaddyInv

LEMMA CaddyStepKeeps == ASSUME CaddyInv, NEW a \in Actor, CaddyStep(a) PROVE CaddyInv'
BY BeginKeeps, TakeConfKeeps, JudgeKeeps, RenderKeeps, PushKeeps, PutBackKeeps, UndoKeeps, EndKeeps,
   TakeStartKeeps, LookKeeps, WriteMainKeeps, PrepareKeeps, SpawnKeeps, AwaitKeeps,
   LookAtMasterKeeps, PostStopKeeps, StopRestKeeps DEF CaddyStep

LEMMA CaddyInitInv == CaddyInit => CaddyInv
<1> SUFFICES ASSUME CaddyInit PROVE CaddyInv
    OBVIOUS
<1>1. PICK who \in {"none", "system"} \cup Workspace :
         /\ procs = [p \in Pid |-> IF p = 1 /\ who # "none"
                                   THEN [ws |-> who, port |-> Legacy, text |-> "old", st |-> "up"]
                                   ELSE NoProc]
         /\ pidf = [w \in Workspace |-> IF w = who THEN 1 ELSE NoPid]
         /\ mainText = [w \in Workspace |-> IF w = who THEN [adm |-> Legacy, text |-> "old"] ELSE NoMain]
  BY DEF CaddyInit
<1>2. act \in [Actor -> Acts] /\ \A a \in Actor : act[a].pc = "idle" /\ act[a].ret = "none" /\ ~act[a].sys
  BY DEF NoAct, Acts, CaddyPcs, NoMain, Mains, Piece, CaddyInit
<1>3. procs \in [Pid -> Procs] /\ mainText \in [Workspace -> Mains]
  BY <1>1 DEF NoProc, Procs, Piece, NoMain, Mains
<1>4. 1 \in Pid /\ NoPid \notin Pid
  BY CaddyAssumption DEF Pid
<1>5. CaddyTypes
  BY <1>1, <1>4, <1>2, <1>3 DEF CaddyInit, Piece, CaddyTypes
<1>6. /\ \A p \in Pid : procs[p] \in {NoProc, [ws |-> who, port |-> Legacy, text |-> "old", st |-> "up"]}
      /\ \A p \in Pid : procs[p] = NoProc \/ p = 1
      /\ NoProc.ws = "none" /\ NoProc.st = "free" /\ NoProc.port = Legacy
  BY <1>1 DEF NoProc
<1>7. \A w \in Workspace : reg[w] = NoPort /\ w # "none" /\ w # "system"
  BY DEF CaddyInit, Workspace
<1>8. PortsOk
  BY <1>1, <1>4, <1>7, <1>6 DEF PortsOk
<1>9. StepsOk
  BY <1>2 DEF StepsOk, StepOk, StartPcs, LoadPcs
<1>10. SystemApart
  BY <1>6, <1>7, <1>2 DEF CaddyInit, SystemUntouched, SystemApart
<1>11. StartsOk
  BY <1>6, <1>2 DEF Masters, StartsOk
<1> QED BY <1>5, <1>8, <1>9, <1>10, <1>11 DEF CaddyInv

LEMMA CaddyNextKeeps == CaddyInv /\ [CaddyNext]_caddyVars => CaddyInv'
<1> SUFFICES ASSUME CaddyInv, [CaddyNext]_caddyVars PROVE CaddyInv'
    OBVIOUS
<1>1. ASSUME NEW a \in Actor, CaddyStep(a) PROVE CaddyInv'
  BY <1>1, CaddyStepKeeps
<1>2. ASSUME NEW p \in Pid, BootsUp(p) PROVE CaddyInv'
  BY <1>2, BootsUpKeeps
<1>3. ASSUME NEW p \in Pid, BootFails(p) PROVE CaddyInv'
  BY <1>3, BootFailsKeeps
<1>4. ASSUME NEW p \in Pid, MasterDies(p) PROVE CaddyInv'
  BY <1>4, BootFailsKeeps
<1>5. ASSUME SystemStarts PROVE CaddyInv'
  BY <1>5, SystemStartsKeeps
<1>6. CASE UNCHANGED caddyVars
  BY <1>6 DEF CaddyInv, CaddyTypes, PortsOk, caddyVars, StepsOk, StepOk, Ws, SystemApart,
         SystemUntouched, StartsOk, Masters, AdminOf
<1> QED BY <1>1, <1>2, <1>3, <1>4, <1>5, <1>6 DEF CaddyNext

(* The inductive invariant of Caddy's masters: a start that has found none   *)
(* holds the start lock until its child answers (ensure_caddy_running,       *)
(* static_gateway.py:2064), and a master on the default port never shares    *)
(* the machine with a Caddy of the system, so that a stop that finds the one *)
(* has not found the other.                                                  *)
THEOREM CaddyInvariant == CaddySpec => []CaddyInv
<1>1. CaddyInit => CaddyInv
  BY CaddyInitInv
<1>2. CaddyInv /\ [CaddyNext]_caddyVars => CaddyInv'
  BY CaddyNextKeeps
<1> QED BY <1>1, <1>2, PTL DEF CaddySpec

(* However starts by the command line, the daemon and reloads interleave, a  *)
(* workspace has one master on its admin port unless a start was given up on *)
(* while its child was booting (ensure_caddy_running, static_gateway.py:2064),*)
(* and no command configures or stops a Caddy of the system that ran when it *)
(* began (caddy_stop, static_gateway.py:1883).                               *)
THEOREM MasterStaysSafe == CaddySpec => []MasterIsSafe
<1>1. CaddyInv => MasterIsSafe
  <2> SUFFICES ASSUME CaddyInv PROVE MasterIsSafe
      OBVIOUS
  <2>1. CaddyTypeOK
    BY DEF CaddyInv, CaddyTypes, CaddyTypeOK, Mains, Procs
  <2>2. SystemUntouched
    BY DEF CaddyInv, SystemApart
  <2>3. OneMaster
    <3> SUFFICES ASSUME ~cgh.slow, NEW w \in Workspace PROVE Cardinality(Masters(w)) <= 1
        BY DEF OneMaster, Masters
    <3>1. \A p, q \in Masters(w) : p = q
      BY DEF CaddyInv, StartsOk
    <3>2. CASE Masters(w) = {}
      BY <3>2, FS_EmptySet
    <3>3. ASSUME NEW p \in Masters(w) PROVE Cardinality(Masters(w)) <= 1
      <4>1. Masters(w) = {p}
        BY <3>1, <3>3
      <4> QED BY <4>1, FS_Singleton
    <3> QED BY <3>2, <3>3
  <2> QED BY <2>1, <2>2, <2>3 DEF MasterIsSafe
<1> QED BY <1>1, CaddyInvariant, PTL

(***************************************************************************)
(* Static sites.                                                           *)
(***************************************************************************)

DepPcs  ==
    {"idle", "build", "sync", "copy", "port", "claim", "gate", "spawn", "wait", "giveback", "note"}
DepKind == [pc : DepPcs, serving : BOOLEAN, synced : BOOLEAN, was : {"none", "part", "whole"},
            port : MaybePort, fresh : BOOLEAN, prev : MaybePort, restore : BOOLEAN]
RowOf   == [status : {"stopped", "building", "running", "failed"}, on : BOOLEAN, port : MaybePort]
HasPort == {"gate", "spawn", "wait", "giveback", "note"}

HostTyped ==
    /\ HostTypeOK /\ dep \in [Static -> DepKind] /\ srow \in [Static -> RowOf]
    /\ hgh.adrift \subseteq HostPort /\ hgh.stray \subseteq Static
    /\ hgh = [adrift |-> hgh.adrift, stray |-> hgh.stray]

(* A port is the site's, or it was given up. *)
Mine(s, p) == p \in HostPort => owner[p] = s \/ p \in hgh.adrift

(* What row, configuration and deployment name is the site's; a port that   *)
(* was taken afresh is named by none of the former, or was given up.        *)
PortsOf(s) ==
    /\ Mine(s, srow[s].port) /\ Mine(s, site[s])
    /\ dep[s].pc \in {"spawn", "wait"} => Mine(s, dep[s].prev)
    /\ dep[s].pc \in HasPort => dep[s].port \in HostPort /\ owner[dep[s].port] = s
    /\ dep[s].pc \notin HasPort => ~dep[s].fresh
    /\ dep[s].pc \in HasPort /\ dep[s].fresh /\ dep[s].port \notin hgh.adrift =>
         /\ srow[s].port # dep[s].port
         /\ dep[s].pc \in {"gate", "giveback"} => site[s] # dep[s].port
         /\ dep[s].pc \in {"spawn", "wait"} => dep[s].prev # dep[s].port

(* A site listens only where nobody else is registered. *)
ListensOwn ==
    \A p \in HostPort : listen[p] \in Static /\ p \notin hgh.adrift => owner[p] \in {listen[p], NoStatic}

(* The pid file names the server that runs, and no other one runs.          *)
PidOf(s) ==
    /\ s \notin hgh.stray => \A p \in HostPort : listen[p] = s => pidFile[s] = p
    /\ pidFile[s] \in HostPort => listen[pidFile[s]] = s
    /\ dep[s].pc = "spawn" /\ s \notin hgh.stray => pidFile[s] = NoHostPort

(* How far public/ is. *)
FilesOf(s) ==
    /\ dep[s].pc \in {"build", "sync"} => public[s] = dep[s].was
    /\ dep[s].pc \notin {"idle", "build", "sync"} => dep[s].synced
    /\ dep[s].pc \in HasPort \cup {"port", "claim"} => public[s] = "whole"

HostInv ==
    /\ HostTyped /\ ListensOwn
    /\ \A s \in Static : PortsOf(s) /\ PidOf(s) /\ FilesOf(s)

LEMMA HostMarks ==
    /\ NoHostPort \notin HostPort /\ DeadPid \notin HostPort /\ DeadPid # NoHostPort /\ NoStatic \notin Static
    /\ Foreign \notin Static /\ Foreign # NoStatic
BY HostAssumption DEF HostAssumption

(* What a step of one site leaves of the others. *)
Nearby(s) ==
    /\ \A t \in Static \ {s} : /\ dep'[t] = dep[t] /\ srow'[t] = srow[t] /\ public'[t] = public[t]
                               /\ site'[t] = site[t] /\ pidFile'[t] = pidFile[t]
    /\ \A p \in HostPort : owner'[p] = owner[p] \/ (owner[p] \in {s, NoStatic} /\ owner'[p] \in {s, NoStatic})
    /\ \A p \in HostPort : listen'[p] = listen[p] \/ (listen[p] \in {s, NoStatic} /\ listen'[p] \in {s, NoStatic})
    /\ hgh.adrift \subseteq hgh'.adrift /\ hgh.stray \subseteq hgh'.stray

LEMMA NearbyKeeps ==
    ASSUME HostInv, NEW s \in Static, Nearby(s), HostTyped', NEW t \in Static \ {s}
    PROVE  PortsOf(t)' /\ PidOf(t)' /\ FilesOf(t)'
BY HostMarks DEF HostInv, Nearby, Mine, PortsOf, PidOf, FilesOf

LEMMA StepKeepsHost ==
    ASSUME HostInv, NEW s \in Static, Nearby(s), HostTyped', ListensOwn', PortsOf(s)', PidOf(s)', FilesOf(s)'
    PROVE  HostInv'
BY NearbyKeeps DEF HostInv

LEMMA HostKinds ==
    ASSUME HostInv, NEW s \in Static
    PROVE  /\ dep \in [Static -> DepKind] /\ dep[s] \in DepKind /\ srow \in [Static -> RowOf] /\ srow[s] \in RowOf
           /\ public \in [Static -> {"none", "part", "whole"}] /\ site \in [Static -> MaybePort]
           /\ pidFile \in [Static -> MaybePort \cup {DeadPid}]
           /\ owner \in [HostPort -> Static \cup {NoStatic}]
           /\ listen \in [HostPort -> Static \cup {NoStatic, Foreign}]
           /\ built \in [Static -> {"none", "running", "success", "failed", "cancelled"}]
           /\ gate \in Static \cup {NoStatic}
           /\ hgh.adrift \subseteq HostPort /\ hgh.stray \subseteq Static
           /\ hgh = [adrift |-> hgh.adrift, stray |-> hgh.stray]
           /\ PortsOf(s) /\ PidOf(s) /\ FilesOf(s) /\ ListensOwn
BY DEF HostInv, HostTyped, HostTypeOK

(* A step that leaves ports and servers alone. *)
StaysPut == UNCHANGED <<owner, hgh, listen, pidFile, site>>
Writes(s, d, r, w) ==
    dep' = [dep EXCEPT ![s] = d] /\ srow' = [srow EXCEPT ![s] = r] /\ public' = [public EXCEPT ![s] = w]

LEMMA SitePutKeeps ==
    ASSUME HostInv, NEW s \in Static, StaysPut, NEW d \in DepKind, NEW r \in RowOf, NEW w \in {"none", "part", "whole"},
           Writes(s, d, r, w), built' \in [Static -> {"none", "running", "success", "failed", "cancelled"}],
           gate' \in Static \cup {NoStatic}, Mine(s, r.port),
           d.pc \in HasPort =>
             /\ dep[s].pc \in HasPort /\ d.port = dep[s].port /\ d.fresh = dep[s].fresh /\ r.port = srow[s].port
             /\ dep[s].pc = "wait" /\ d.pc = "note",
           d.pc \notin HasPort => ~d.fresh,
           d.pc \in {"build", "sync"} => w = d.was,
           d.pc \notin {"idle", "build", "sync"} => d.synced,
           d.pc \in HasPort \cup {"port", "claim"} => w = "whole"
    PROVE  HostInv'
<1>1. /\ dep \in [Static -> DepKind] /\ srow \in [Static -> RowOf] /\ public \in [Static -> {"none", "part", "whole"}]
      /\ PortsOf(s) /\ PidOf(s) /\ FilesOf(s) /\ ListensOwn
  BY HostKinds
<1>2. /\ dep' \in [Static -> DepKind] /\ srow' \in [Static -> RowOf] /\ public' \in [Static -> {"none", "part", "whole"}]
      /\ dep'[s] = d /\ srow'[s] = r /\ public'[s] = w
      /\ \A t \in Static \ {s} : dep'[t] = dep[t] /\ srow'[t] = srow[t] /\ public'[t] = public[t]
  BY <1>1 DEF Writes
<1>3. HostTyped'
  BY <1>2 DEF HostInv, HostTyped, HostTypeOK, StaysPut, DepKind, DepPcs, RowOf
<1>4. Nearby(s)
  BY <1>2 DEF Nearby, StaysPut
<1>5. ListensOwn'
  BY <1>1 DEF ListensOwn, StaysPut
<1>6. d.pc \in HasPort => d.pc = "note" /\ dep[s].pc \in HasPort
  OBVIOUS
<1>7. PortsOf(s)'
  BY <1>1, <1>2, <1>6 DEF PortsOf, Mine, StaysPut, HasPort
<1>8. PidOf(s)'
  BY <1>1, <1>2, <1>6 DEF PidOf, StaysPut, HasPort
<1>9. FilesOf(s)'
  BY <1>2 DEF FilesOf
<1> QED BY <1>3, <1>4, <1>5, <1>7, <1>8, <1>9, StepKeepsHost

LEMMA QuiescentKind == Quiescent \in DepKind /\ Quiescent.pc = "idle" /\ ~Quiescent.fresh
BY DEF Quiescent, DepKind, DepPcs, MaybePort

LEMMA RowTurns ==
    ASSUME HostInv, NEW s \in Static, NEW x \in {"stopped", "building", "running", "failed"}
    PROVE  /\ [srow EXCEPT ![s].status = x] = [srow EXCEPT ![s] = [srow[s] EXCEPT !.status = x]]
           /\ [srow[s] EXCEPT !.status = x] \in RowOf /\ [srow[s] EXCEPT !.status = x].port = srow[s].port
BY HostKinds DEF RowOf

LEMMA StepTurns ==
    ASSUME HostInv, NEW s \in Static, NEW pc \in DepPcs, Step(s, pc)
    PROVE  \E d \in DepKind :
             /\ dep' = [dep EXCEPT ![s] = d] /\ d.pc = pc /\ d.was = dep[s].was /\ d.synced = dep[s].synced
             /\ d.port = dep[s].port /\ d.fresh = dep[s].fresh /\ d.prev = dep[s].prev
<1> DEFINE d == [dep[s] EXCEPT !.pc = pc]
<1>1. dep' = [dep EXCEPT ![s] = d]
  BY DEF Step
<1>2. /\ d \in DepKind /\ d.pc = pc /\ d.was = dep[s].was /\ d.synced = dep[s].synced
      /\ d.port = dep[s].port /\ d.fresh = dep[s].fresh /\ d.prev = dep[s].prev
  BY HostKinds DEF DepKind
<1> QED BY <1>1, <1>2

LEMMA FailLeaves ==
    ASSUME HostInv, NEW s \in Static, HostFails(s)
    PROVE  /\ dep' = [dep EXCEPT ![s] = Quiescent]
           /\ \E r \in RowOf : srow' = [srow EXCEPT ![s] = r] /\ r.port = srow[s].port
                                 /\ (r.status = "running" => ~dep[s].synced)
           /\ built' \in [Static -> {"none", "running", "success", "failed", "cancelled"}]
BY HostKinds, RowTurns DEF StillServes, HostFails, RowOf

(* A deployment that fails without a port of its own. *)
LEMMA FailKeeps ==
    ASSUME HostInv, NEW s \in Static, HostFails(s), StaysPut, UNCHANGED <<public, gate>>
    PROVE  HostInv'
<1>1. PICK r \in RowOf : srow' = [srow EXCEPT ![s] = r] /\ r.port = srow[s].port
  BY FailLeaves
<1>2. /\ dep' = [dep EXCEPT ![s] = Quiescent]
      /\ built' \in [Static -> {"none", "running", "success", "failed", "cancelled"}]
  BY FailLeaves
<1>3. public' = [public EXCEPT ![s] = public[s]] /\ public[s] \in {"none", "part", "whole"}
  BY HostKinds
<1>4. Writes(s, Quiescent, r, public[s])
  BY <1>1, <1>2, <1>3 DEF Writes
<1>5. Mine(s, r.port) /\ gate' \in Static \cup {NoStatic}
  BY <1>1, HostKinds DEF PortsOf
<1>6. "idle" \notin HasPort
  BY DEF HasPort
<1> QED BY <1>2, <1>3, <1>4, <1>5, <1>6, QuiescentKind, SitePutKeeps

LEMMA BeginHostKeeps ==
    ASSUME HostInv, NEW s \in Static, BeginHost(s)
    PROVE  HostInv'
<1> DEFINE b == (srow[s].status = "running" /\ public[s] # "none")
           pc == IF s \in Spa THEN "build" ELSE "sync"
           d == [Quiescent EXCEPT !.pc = pc, !.serving = b, !.was = public[s]]
           r == [srow[s] EXCEPT !.status = "building"]
<1>1. StaysPut /\ UNCHANGED <<public, gate>> /\ dep' = [dep EXCEPT ![s] = d]
      /\ srow' = [srow EXCEPT ![s].status = "building"]
  BY DEF BeginHost, StaysPut, portVars, serverVars
<1>2. built' \in [Static -> {"none", "running", "success", "failed", "cancelled"}]
  BY HostKinds DEF BeginHost
<1>3. public[s] \in {"none", "part", "whole"} /\ public' = [public EXCEPT ![s] = public[s]] /\ b \in BOOLEAN
      /\ pc \in {"build", "sync"} /\ gate' \in Static \cup {NoStatic}
  BY <1>1, HostKinds
<1>4. srow' = [srow EXCEPT ![s] = r] /\ r \in RowOf /\ r.port = srow[s].port
  BY <1>1, RowTurns
<1> HIDE DEF b, pc
<1>5. d \in DepKind /\ d.pc = pc /\ d.was = public[s] /\ ~d.fresh
  BY <1>3 DEF Quiescent, DepKind, DepPcs, MaybePort
<1> HIDE DEF d, r
<1>6. Writes(s, d, r, public[s]) /\ Mine(s, r.port)
  BY <1>1, <1>3, <1>4, HostKinds DEF Writes, PortsOf
<1>7. d.pc \notin HasPort \cup {"port", "claim"}
  BY <1>3, <1>5 DEF HasPort
<1> QED BY <1>1, <1>2, <1>3, <1>4, <1>5, <1>6, <1>7, SitePutKeeps

LEMMA BuildEndsKeeps ==
    ASSUME HostInv, NEW s \in Static, BuildEnds(s)
    PROVE  HostInv'
<1>1. StaysPut /\ UNCHANGED <<public, gate>> /\ dep[s].pc = "build"
  BY DEF BuildEnds, Hosting, StaysPut, portVars, serverVars
<1>2. CASE HostFails(s)
  BY <1>1, <1>2, FailKeeps
<1>3. srow' = srow => srow' = [srow EXCEPT ![s] = srow[s]] /\ srow[s] \in RowOf /\ Mine(s, srow[s].port)
  BY HostKinds DEF PortsOf
<1>4. public' = [public EXCEPT ![s] = public[s]] /\ public[s] \in {"none", "part", "whole"}
      /\ gate' \in Static \cup {NoStatic}
  BY <1>1, HostKinds
<1>5. CASE Step(s, "sync") /\ UNCHANGED <<srow, built>>
  <2>1. PICK d \in DepKind : /\ dep' = [dep EXCEPT ![s] = d] /\ d.pc = "sync" /\ d.was = dep[s].was
                             /\ d.fresh = dep[s].fresh
    BY <1>5, StepTurns DEF DepPcs
  <2>2. Writes(s, d, srow[s], public[s])
    BY <2>1, <1>3, <1>4, <1>5 DEF Writes
  <2>3. public[s] = d.was
    BY <2>1, <1>1, HostKinds DEF FilesOf
  <2>4. built' \in [Static -> {"none", "running", "success", "failed", "cancelled"}] /\ d.pc \notin HasPort /\ ~d.fresh
    BY <1>1, <1>5, <2>1, HostKinds DEF HasPort, PortsOf
  <2> QED BY <1>1, <1>3, <1>4, <1>5, <2>1, <2>2, <2>3, <2>4, SitePutKeeps
<1>6. CASE /\ built' = [built EXCEPT ![s] = "cancelled"]
           /\ dep' = [dep EXCEPT ![s] = Quiescent] /\ UNCHANGED srow
  BY <1>3, <1>4, <1>6, HostKinds, <1>1, QuiescentKind, SitePutKeeps DEF Writes, HasPort
<1> QED BY <1>2, <1>5, <1>6 DEF BuildEnds

LEMMA EmptyKeeps ==
    ASSUME HostInv, NEW s \in Static, EmptyPublic(s)
    PROVE  HostInv'
<1>1. StaysPut /\ UNCHANGED gate /\ dep[s].pc = "sync"
  BY DEF EmptyPublic, Hosting, StaysPut, portVars, serverVars
<1>2. CASE HostFails(s) /\ UNCHANGED public
  BY <1>1, <1>2, FailKeeps
<1>3. CASE /\ public' = [public EXCEPT ![s] = "part"]
           /\ dep' = [dep EXCEPT ![s].pc = "copy", ![s].synced = TRUE] /\ UNCHANGED <<srow, built>>
  <2> DEFINE d == [dep[s] EXCEPT !.pc = "copy", !.synced = TRUE]
  <2>1. dep' = [dep EXCEPT ![s] = d] /\ d \in DepKind /\ d.pc = "copy" /\ d.synced
        /\ d.fresh = dep[s].fresh
    BY <1>3, HostKinds DEF DepKind, DepPcs
  <2> HIDE DEF d
  <2>2. Writes(s, d, srow[s], "part") /\ srow[s] \in RowOf /\ Mine(s, srow[s].port)
    BY <2>1, <1>3, HostKinds DEF Writes, PortsOf
  <2>3. built' \in [Static -> {"none", "running", "success", "failed", "cancelled"}]
        /\ gate' \in Static \cup {NoStatic} /\ d.pc \notin HasPort /\ ~d.fresh
    BY <1>1, <1>3, <2>1, HostKinds DEF HasPort, PortsOf
  <2> QED BY <1>1, <1>3, <2>1, <2>2, <2>3, SitePutKeeps
<1> QED BY <1>2, <1>3 DEF EmptyPublic

LEMMA FillKeeps ==
    ASSUME HostInv, NEW s \in Static, FillPublic(s)
    PROVE  HostInv'
<1>1. StaysPut /\ UNCHANGED gate /\ dep[s].pc = "copy"
  BY DEF FillPublic, Hosting, StaysPut, portVars, serverVars
<1>2. CASE HostFails(s) /\ UNCHANGED public
  BY <1>1, <1>2, FailKeeps
<1>3. CASE /\ public' = [public EXCEPT ![s] = "whole"]
           /\ built' = IF s \in Spa THEN [built EXCEPT ![s] = "success"] ELSE built
           /\ Step(s, "port") /\ UNCHANGED srow
  <2>1. PICK d \in DepKind : /\ dep' = [dep EXCEPT ![s] = d] /\ d.pc = "port" /\ d.synced = dep[s].synced
                             /\ d.fresh = dep[s].fresh
    BY <1>3, StepTurns DEF DepPcs
  <2>2. Writes(s, d, srow[s], "whole") /\ srow[s] \in RowOf /\ Mine(s, srow[s].port)
    BY <2>1, <1>3, HostKinds DEF Writes, PortsOf
  <2>3. built' \in [Static -> {"none", "running", "success", "failed", "cancelled"}]
        /\ gate' \in Static \cup {NoStatic} /\ d.pc \notin HasPort /\ d.synced /\ ~d.fresh
    BY <1>1, <1>3, <2>1, HostKinds DEF HasPort, FilesOf, PortsOf
  <2> QED BY <1>1, <1>3, <2>1, <2>2, <2>3, SitePutKeeps
<1> QED BY <1>2, <1>3 DEF FillPublic

LEMMA HealthyKeeps ==
    ASSUME HostInv, NEW s \in Static, Healthy(s)
    PROVE  HostInv'
<1>1. StaysPut /\ UNCHANGED <<public, srow, built>> /\ dep[s].pc = "wait" /\ gate' = NoStatic
  BY DEF Healthy, Hosting, StaysPut, portVars, serverVars
<1>2. PICK d \in DepKind : /\ dep' = [dep EXCEPT ![s] = d] /\ d.pc = "note" /\ d.synced = dep[s].synced
                           /\ d.port = dep[s].port /\ d.fresh = dep[s].fresh
  BY StepTurns DEF Healthy, DepPcs
<1>3. Writes(s, d, srow[s], public[s]) /\ srow[s] \in RowOf /\ Mine(s, srow[s].port)
  BY <1>1, <1>2, HostKinds DEF Writes, PortsOf
<1>4. /\ public[s] = "whole" /\ d.synced /\ dep[s].pc \in HasPort /\ d.pc \in HasPort
      /\ built' \in [Static -> {"none", "running", "success", "failed", "cancelled"}]
  BY <1>1, <1>2, HostKinds DEF FilesOf, HasPort
<1> QED BY <1>1, <1>2, <1>3, <1>4, SitePutKeeps

LEMMA HostedKeeps ==
    ASSUME HostInv, NEW s \in Static, Hosted(s)
    PROVE  HostInv'
<1> DEFINE r == [status |-> "running", on |-> TRUE, port |-> dep[s].port]
<1>1. StaysPut /\ UNCHANGED <<public, built, gate>> /\ dep[s].pc = "note"
      /\ dep' = [dep EXCEPT ![s] = Quiescent] /\ srow' = [srow EXCEPT ![s] = r]
  BY DEF Hosted, Hosting, StaysPut, portVars, serverVars
<1>2. dep[s].port \in HostPort /\ owner[dep[s].port] = s
  BY <1>1, HostKinds DEF PortsOf, HasPort
<1>3. r \in RowOf /\ Mine(s, r.port)
  BY <1>2 DEF RowOf, MaybePort, Mine
<1> HIDE DEF r
<1>4. Writes(s, Quiescent, r, public[s]) /\ public[s] \in {"none", "part", "whole"}
  BY <1>1, HostKinds DEF Writes
<1>5. built' \in [Static -> {"none", "running", "success", "failed", "cancelled"}]
      /\ gate' \in Static \cup {NoStatic} /\ "idle" \notin HasPort
  BY <1>1, HostKinds DEF HasPort
<1> QED BY <1>1, <1>3, <1>4, <1>5, QuiescentKind, SitePutKeeps

LEMMA StatusKeeps ==
    ASSUME HostInv, NEW s \in Static, NEW x \in {"stopped", "building", "running", "failed"}, StaysPut,
           srow' = [srow EXCEPT ![s].status = x], UNCHANGED <<public, gate, dep>>,
           built' \in [Static -> {"none", "running", "success", "failed", "cancelled"}]
    PROVE  HostInv'
<1> DEFINE r == [srow[s] EXCEPT !.status = x]
<1>1. srow' = [srow EXCEPT ![s] = r] /\ r \in RowOf /\ r.port = srow[s].port
  BY RowTurns
<1> HIDE DEF r
<1>2. \A t \in Static : srow'[t].port = srow[t].port
  BY <1>1, HostKinds
<1>3. srow' \in [Static -> RowOf]
  BY <1>1, HostKinds
<1>4. HostTyped'
  BY <1>3, HostKinds DEF HostInv, HostTyped, HostTypeOK, StaysPut, RowOf
<1>5. ListensOwn'
  BY HostKinds DEF ListensOwn, StaysPut
<1>6. ASSUME NEW t \in Static PROVE PortsOf(t)' /\ PidOf(t)' /\ FilesOf(t)'
  BY <1>2 DEF HostInv, PortsOf, Mine, StaysPut, PidOf, FilesOf
<1> QED BY <1>4, <1>5, <1>6 DEF HostInv

LEMMA ObserveKeeps ==
    ASSUME HostInv, NEW s \in Static, ObserveStatic(s)
    PROVE  HostInv'
BY HostKinds, StatusKeeps DEF Observed, ObserveStatic, StaysPut, portVars, serverVars

LEMMA StaleKeeps ==
    ASSUME HostInv, NEW s \in Static, RecoverStale(s)
    PROVE  HostInv'
BY HostKinds, StatusKeeps DEF RecoverStale, StaysPut, portVars, serverVars

LEMMA HostDiesKeeps ==
    ASSUME HostInv, NEW s \in Static, HostDies(s)
    PROVE  HostInv'
<1>1. StaysPut /\ UNCHANGED <<public, srow, built>> /\ dep' = [dep EXCEPT ![s] = Quiescent]
  BY DEF HostDies, StaysPut, portVars, serverVars
<1>2. gate' \in Static \cup {NoStatic}
  BY HostKinds DEF HostDies
<1>3. Writes(s, Quiescent, srow[s], public[s]) /\ srow[s] \in RowOf /\ Mine(s, srow[s].port)
      /\ public[s] \in {"none", "part", "whole"}
  BY <1>1, HostKinds DEF Writes, PortsOf
<1>4. built' \in [Static -> {"none", "running", "success", "failed", "cancelled"}] /\ "idle" \notin HasPort
  BY <1>1, HostKinds DEF HasPort
<1> QED BY <1>1, <1>2, <1>3, <1>4, QuiescentKind, SitePutKeeps

(* The port that is there for the site stays; else what is registered for   *)
(* the site is given up, and what names it is noted.                        *)
LEMMA EnsureKeeps ==
    ASSUME HostInv, NEW s \in Static, EnsurePort(s)
    PROVE  HostInv'
<1>1. /\ UNCHANGED <<listen, pidFile, site, srow, built, public, gate>> /\ dep[s].pc = "port"
  BY DEF EnsurePort, Hosting, serverVars
<1>2. /\ PortsOf(s) /\ PidOf(s) /\ FilesOf(s) /\ dep[s] \in DepKind /\ srow[s].port \in MaybePort
      /\ site[s] \in MaybePort
  BY HostKinds DEF RowOf
<1>3. public[s] = "whole" /\ dep[s].synced
  BY <1>1, <1>2 DEF FilesOf
<1>4. CASE Reusable(s, srow[s].port)
  <2> DEFINE p == srow[s].port
             d == [dep[s] EXCEPT !.pc = "gate", !.port = p]
  <2>1. /\ p \in HostPort /\ owner[p] \in {s, NoStatic} /\ (listen[p] = NoStatic \/ owner[p] = s)
    BY <1>2, <1>4 DEF Reusable, OwnLive, MaybePort
  <2>2. /\ owner' = [owner EXCEPT ![p] = s] /\ UNCHANGED hgh
        /\ dep' = [dep EXCEPT ![s].pc = "gate", ![s].port = p]
    BY <1>4 DEF EnsurePort
  <2> HIDE DEF p
  <2>3. dep' = [dep EXCEPT ![s] = d] /\ d \in DepKind /\ d.pc = "gate" /\ d.port = p /\ d.synced
        /\ ~d.fresh
    BY <1>1, <1>2, <1>3, <2>1, <2>2, HostKinds DEF DepKind, DepPcs, MaybePort, PortsOf, HasPort
  <2> HIDE DEF d
  <2>4. /\ dep' \in [Static -> DepKind] /\ dep'[s] = d /\ \A t \in Static \ {s} : dep'[t] = dep[t]
        /\ owner' \in [HostPort -> Static \cup {NoStatic}]
        /\ owner'[p] = s /\ \A q \in HostPort \ {p} : owner'[q] = owner[q]
    BY HostKinds, <2>3, <2>1, <2>2
  <2>5. HostTyped'
    BY <1>1, <2>2, <2>4 DEF HostInv, HostTyped, HostTypeOK, DepKind, DepPcs
  <2>6. Nearby(s)
    BY <1>1, <2>1, <2>2, <2>4 DEF Nearby
  <2>7. ListensOwn'
    BY <1>1, <2>2, HostKinds, <2>1, HostMarks, <2>4 DEF ListensOwn
  <2>8. PortsOf(s)'
    BY <2>2, <2>4, <2>3, <1>2, <1>1, <2>1 DEF Mine, PortsOf, HasPort
  <2>9. PidOf(s)' /\ FilesOf(s)'
    BY <1>1, <1>2, <1>3, <2>2, <2>3, <2>4 DEF PidOf, FilesOf
  <2> QED BY <2>5, <2>6, <2>7, <2>8, <2>9, StepKeepsHost
<1>5. CASE ~Reusable(s, srow[s].port)
  <2> DEFINE a == hgh.adrift \cup ({srow[s].port, site[s]} \ {NoHostPort})
  <2>1. owner' = Dropped(s) /\ Step(s, "claim") /\ hgh' = [hgh EXCEPT !.adrift = a]
    BY <1>5 DEF EnsurePort
  <2>2. PICK d \in DepKind : /\ dep' = [dep EXCEPT ![s] = d] /\ d.pc = "claim" /\ d.synced = dep[s].synced
                             /\ d.fresh = dep[s].fresh
    BY <2>1, StepTurns DEF DepPcs
  <2>3. ~d.fresh
    BY <1>1, <1>2, <2>2 DEF PortsOf, HasPort
  <2>4. hgh'.adrift = a /\ hgh'.stray = hgh.stray /\ a \subseteq HostPort /\ hgh' = [adrift |-> a, stray |-> hgh.stray]
    BY <2>1, <1>2, HostKinds DEF MaybePort
  <2>5. /\ dep' \in [Static -> DepKind] /\ dep'[s] = d /\ \A t \in Static \ {s} : dep'[t] = dep[t]
    BY <2>2, HostKinds
  <2>6. /\ owner' \in [HostPort -> Static \cup {NoStatic}]
        /\ \A q \in HostPort : owner'[q] = IF owner[q] = s THEN NoStatic ELSE owner[q]
    BY <2>1, HostKinds DEF Dropped
  <2>7. HostTyped'
    BY <1>1, <2>4, <2>5, <2>6 DEF HostInv, HostTyped, HostTypeOK, DepKind, DepPcs
  <2>8. hgh.adrift \subseteq a
    OBVIOUS
  <2>9. Nearby(s)
    BY <1>1, <2>4, <2>5, <2>6, <2>8 DEF Nearby
  <2>10. ListensOwn'
    BY <1>1, <2>4, <2>6, <2>8, HostKinds DEF ListensOwn
  <2>11. Mine(s, srow[s].port)' /\ Mine(s, site[s])'
    BY <1>1, <1>2, <2>4, HostMarks DEF Mine
  <2>12. PortsOf(s)'
    BY <2>2, <2>3, <2>5, <2>11 DEF PortsOf, HasPort
  <2>13. PidOf(s)' /\ FilesOf(s)'
    BY <1>1, <1>2, <1>3, <2>2, <2>4, <2>5 DEF PidOf, FilesOf
  <2> QED BY <2>7, <2>9, <2>10, <2>12, <2>13, StepKeepsHost
<1> QED BY <1>4, <1>5

LEMMA ClaimKeeps ==
    ASSUME HostInv, NEW s \in Static, ClaimPort(s)
    PROVE  HostInv'
<1>1. /\ UNCHANGED <<listen, pidFile, site, public, gate, hgh>> /\ dep[s].pc = "claim"
  BY DEF ClaimPort, Hosting, serverVars
<1>2. CASE HostFails(s) /\ UNCHANGED owner
  BY <1>1, <1>2, FailKeeps DEF StaysPut
<1>3. ASSUME NEW p \in Claimable, owner' = [owner EXCEPT ![p] = s],
             dep' = [dep EXCEPT ![s].pc = "gate", ![s].port = p, ![s].fresh = TRUE], UNCHANGED <<srow, built>>
      PROVE  HostInv'
  <2> DEFINE d == [dep[s] EXCEPT !.pc = "gate", !.port = p, !.fresh = TRUE]
  <2>1. p \in HostPort /\ owner[p] = NoStatic /\ listen[p] = NoStatic
    BY DEF Claimable
  <2>2. /\ PortsOf(s) /\ PidOf(s) /\ FilesOf(s) /\ dep[s] \in DepKind
    BY HostKinds
  <2>3. public[s] = "whole" /\ dep[s].synced
    BY <1>1, <2>2 DEF FilesOf
  <2>4. dep' = [dep EXCEPT ![s] = d] /\ d \in DepKind /\ d.pc = "gate" /\ d.port = p /\ d.synced
    BY <1>3, <2>1, <2>2, <2>3, HostKinds DEF DepKind, DepPcs, MaybePort
  <2> HIDE DEF d
  <2>5. /\ dep' \in [Static -> DepKind] /\ dep'[s] = d /\ \A t \in Static \ {s} : dep'[t] = dep[t]
        /\ owner' \in [HostPort -> Static \cup {NoStatic}]
        /\ owner'[p] = s /\ \A q \in HostPort \ {p} : owner'[q] = owner[q]
    BY HostKinds, <2>4, <1>3, <2>1
  <2>6. HostTyped'
    BY <1>1, <1>3, <2>5 DEF HostInv, HostTyped, HostTypeOK, DepKind, DepPcs
  <2>7. Nearby(s)
    BY <1>1, <1>3, <2>1, <2>5 DEF Nearby
  <2>8. ListensOwn'
    BY <1>1, <2>1, HostKinds, HostMarks, <2>5 DEF ListensOwn
  <2>9. Mine(s, srow[s].port)' /\ Mine(s, site[s])'
    BY <1>1, <1>3, <2>2, <2>5 DEF PortsOf, Mine
  <2>10. p \notin hgh.adrift => srow[s].port # p /\ site[s] # p
    BY <2>1, <2>2, HostMarks DEF PortsOf, Mine
  <2>11. PortsOf(s)'
    BY <1>1, <1>3, <2>1, <2>4, <2>5, <2>9, <2>10 DEF PortsOf, HasPort
  <2>12. PidOf(s)' /\ FilesOf(s)'
    BY <1>1, <2>2, <2>3, <2>4, <2>5 DEF PidOf, FilesOf
  <2> QED BY <2>6, <2>7, <2>8, <2>11, <2>12, StepKeepsHost
<1> QED BY <1>2, <1>3 DEF ClaimPort

(* Killing the site's server: gone, or the site is one whose server stays.  *)
LEMMA KillLeaves ==
    ASSUME HostInv, NEW s \in Static, KillServer(s)
    PROVE  /\ listen' \in [HostPort -> Static \cup {NoStatic, Foreign}]
           /\ pidFile' \in [Static -> MaybePort \cup {DeadPid}]
           /\ hgh'.adrift = hgh.adrift /\ hgh.stray \subseteq hgh'.stray /\ hgh'.stray \subseteq Static
           /\ hgh' = [adrift |-> hgh'.adrift, stray |-> hgh'.stray]
           /\ \A t \in Static \ {s} : pidFile'[t] = pidFile[t]
           /\ \A p \in HostPort : listen'[p] = listen[p] \/ (listen[p] \in {s, NoStatic} /\ listen'[p] = NoStatic)
           /\ s \notin hgh'.stray =>
                pidFile'[s] = NoHostPort /\ \A p \in HostPort : listen'[p] # s
           /\ pidFile'[s] \in HostPort => listen'[pidFile'[s]] = s
BY HostKinds, HostMarks DEF HostAlive, PidOf, MaybePort, KillServer

LEMMA StopOldKeeps ==
    ASSUME HostInv, NEW s \in Static, StopOldServer(s)
    PROVE  HostInv'
<1> DEFINE b == HostAlive(s)
           d == [dep[s] EXCEPT !.pc = "spawn", !.prev = site[s], !.restore = b]
<1>1. /\ UNCHANGED <<owner, srow, built, public>> /\ dep[s].pc = "gate" /\ gate' = s /\ KillServer(s)
      /\ site' = [site EXCEPT ![s] = dep[s].port]
      /\ dep' = [dep EXCEPT ![s].pc = "spawn", ![s].prev = site[s], ![s].restore = b]
  BY DEF StopOldServer, Hosting
<1>2. /\ PortsOf(s) /\ FilesOf(s) /\ dep[s] \in DepKind /\ site[s] \in MaybePort /\ b \in BOOLEAN
      /\ site \in [Static -> MaybePort] /\ dep \in [Static -> DepKind] /\ ListensOwn
  BY HostKinds DEF HostAlive
<1> HIDE DEF b
<1>3. /\ d \in DepKind /\ d.pc = "spawn" /\ d.port = dep[s].port /\ d.fresh = dep[s].fresh /\ d.prev = site[s]
      /\ d.synced = dep[s].synced
  BY <1>2 DEF DepKind, DepPcs
<1>4. dep' = [dep EXCEPT ![s] = d]
  BY <1>1, <1>2 DEF DepKind
<1> HIDE DEF d
<1>5. /\ dep' \in [Static -> DepKind] /\ dep'[s] = d /\ \A t \in Static \ {s} : dep'[t] = dep[t]
  BY <1>2, <1>3, <1>4
<1>6. dep[s].port \in HostPort /\ owner[dep[s].port] = s
  BY <1>1, <1>2 DEF PortsOf, HasPort
<1>7. /\ site' \in [Static -> MaybePort] /\ site'[s] = dep[s].port /\ \A t \in Static \ {s} : site'[t] = site[t]
  BY <1>1, <1>2, <1>6 DEF MaybePort
<1>8. HostTyped'
  BY <1>1, <1>5, <1>7, KillLeaves DEF HostInv, HostTyped, HostTypeOK, DepKind, DepPcs
<1>9. Nearby(s)
  BY <1>1, <1>5, <1>7, KillLeaves DEF Nearby
<1>10. ListensOwn'
  BY <1>1, KillLeaves, HostMarks, <1>2 DEF ListensOwn
<1>11. hgh'.adrift = hgh.adrift /\ \A q : Mine(s, q) => Mine(s, q)'
  BY <1>1, KillLeaves DEF Mine
<1>12. PortsOf(s)'
  BY <1>2, <1>6, <1>1, <1>3, <1>5, <1>7, <1>11 DEF PortsOf, Mine, HasPort
<1>13. PidOf(s)'
  BY <1>1, KillLeaves DEF PidOf
<1>14. FilesOf(s)'
  BY <1>1, <1>2, <1>3, <1>5 DEF FilesOf, HasPort
<1> QED BY <1>8, <1>9, <1>10, <1>12, <1>13, <1>14, StepKeepsHost

(* A server that starts on a port.                                          *)
LEMMA BindLeaves ==
    ASSUME NEW s \in Static, NEW p \in HostPort, NEW l \in [HostPort -> Static \cup {NoStatic, Foreign}],
           pidFile \in [Static -> MaybePort \cup {DeadPid}]
    PROVE  /\ Bound(s, p, l) \in [HostPort -> Static \cup {NoStatic, Foreign}]
           /\ Noted(s, p, l) \in [Static -> MaybePort \cup {DeadPid}]
           /\ \A t \in Static \ {s} : Noted(s, p, l)[t] = pidFile[t]
           /\ \A q \in HostPort : Bound(s, p, l)[q] = l[q] \/ (q = p /\ l[q] = NoStatic /\ Bound(s, p, l)[q] = s)
           /\ Noted(s, p, l)[s] \in HostPort => Bound(s, p, l)[Noted(s, p, l)[s]] = s
           /\ (\A q \in HostPort : l[q] # s) =>
                \A q \in HostPort : Bound(s, p, l)[q] = s => Noted(s, p, l)[s] = q
BY HostMarks DEF Bound, Noted, MaybePort

LEMMA SiteSpawnKeeps ==
    ASSUME HostInv, NEW s \in Static, SpawnServer(s)
    PROVE  HostInv'
<1> DEFINE p == dep[s].port
<1>1. /\ UNCHANGED <<owner, hgh, site, srow, built, public, gate>> /\ dep[s].pc = "spawn"
      /\ listen' = Bound(s, p, listen) /\ pidFile' = Noted(s, p, listen)
  BY DEF SpawnServer, Hosting, portVars
<1>2. /\ PortsOf(s) /\ FilesOf(s) /\ PidOf(s) /\ dep[s] \in DepKind /\ dep \in [Static -> DepKind] /\ ListensOwn
      /\ listen \in [HostPort -> Static \cup {NoStatic, Foreign}] /\ pidFile \in [Static -> MaybePort \cup {DeadPid}]
  BY HostKinds
<1>3. PICK d \in DepKind : /\ dep' = [dep EXCEPT ![s] = d] /\ d.pc = "wait" /\ d.synced = dep[s].synced
                           /\ d.port = dep[s].port /\ d.fresh = dep[s].fresh /\ d.prev = dep[s].prev
  BY StepTurns DEF SpawnServer, DepPcs
<1>4. p \in HostPort /\ owner[p] = s
  BY <1>1, <1>2 DEF PortsOf, HasPort
<1> HIDE DEF p
<1>5. /\ dep' \in [Static -> DepKind] /\ dep'[s] = d /\ \A t \in Static \ {s} : dep'[t] = dep[t]
  BY <1>2, <1>3
<1>6. /\ listen' \in [HostPort -> Static \cup {NoStatic, Foreign}] /\ pidFile' \in [Static -> MaybePort \cup {DeadPid}]
      /\ \A t \in Static \ {s} : pidFile'[t] = pidFile[t]
      /\ \A q \in HostPort : listen'[q] = listen[q] \/ (q = p /\ listen[q] = NoStatic /\ listen'[q] = s)
      /\ pidFile'[s] \in HostPort => listen'[pidFile'[s]] = s
      /\ (\A q \in HostPort : listen[q] # s) => \A q \in HostPort : listen'[q] = s => pidFile'[s] = q
  BY <1>1, <1>2, <1>4, BindLeaves
<1>7. HostTyped'
  BY <1>1, <1>5, <1>6 DEF HostInv, HostTyped, HostTypeOK, DepKind, DepPcs
<1>8. Nearby(s)
  BY <1>1, <1>5, <1>6 DEF Nearby
<1>9. ListensOwn'
  BY <1>1, <1>2, <1>4, <1>6 DEF ListensOwn
<1>10. PortsOf(s)'
  BY <1>1, <1>2, <1>3, <1>5 DEF PortsOf, Mine, HasPort
<1>11. PidOf(s)'
  BY <1>1, <1>2, HostMarks, <1>3, <1>5, <1>6 DEF PidOf
<1>12. FilesOf(s)'
  BY <1>1, <1>2, <1>3, <1>5 DEF FilesOf, HasPort
<1> QED BY <1>7, <1>8, <1>9, <1>10, <1>11, <1>12, StepKeepsHost

LEMMA NewGoneLeaves ==
    ASSUME HostInv, NEW s \in Static
    PROVE  /\ NewGone(s) \in [HostPort -> Static \cup {NoStatic, Foreign}]
           /\ \A p \in HostPort : NewGone(s)[p] = listen[p] \/ (listen[p] = s /\ NewGone(s)[p] = NoStatic)
           /\ s \notin hgh.stray => \A p \in HostPort : NewGone(s)[p] # s
BY HostKinds, HostMarks DEF HostAlive, PidOf, NewGone

(* The new server goes, configuration and server of before come back.       *)
LEMMA UnhealthyKeeps ==
    ASSUME HostInv, NEW s \in Static, Unhealthy(s)
    PROVE  HostInv'
<1> DEFINE l == NewGone(s)
           v == dep[s].prev
<1>1. /\ UNCHANGED <<owner, hgh, srow, built, public>> /\ dep[s].pc = "wait" /\ gate' = NoStatic
      /\ site' = [site EXCEPT ![s] = v]
      /\ \/ v # NoHostPort /\ listen' = Bound(s, v, l) /\ pidFile' = Noted(s, v, l)
         \/ listen' = l /\ pidFile' = [pidFile EXCEPT ![s] = NoHostPort]
  BY DEF Unhealthy, Hosting, portVars
<1>2. /\ PortsOf(s) /\ FilesOf(s) /\ dep[s] \in DepKind /\ dep \in [Static -> DepKind] /\ ListensOwn
      /\ pidFile \in [Static -> MaybePort \cup {DeadPid}] /\ site \in [Static -> MaybePort]
      /\ listen \in [HostPort -> Static \cup {NoStatic, Foreign}]
  BY HostKinds
<1>3. PICK d \in DepKind : /\ dep' = [dep EXCEPT ![s] = d] /\ d.pc = "giveback" /\ d.synced = dep[s].synced
                           /\ d.port = dep[s].port /\ d.fresh = dep[s].fresh /\ d.prev = dep[s].prev
  BY StepTurns DEF Unhealthy, DepPcs
<1>4. v \in MaybePort /\ Mine(s, v)
  BY <1>1, <1>2 DEF DepKind, PortsOf
<1>5. /\ l \in [HostPort -> Static \cup {NoStatic, Foreign}]
      /\ \A p \in HostPort : l[p] = listen[p] \/ (listen[p] = s /\ l[p] = NoStatic)
      /\ s \notin hgh.stray => \A p \in HostPort : l[p] # s
  BY NewGoneLeaves
<1> HIDE DEF l, v
<1>6. /\ listen' \in [HostPort -> Static \cup {NoStatic, Foreign}] /\ pidFile' \in [Static -> MaybePort \cup {DeadPid}]
      /\ \A t \in Static \ {s} : pidFile'[t] = pidFile[t]
      /\ \A q \in HostPort : listen'[q] = l[q] \/ (q = v /\ l[q] = NoStatic /\ listen'[q] = s)
      /\ pidFile'[s] \in HostPort => listen'[pidFile'[s]] = s
      /\ s \notin hgh.stray => \A q \in HostPort : listen'[q] = s => pidFile'[s] = q
  <2>1. CASE v # NoHostPort /\ listen' = Bound(s, v, l) /\ pidFile' = Noted(s, v, l)
    BY <2>1, <1>4, <1>2, <1>5, BindLeaves DEF MaybePort
  <2>2. CASE listen' = l /\ pidFile' = [pidFile EXCEPT ![s] = NoHostPort]
    BY <2>2, <1>2, <1>5, HostMarks DEF MaybePort
  <2> QED BY <1>1, <2>1, <2>2
<1>7. /\ dep' \in [Static -> DepKind] /\ dep'[s] = d /\ \A t \in Static \ {s} : dep'[t] = dep[t]
  BY <1>2, <1>3
<1>8. /\ site' \in [Static -> MaybePort] /\ site'[s] = v /\ \A t \in Static \ {s} : site'[t] = site[t]
  BY <1>1, <1>2, <1>4
<1>9. HostTyped'
  BY <1>1, <1>6, <1>7, <1>8 DEF HostInv, HostTyped, HostTypeOK, DepKind, DepPcs
<1>10. \A q \in HostPort : listen'[q] = listen[q] \/ (listen[q] \in {s, NoStatic} /\ listen'[q] \in {s, NoStatic})
  BY <1>5, <1>6
<1>11. Nearby(s)
  BY <1>1, <1>6, <1>7, <1>8, <1>10 DEF Nearby
<1>12. ListensOwn'
  BY <1>1, <1>2, <1>5, <1>6, HostMarks, <1>4 DEF ListensOwn, Mine
<1>13. PortsOf(s)'
  BY <1>1, <1>2, <1>4, <1>8, <1>3, <1>7 DEF PortsOf, Mine, HasPort, v
<1>14. PidOf(s)'
  BY <1>1, <1>3, <1>6, <1>7 DEF PidOf
<1>15. FilesOf(s)'
  BY <1>1, <1>2, <1>3, <1>7 DEF FilesOf, HasPort
<1> QED BY <1>9, <1>11, <1>12, <1>13, <1>14, <1>15, StepKeepsHost

LEMMA GiveBackKeeps ==
    ASSUME HostInv, NEW s \in Static, GiveBack(s)
    PROVE  HostInv'
<1> DEFINE p == dep[s].port
<1>1. /\ UNCHANGED <<listen, pidFile, site, public, gate, hgh>> /\ dep[s].pc = "giveback" /\ HostFails(s)
      /\ owner' = IF dep[s].fresh THEN [owner EXCEPT ![p] = NoStatic] ELSE owner
  BY DEF GiveBack, Hosting, serverVars, GivenBack
<1>2. PICK r \in RowOf : srow' = [srow EXCEPT ![s] = r] /\ r.port = srow[s].port
  BY <1>1, FailLeaves
<1>3. /\ dep' = [dep EXCEPT ![s] = Quiescent]
      /\ built' \in [Static -> {"none", "running", "success", "failed", "cancelled"}]
  BY <1>1, FailLeaves
<1>4. /\ PortsOf(s) /\ PidOf(s) /\ dep \in [Static -> DepKind] /\ srow \in [Static -> RowOf] /\ ListensOwn
      /\ owner \in [HostPort -> Static \cup {NoStatic}]
  BY HostKinds
<1>5. /\ p \in HostPort /\ owner[p] = s
      /\ dep[s].fresh /\ p \notin hgh.adrift => srow[s].port # p /\ site[s] # p
  BY <1>1, <1>4 DEF PortsOf, HasPort
<1> HIDE DEF p
<1>6. /\ owner' \in [HostPort -> Static \cup {NoStatic}]
      /\ \A q \in HostPort : owner'[q] = owner[q] \/ (q = p /\ dep[s].fresh /\ owner'[q] = NoStatic)
  BY <1>1, <1>4, <1>5
<1>7. /\ dep' \in [Static -> DepKind] /\ dep'[s] = Quiescent /\ srow' \in [Static -> RowOf] /\ srow'[s] = r
      /\ \A t \in Static \ {s} : dep'[t] = dep[t] /\ srow'[t] = srow[t]
  BY <1>2, <1>3, <1>4, QuiescentKind
<1>8. HostTyped'
  BY <1>1, <1>3, <1>6, <1>7 DEF HostInv, HostTyped, HostTypeOK, DepKind, DepPcs, RowOf
<1>9. Nearby(s)
  BY <1>1, <1>5, <1>6, <1>7 DEF Nearby
<1>10. ListensOwn'
  BY <1>1, <1>4, <1>6 DEF ListensOwn
<1>11. Mine(s, srow[s].port)' /\ Mine(s, site[s])'
  BY <1>1, <1>2, <1>4, <1>5, <1>6, <1>7 DEF PortsOf, Mine
<1>12. PortsOf(s)' /\ PidOf(s)' /\ FilesOf(s)'
  BY <1>1, <1>4, <1>7, <1>11, QuiescentKind DEF PortsOf, PidOf, FilesOf, HasPort
<1> QED BY <1>8, <1>9, <1>10, <1>12, StepKeepsHost

LEMMA StopStaticKeeps ==
    ASSUME HostInv, NEW s \in Static, StopStatic(s)
    PROVE  HostInv'
<1>1. /\ UNCHANGED <<owner, built, public, gate, dep>> /\ dep[s].pc = "idle" /\ KillServer(s)
      /\ site' = [site EXCEPT ![s] = NoHostPort]
      /\ srow' = [srow EXCEPT ![s].status = "stopped", ![s].on = FALSE]
  BY DEF StopStatic, Free, Hosting
<1>2. /\ PortsOf(s) /\ FilesOf(s) /\ ListensOwn /\ site \in [Static -> MaybePort] /\ srow \in [Static -> RowOf]
  BY HostKinds
<1>3. /\ srow' \in [Static -> RowOf] /\ srow'[s].port = srow[s].port
      /\ \A t \in Static \ {s} : srow'[t] = srow[t]
  BY <1>1, <1>2 DEF RowOf
<1>4. /\ site' \in [Static -> MaybePort] /\ site'[s] = NoHostPort /\ \A t \in Static \ {s} : site'[t] = site[t]
  BY <1>1, <1>2 DEF MaybePort
<1>5. HostTyped'
  BY <1>1, <1>3, <1>4, KillLeaves DEF HostInv, HostTyped, HostTypeOK, RowOf
<1>6. Nearby(s)
  BY <1>1, <1>3, <1>4, KillLeaves DEF Nearby
<1>7. ListensOwn'
  BY <1>1, KillLeaves, HostMarks, <1>2 DEF ListensOwn
<1>8. PortsOf(s)'
  BY <1>1, <1>2, <1>3, <1>4, KillLeaves, HostMarks DEF PortsOf, Mine, HasPort
<1>9. PidOf(s)'
  BY <1>1, KillLeaves DEF PidOf
<1>10. FilesOf(s)'
  BY <1>1, <1>2 DEF FilesOf
<1> QED BY <1>5, <1>6, <1>7, <1>8, <1>9, <1>10, StepKeepsHost

(* Steps of the machine: no site's deployment, row or files change. *)
LEMMA OutsideKeeps ==
    ASSUME HostInv, UNCHANGED <<owner, hgh, site, srow, built, public, gate, dep>>,
           listen' \in [HostPort -> Static \cup {NoStatic, Foreign}],
           pidFile' \in [Static -> MaybePort \cup {DeadPid}], ListensOwn', \A s \in Static : PidOf(s)'
    PROVE  HostInv'
BY DEF HostInv, HostTyped, HostTypeOK, PortsOf, Mine, FilesOf

(* A port that comes into other hands than a site's, or into nobody's, and  *)
(* the pid files that named the server there.                               *)
LEMMA TakenKeeps ==
    ASSUME HostInv, NEW p \in HostPort, NEW x \in {NoStatic, Foreign},
           UNCHANGED <<owner, hgh, site, srow, built, public, gate, dep>>,
           listen' = [listen EXCEPT ![p] = x],
           pidFile' = [s \in Static |-> IF pidFile[s] = p THEN DeadPid ELSE pidFile[s]]
    PROVE  HostInv'
BY HostMarks, OutsideKeeps DEF HostInv, HostTyped, HostTypeOK, ListensOwn, PidOf

LEMMA ServerDiesKeeps ==
    ASSUME HostInv, NEW p \in HostPort, ServerDies(p)
    PROVE  HostInv'
BY TakenKeeps DEF ServerDies, portVars

LEMMA ForeignKeeps ==
    ASSUME HostInv, NEW p \in HostPort, ForeignTakes(p) \/ ForeignLeaves(p)
    PROVE  HostInv'
BY HostMarks, TakenKeeps DEF ForeignTakes, ForeignLeaves, portVars, HostInv, PidOf, HostTyped,
       HostTypeOK

LEMMA HostStarts == HostInit => HostInv
<1> SUFFICES ASSUME HostInit PROVE HostInv
  OBVIOUS
<1>1. \A s \in Static : /\ dep[s] = Quiescent /\ pidFile[s] = NoHostPort /\ site[s] = NoHostPort
                        /\ srow[s].port = NoHostPort
  BY DEF HostInit
<1>2. \A p \in HostPort : listen[p] = NoStatic
  BY DEF HostInit
<1>3. dep \in [Static -> DepKind]
  BY QuiescentKind DEF HostInit
<1>4. srow \in [Static -> RowOf]
  BY DEF HostInit, RowOf, MaybePort
<1>5. HostTypeOK
  BY <1>3, <1>4 DEF HostInit, HostTypeOK, DepKind, DepPcs, RowOf, MaybePort
<1>6. HostTyped
  BY <1>3, <1>4, <1>5 DEF HostInit, HostTyped
<1>7. ListensOwn
  BY <1>2, HostMarks DEF ListensOwn
<1>8. ASSUME NEW s \in Static PROVE PortsOf(s) /\ PidOf(s) /\ FilesOf(s)
  BY <1>1, <1>2, QuiescentKind, HostMarks DEF PortsOf, PidOf, FilesOf, Mine, HasPort
<1> QED BY <1>6, <1>7, <1>8 DEF HostInv

LEMMA HostKeeps == HostInv /\ [HostNext]_hostVars => HostInv'
<1> SUFFICES ASSUME HostInv, [HostNext]_hostVars PROVE HostInv'
  OBVIOUS
<1>1. CASE UNCHANGED hostVars
  BY <1>1 DEF hostVars, HostInv, HostTyped, HostTypeOK, ListensOwn, PortsOf, PidOf, FilesOf, Mine
<1>2. ASSUME NEW s \in Static, HostStep(s) PROVE HostInv'
  BY <1>2, BeginHostKeeps, BuildEndsKeeps, EmptyKeeps, FillKeeps, EnsureKeeps, ClaimKeeps,
     StopOldKeeps, SiteSpawnKeeps,
     HealthyKeeps, UnhealthyKeeps, GiveBackKeeps, HostedKeeps, StopStaticKeeps, ObserveKeeps, StaleKeeps, HostDiesKeeps
  DEF HostStep
<1>3. ASSUME NEW p \in HostPort, ServerDies(p) \/ ForeignTakes(p) \/ ForeignLeaves(p)
    PROVE HostInv'
  BY <1>3, ServerDiesKeeps, ForeignKeeps
<1> QED BY <1>1, <1>2, <1>3 DEF HostNext

(* A site that is on has a port in its row. *)
OnHasPort == \A s \in Static : srow[s].on => srow[s].port \in HostPort

LEMMA RowKeeps ==
    ASSUME HostInv, NEW s \in Static,
           srow' = srow \/ \E x \in {"stopped", "building", "running", "failed"} : srow' = [srow EXCEPT ![s].status = x]
    PROVE  \A t \in Static : srow'[t].on = srow[t].on /\ srow'[t].port = srow[t].port
<1>1. srow \in [Static -> RowOf]
  BY HostKinds
<1> QED BY <1>1 DEF RowOf

LEMMA StatusOnly ==
    ASSUME HostInv, NEW s \in Static, HostStep(s), ~Hosted(s), ~StopStatic(s)
   
        PROVE  srow' = srow \/ \E x \in {"stopped", "building", "running", "failed"} : srow' = [srow EXCEPT ![s].status = x]
<1>1. HostFails(s)
    => \E x \in {"stopped", "building", "running", "failed"} : srow' = [srow EXCEPT ![s].status = x]
  BY DEF HostFails
<1>2. Observed(s) \in {"stopped", "running"}
  BY DEF Observed
<1> QED BY <1>1, <1>2
  DEF HostStep, BeginHost, BuildEnds, EmptyPublic, FillPublic, EnsurePort, ClaimPort, StopOldServer, SpawnServer,
      Healthy, Unhealthy, GiveBack, ObserveStatic, RecoverStale, HostDies

LEMMA OnKeeps == HostInv /\ OnHasPort /\ [HostNext]_hostVars => OnHasPort'
<1> SUFFICES ASSUME HostInv, OnHasPort, [HostNext]_hostVars PROVE OnHasPort'
  OBVIOUS
<1>1. CASE srow' = srow
  BY <1>1 DEF OnHasPort
<1>2. ASSUME NEW s \in Static, HostStep(s), ~Hosted(s), ~StopStatic(s) PROVE OnHasPort'
  BY <1>2, StatusOnly, RowKeeps DEF OnHasPort
<1>3. ASSUME NEW s \in Static, Hosted(s) PROVE OnHasPort'
  BY <1>3, HostKinds DEF Hosted, Hosting, PortsOf, HasPort, OnHasPort
<1>4. ASSUME NEW s \in Static, StopStatic(s) PROVE OnHasPort'
  BY <1>4, HostKinds DEF StopStatic, RowOf, OnHasPort
<1>5. ASSUME NEW p \in HostPort, ServerDies(p) \/ ForeignTakes(p) \/ ForeignLeaves(p)
    PROVE OnHasPort'
  BY <1>1, <1>5 DEF ServerDies, ForeignTakes, ForeignLeaves
<1> QED BY <1>1, <1>2, <1>3, <1>4, <1>5 DEF HostNext, hostVars

(* How a deployment can end with a site that is called running. *)
LEMMA EndsWhole ==
    ASSUME HostInv, NEW s \in Static, HostStep(s), NEW t \in Static, dep[t].pc # "idle", dep'[t].pc = "idle",
           srow'[t].status = "running", srow[t].status # "running"
    PROVE  public'[t] = "whole" \/ public'[t] = dep[t].was
<1>1. dep \in [Static -> DepKind] /\ srow \in [Static -> RowOf] /\ FilesOf(t)
  BY HostKinds
<1>2. CASE HostFails(s)
  <2>1. PICK r \in RowOf : srow' = [srow EXCEPT ![s] = r] /\ (r.status = "running" => ~dep[s].synced)
    BY <1>2, FailLeaves
  <2>2. t = s /\ ~dep[s].synced
    BY <1>1, <2>1
  <2>3. dep[s].pc \in {"build", "sync"} /\ public[s] = dep[s].was
    BY <1>1, <2>2 DEF FilesOf
  <2>4. public' = public
    BY <1>2, <2>3 DEF HostStep, BuildEnds, EmptyPublic, BeginHost, FillPublic, EnsurePort,
       ClaimPort, StopOldServer,
        SpawnServer, Healthy, Unhealthy, GiveBack, Hosted, StopStatic, ObserveStatic, RecoverStale, HostDies,
        Free, Hosting, HostFails
  <2> QED BY <2>2, <2>3, <2>4
<1>3. CASE Hosted(s)
  BY <1>3, <1>1 DEF Hosted, Hosting, FilesOf, HasPort
<1>4. CASE ~HostFails(s) /\ ~Hosted(s)
  <2>1. srow' = srow \/ ObserveStatic(s) \/ \E x \in {"stopped", "building", "failed"} :
            srow' = [srow EXCEPT ![s].status = x] \/ srow' = [srow EXCEPT ![s].status = x, ![s].on = FALSE]
    BY <1>4 DEF HostStep, BeginHost, BuildEnds, EmptyPublic, FillPublic, EnsurePort, ClaimPort,
       StopOldServer,
        SpawnServer, Healthy, Unhealthy, GiveBack, StopStatic, RecoverStale, HostDies
  <2>2. ObserveStatic(s)
    BY <1>1, <2>1 DEF RowOf
  <2> QED BY <1>1, <2>2 DEF ObserveStatic
<1> QED BY <1>2, <1>3, <1>4

LEMMA WholeStep ==
    ASSUME HostInv, [HostNext]_hostVars
    PROVE  [\A s \in Static :
               dep[s].pc # "idle" /\ dep'[s].pc = "idle" /\ srow'[s].status = "running" /\ srow[s].status # "running"
                   => public'[s] = "whole" \/ public'[s] = dep[s].was]_hostVars
BY EndsWhole DEF ServerDies, ForeignTakes, ForeignLeaves, HostNext

LEMMA HostInvPromises ==
    ASSUME HostInv, OnHasPort
    PROVE  HostTypeOK /\ OwnContentKept /\ Traceable
BY HostMarks DEF HostInv, HostTyped, OnHasPort, PortsOf, Mine, ListensOwn, OwnContentKept,
       Traceable, PidOf

(* The invariant of the static sites: the port in a site's row, in its      *)
(* configuration and in its deployment is registered for it unless it was   *)
(* given up (_ensure_static_port), and a site's server listens only where   *)
(* no other site is registered; the pid file names the only server that     *)
(* runs (_stop_builtin, _start_builtin); public/ is what it was until it is *)
(* emptied and whole once it was filled.                                    *)
THEOREM HostInvariant == HostSpec => [](HostInv /\ OnHasPort)
<1>1. HostInit => HostInv /\ OnHasPort
  BY HostStarts DEF HostInit, OnHasPort
<1>2. HostInv /\ OnHasPort /\ [HostNext]_hostVars => (HostInv /\ OnHasPort)'
  BY HostKeeps, OnKeeps
<1> QED BY <1>1, <1>2, PTL DEF HostSpec

(* Every site that is called running answers at its own address, except at  *)
(* a port it had given up (hosting.py:143-147), its server can be found     *)
(* again, and a deployment that ends by calling it running has filled       *)
(* public/ or not touched it: for any sites, ports, failures and deaths.    *)
THEOREM HostStaysSafe == HostSpec => HostIsSafe
<1>1. HostInv /\ OnHasPort => HostTypeOK /\ OwnContentKept /\ Traceable
  BY HostInvPromises
<1>2. HostInv /\ [HostNext]_hostVars =>
        [\A s \in Static :
            dep[s].pc # "idle" /\ dep'[s].pc = "idle" /\ srow'[s].status = "running" /\ srow[s].status # "running"
                => public'[s] = "whole" \/ public'[s] = dep[s].was]_hostVars
  BY WholeStep
<1> QED BY <1>1, <1>2, HostInvariant, PTL DEF HostSpec, HostIsSafe, RunningIsWhole

(***************************************************************************)
(* Changing the backend.                                                   *)
(***************************************************************************)

SwitchPcs ==
    {"idle", "lock", "snap", "stop", "yaml", "enable", "boot", "booting", "alias", "sync", "access",
              "undo", "reboot", "rebooting", "lost", "restop", "reenable", "review"}
SnapKind ==
    [backend : Backend, enabled : BOOLEAN, frag : SUBSET Fragment, man : [Site -> Backend],
             row : [Site -> Backend], old : SUBSET Site]
SwitchKind == [pc : SwitchPcs, from : Backend, to : Backend, snap : SnapKind, todo : SUBSET Site,
               answer : {"none", "refused", "ok", "back", "degraded"}]
BootPcs  == {"none", "stop", "intent", "start", "reload", "tls", "ok", "failed"}
BootKind == [by : Switcher \cup {"on", NoOne}, pc : BootPcs, stopped : SUBSET Site]
GhostKind == [overlap : BOOLEAN, stuck : BOOLEAN, torn : BOOLEAN, stale : BOOLEAN,
              old : SUBSET Site]
OpKind   == [pc : {"idle", "taken", "save"}, does : {"start", "stop"}, b : Backend, m : Backend]

(* Holds the switch lock; has its snapshot, too. *)
Holds(w) == sw[w].pc \notin {"idle", "lock"}
Deep(w)  == sw[w].pc \notin {"idle", "lock", "snap"}

SwitchTyped ==
    /\ GatewayTypeOK /\ sw \in [Switcher -> SwitchKind] /\ boot \in BootKind /\ ggh \in GhostKind
    /\ op \in [Site -> OpKind]

(* One switch at a time; the start lock is held by who says so. *)
SwitchControl ==
    /\ SwitchTyped
    /\ \A v, w \in Switcher : Holds(v) /\ Holds(w) => v = w
    /\ boot.by = NoOne => boot = NoBoot
    /\ \A w \in Switcher : sw[w].pc \in {"booting", "rebooting"} <=> boot.by = w
    /\ \A w \in Switcher : sw[w].pc # "idle" => sw[w].from # sw[w].to /\ sw[w].answer = "none"

(* One backend is named, but where a process with an old configuration was. *)
Agreed(b, m, r, old) == \A i \in Site \ old : m[i] = b /\ r[i] = b

NamesOf(w) ==
    /\ sw[w].pc \in {"snap", "stop", "yaml", "access", "reboot", "rebooting", "lost", "restop", "reenable", "review"} =>
         Agreed(backend, man, row, ggh.old)
    /\ sw[w].pc \in {"enable", "boot", "booting", "alias", "sync", "access"} => backend = sw[w].to
    /\ sw[w].pc = "sync" => \A i \in Site \ (sw[w].todo \cup ggh.old) : man[i] = backend /\ row[i] = backend
    /\ Deep(w) => Agreed(sw[w].snap.backend, sw[w].snap.man, sw[w].snap.row, sw[w].snap.old)

SwitchNames ==
    ~ggh.torn => /\ ~Locked => Agreed(backend, man, row, ggh.old)
                 /\ \A w \in Switcher : NamesOf(w)

(* Nothing crossed the switches. *)
Clean == ~ggh.overlap /\ ~ggh.stuck /\ ~ggh.torn /\ ~ggh.stale

CaddyServes ==
    /\ caddy.up /\ Of("site", running) \subseteq caddy.loaded /\ running \cap builtin = {} /\ enabled

BootHolds ==
    /\ boot.pc \in {"stop", "intent", "start"} => ~caddy.up
    /\ boot.pc \in {"intent", "start"} => main = frag
    /\ boot.pc = "start" => enabled
    /\ boot.pc \in {"reload", "tls", "ok"} => CaddyServes

(* How far a switch has come, if nothing crossed it. *)
PlanOf(w) ==
    /\ boot.by \in {NoOne, w} /\ sw[w].pc # "lost"
    /\ sw[w].snap.backend = sw[w].from /\ Of("site", running) \subseteq sw[w].snap.frag
    /\ sw[w].pc \in {"stop", "enable"} => sw[w].to = "builtin"
    /\ sw[w].pc \in {"boot", "booting", "alias"} => sw[w].to = "caddy"
    /\ sw[w].pc \in {"stop", "yaml"} => backend = sw[w].from
    /\ sw[w].pc \in {"reboot", "rebooting"} => sw[w].from = "caddy" /\ backend = "caddy"
    /\ sw[w].pc \in {"restop", "reenable"} => sw[w].from = "builtin" /\ backend = "builtin"

ServeOf(w) ==
    /\ sw[w].pc \in {"yaml", "enable", "boot", "reboot", "reenable"} => ~caddy.up
    /\ sw[w].pc = "undo" /\ sw[w].from = "caddy" => ~caddy.up
    /\ sw[w].pc \in {"yaml", "enable", "sync", "access"} /\ sw[w].to = "builtin" => ~caddy.up /\ ~enabled
    /\ sw[w].pc \in {"enable", "reenable"} => running \ sw[w].todo \subseteq builtin
    /\ sw[w].pc \in {"sync", "access"} /\ sw[w].to = "builtin" => running \subseteq builtin
    /\ sw[w].pc \in {"booting", "rebooting"} => BootHolds
    /\ sw[w].pc = "alias" => CaddyServes
    /\ sw[w].pc \in {"sync", "access"} /\ sw[w].to = "caddy" =>
         CaddyServes /\ Of("alias", Aliased) \subseteq caddy.loaded
    /\ sw[w].pc = "review" =>
         \/ backend = "caddy" /\ caddy.up /\ running \cap builtin = {}
         \/ backend = "builtin" /\ ~caddy.up /\ running \subseteq builtin

(* What a start that has enabled its site, and a stop that has disabled it, *)
(* is about to say of it.                                                   *)
Saves(i, does) == op[i].pc = "save" /\ op[i].does = does
FragsOf(i) ==
    /\ i \in running => <<"site", i>> \in frag \/ Saves(i, "stop")
    /\ Saves(i, "start") => <<"site", i>> \in frag
FragsHold == \A i \in Site : FragsOf(i)

SwitchServing ==
    Clean =>
      /\ FragsHold
      /\ (\E w \in Switcher : Deep(w)) => ~Busy
      /\ boot.by = "on" => backend = "caddy" /\ \A w \in Switcher : ~Deep(w)
      /\ (\A w \in Switcher : ~Deep(w)) /\ backend = "builtin" => ~caddy.up
      /\ \A w \in Switcher : Deep(w) => PlanOf(w) /\ ServeOf(w)

SwitchInv == SwitchControl /\ SwitchNames /\ SwitchServing

LEMMA GatewayMarks ==
    NoOne \notin Switcher /\ NoOne # "on" /\ "on" \notin Switcher /\ Aliased \subseteq Site
BY GatewayAssumption DEF GatewayAssumption

LEMMA OfHas == \A k, S, i : <<k, i>> \in Of(k, S) <=> i \in S
BY DEF Of

LEMMA OfGrows ==
    /\ \A k, S, i : Of(k, S \cup {i}) = Of(k, S) \cup Of(k, {i})
    /\ \A S, i : Of("site", S \ {i}) = Of("site", S) \ ({"site", "alias"} \X {i})
BY DEF Of

LEMMA OfTyped ==
    \A S : S \subseteq Site => Of("site", S) \subseteq Fragment /\ Of("alias", S) \subseteq Fragment
BY DEF Of, Fragment

LEMMA SwitchKinds ==
    ASSUME SwitchControl
    PROVE  /\ sw \in [Switcher -> SwitchKind] /\ boot \in BootKind /\ ggh \in GhostKind
           /\ backend \in Backend /\ enabled \in BOOLEAN /\ caddy \in [up : BOOLEAN, loaded : SUBSET Fragment]
           /\ frag \subseteq Fragment /\ main \subseteq Fragment /\ builtin \subseteq Site /\ running \subseteq Site
           /\ man \in [Site -> Backend] /\ row \in [Site -> Backend] /\ config \in [Resident -> Backend]
           /\ op \in [Site -> OpKind]
BY DEF SwitchControl, SwitchTyped, GatewayTypeOK

LEMMA SwitchOfKind == ASSUME SwitchControl, NEW w \in Switcher
    PROVE  /\ sw[w].pc \in SwitchPcs /\ sw[w].from \in Backend /\ sw[w].to \in Backend /\ sw[w].snap \in SnapKind
           /\ sw[w].todo \subseteq Site
BY SwitchKinds DEF SwitchKind

(* What a step of a switch does to the switch itself. *)
Turned(w, pc, todo) ==
    /\ sw' \in [Switcher -> SwitchKind] /\ \A v \in Switcher \ {w} : sw'[v] = sw[v]
    /\ sw'[w].pc = pc /\ sw'[w].todo = todo
    /\ sw'[w].from = sw[w].from /\ sw'[w].to = sw[w].to /\ sw'[w].snap = sw[w].snap
    /\ sw'[w].answer = sw[w].answer

Ended(w) ==
    /\ sw' \in [Switcher -> SwitchKind] /\ \A v \in Switcher \ {w} : sw'[v] = sw[v]
    /\ sw'[w].pc = "idle"

LEMMA GoesTurns ==
    ASSUME SwitchControl, NEW w \in Switcher, NEW pc \in SwitchPcs, Goes(w, pc)
    PROVE  Turned(w, pc, sw[w].todo)
BY SwitchKinds DEF Goes, SwitchKind, Turned

LEMMA StartsTurns ==
    ASSUME SwitchControl, NEW w \in Switcher, NEW pc \in SwitchPcs, NEW todo \in SUBSET Site, Starts(w, pc, todo)
    PROVE  Turned(w, pc, todo)
<1> DEFINE d == [sw[w] EXCEPT !.pc = pc, !.todo = todo]
<1>1. sw' = [sw EXCEPT ![w] = d] /\ sw \in [Switcher -> SwitchKind] /\ sw[w] \in SwitchKind
  BY SwitchKinds DEF Starts
<1>2. /\ d \in SwitchKind /\ d.pc = pc /\ d.todo = todo /\ d.from = sw[w].from /\ d.to = sw[w].to
      /\ d.snap = sw[w].snap /\ d.answer = sw[w].answer
  BY <1>1 DEF SwitchKind
<1> HIDE DEF d
<1> QED BY <1>1, <1>2 DEF Turned

LEMMA NoSwitchKind ==
    /\ NoSwitch \in SwitchKind /\ NoSwitch.pc = "idle"
    /\ \A a \in {"none", "refused", "ok", "back", "degraded"} :
         [NoSwitch EXCEPT !.answer = a] \in SwitchKind /\ [NoSwitch EXCEPT !.answer = a].pc = "idle"
BY DEF NoSwitch, NoSnap, SwitchKind, SnapKind, SwitchPcs, Backend

LEMMA AnswersEnd ==
    ASSUME SwitchControl, NEW w \in Switcher, NEW a \in {"none", "refused", "ok", "back", "degraded"}, Answers(w, a)
    PROVE  Ended(w)
BY SwitchKinds, NoSwitchKind DEF Answers, Ended

LEMMA FailsTurns ==
    ASSUME SwitchControl, NEW w \in Switcher, Fails(w)
    PROVE  Turned(w, "undo", sw[w].todo)
BY GoesTurns DEF Fails, SwitchPcs

(* What the state must be after a step of the switch that holds the lock. *)
WorldTyped ==
    /\ backend \in Backend /\ enabled \in BOOLEAN
    /\ caddy \in [up : BOOLEAN, loaded : SUBSET Fragment]
    /\ frag \subseteq Fragment /\ main \subseteq Fragment
    /\ builtin \subseteq Site /\ running \subseteq Site
    /\ man \in [Site -> Backend] /\ row \in [Site -> Backend] /\ config \in [Resident -> Backend]
    /\ op \in [Site -> OpKind]

NameGoals(w) ==
    ~ggh.torn => (sw[w].pc = "idle" => Agreed(backend, man, row, ggh.old)) /\ NamesOf(w)

ServeGoals(w) ==
    Clean => /\ ~Busy /\ Of("site", running) \subseteq frag
             /\ boot.by = "on" => backend = "caddy" /\ ~Deep(w)
             /\ ~Deep(w) /\ backend = "builtin" => ~caddy.up
             /\ Deep(w) => PlanOf(w) /\ ServeOf(w)

BootSide(w) ==
    /\ boot' \in BootKind /\ (boot'.by = NoOne => boot' = NoBoot)
    /\ sw'[w].pc \in {"booting", "rebooting"} <=> boot'.by = w
    /\ \A v \in Switcher \ {w} : boot'.by # v

LEMMA FragsEasy == ASSUME SwitchControl, ~Busy
    PROVE FragsHold <=> Of("site", running) \subseteq frag
BY SwitchKinds DEF Busy, NoOp, FragsOf, Saves, FragsHold, Of

LEMMA FragsSame ==
    ASSUME UNCHANGED <<running, frag, op>> PROVE (FragsHold' <=> FragsHold) /\ (Busy' <=> Busy)
BY DEF FragsHold, FragsOf, Saves, Busy

LEMMA HolderAlone ==
    ASSUME SwitchControl, NEW w \in Switcher, Holds(w)
    PROVE  /\ \A v \in Switcher \ {w} : sw[v].pc \in {"idle", "lock"} /\ ~Deep(v) /\ boot.by # v
           /\ Locked
BY DEF SwitchControl, Holds, Deep, Locked

LEMMA HolderKeeps ==
    ASSUME SwitchInv, NEW w \in Switcher, Holds(w),
           sw' \in [Switcher -> SwitchKind], \A v \in Switcher \ {w} : sw'[v] = sw[v],
           sw'[w].pc # "lock", sw'[w].pc # "idle" => sw'[w].from # sw'[w].to /\ sw'[w].answer = "none",
           WorldTyped', ggh' \in GhostKind, BootSide(w), NameGoals(w)', ServeGoals(w)'
    PROVE  SwitchInv'
<1>1. SwitchControl
  BY DEF SwitchInv
<1>2. \A v \in Switcher \ {w} : sw'[v] = sw[v] /\ sw'[v].pc \in {"idle", "lock"} /\ boot'.by # v
  BY <1>1, HolderAlone DEF BootSide
<1>3. SwitchTyped'
  BY DEF SwitchTyped, GatewayTypeOK, WorldTyped, BootSide, BootKind
<1>4. SwitchControl'
  BY <1>1, <1>2, <1>3 DEF SwitchControl, Holds, BootSide
<1>5. ~ggh'.torn => \A v \in Switcher : NamesOf(v)'
  BY <1>2 DEF NamesOf, NameGoals, Deep
<1>6. ~Locked' => sw'[w].pc = "idle"
  BY DEF Locked
<1>7. SwitchNames'
  BY <1>5, <1>6 DEF SwitchNames, NameGoals
<1>8. \A v \in Switcher \ {w} : ~Deep(v)'
  BY <1>2 DEF Deep
<1>9. ~Busy' => (FragsHold' <=> (Of("site", running) \subseteq frag)')
  BY <1>4, FragsEasy, PTL
<1>10. SwitchServing'
  BY <1>8, <1>9 DEF SwitchServing, ServeGoals
<1> QED BY <1>4, <1>7, <1>10 DEF SwitchInv

(* What is known of the switch that holds the lock. *)
LEMMA HolderKnows ==
    ASSUME SwitchInv, NEW w \in Switcher, Holds(w)
    PROVE  /\ SwitchControl /\ NameGoals(w) /\ WorldTyped /\ (Deep(w) => ServeGoals(w))
           /\ sw[w].from # sw[w].to /\ sw[w].answer = "none"
BY HolderAlone, FragsEasy, SwitchKinds DEF SwitchInv, NameGoals, SwitchNames, Holds, ServeGoals,
       SwitchServing, WorldTyped, SwitchControl

(* The common case: the start lock is let alone. *)
LEMMA TurnKeeps ==
    ASSUME SwitchInv, NEW w \in Switcher, Holds(w), NEW pc, NEW todo, pc \notin {"idle", "lock", "booting", "rebooting"},
           Turned(w, pc, todo), sw[w].pc \notin {"booting", "rebooting"}, boot' = boot, WorldTyped', ggh' \in GhostKind,
           NameGoals(w)', ServeGoals(w)'
    PROVE  SwitchInv'
BY HolderKnows, HolderAlone, SwitchKinds, HolderKeeps DEF BootSide, Turned, SwitchControl

LEMMA EndedKeeps ==
    ASSUME SwitchInv, NEW w \in Switcher, Holds(w), Ended(w), sw[w].pc \notin {"booting", "rebooting"}, boot' = boot,
           WorldTyped', ggh' \in GhostKind, NameGoals(w)', ServeGoals(w)'
    PROVE  SwitchInv'
BY HolderKnows, HolderAlone, SwitchKinds, HolderKeeps DEF BootSide, Ended, SwitchControl

LEMMA StopLeaves ==
    ASSUME SwitchControl, NEW b \in Backend, NEW stops \in BOOLEAN, StopGateway(b, stops)
    PROVE  /\ ggh' \in GhostKind /\ ggh'.torn = ggh.torn /\ ggh'.old = ggh.old /\ (Clean' => Clean /\ (caddy.up => stops))
           /\ caddy' \in [up : BOOLEAN, loaded : SUBSET Fragment] /\ enabled' \in BOOLEAN
           /\ stops => ~caddy'.up /\ ~enabled'
BY SwitchKinds DEF StopGateway, GhostKind, Clean, Stopped

LEMMA StopCaddyKeeps ==
    ASSUME SwitchInv, NEW w \in Switcher, StopCaddy(w)
    PROVE  SwitchInv'
<1>1. /\ sw[w].pc = "stop" /\ Holds(w) /\ Deep(w) /\ (Busy' <=> Busy)
      /\ UNCHANGED <<backend, frag, main, builtin, man, row, running, config, op, boot>>
  BY DEF StopCaddy, Holds, Deep, siteVars, Busy
<1>2. SwitchControl /\ NameGoals(w) /\ ServeGoals(w) /\ WorldTyped /\ sw[w].from # sw[w].to
  BY <1>1, HolderKnows
<1>3. CASE StopGateway("caddy", TRUE) /\ Goes(w, "yaml")
  <2>1. Turned(w, "yaml", sw[w].todo)
    BY <1>2, <1>3, GoesTurns DEF SwitchPcs
  <2>2. /\ ggh' \in GhostKind /\ ggh'.torn = ggh.torn /\ ggh'.old = ggh.old /\ (Clean' => Clean)
        /\ caddy' \in [up : BOOLEAN, loaded : SUBSET Fragment] /\ enabled' \in BOOLEAN
        /\ ~caddy'.up /\ ~enabled'
    BY <1>2, <1>3, StopLeaves DEF Backend
  <2>3. WorldTyped'
    BY <1>1, <1>2, <2>2 DEF WorldTyped
  <2>4. NameGoals(w)'
    BY <1>1, <1>2, <2>1, <2>2 DEF NameGoals, NamesOf, Deep, Turned
  <2>5. ServeGoals(w)'
    BY <1>1, <1>2, <2>1, <2>2 DEF ServeGoals, PlanOf, ServeOf, Deep, Turned
  <2> QED BY <1>1, <2>1, <2>2, <2>3, <2>4, <2>5, TurnKeeps
<1>4. CASE caddy.up /\ StopGateway("caddy", FALSE) /\ Fails(w)
  <2>1. Turned(w, "undo", sw[w].todo)
    BY <1>2, <1>4, FailsTurns
  <2>2. /\ ggh' \in GhostKind /\ ggh'.torn = ggh.torn /\ ~Clean'
        /\ caddy' \in [up : BOOLEAN, loaded : SUBSET Fragment] /\ enabled' \in BOOLEAN
    BY <1>2, <1>4, StopLeaves DEF Backend
  <2>3. WorldTyped'
    BY <1>1, <1>2, <2>2 DEF WorldTyped
  <2>4. NameGoals(w)'
    BY <1>1, <1>2, <2>1, <2>2 DEF NameGoals, NamesOf, Deep, Turned
  <2>5. ServeGoals(w)'
    BY <2>2 DEF ServeGoals
  <2> QED BY <1>1, <2>1, <2>2, <2>3, <2>4, <2>5, TurnKeeps
<1> QED BY <1>3, <1>4 DEF StopCaddy

LEMMA WriteYamlKeeps ==
    ASSUME SwitchInv, NEW w \in Switcher, WriteYaml(w)
    PROVE  SwitchInv'
<1>1. /\ sw[w].pc = "yaml" /\ Holds(w) /\ Deep(w) /\ (Busy' <=> Busy)
      /\ UNCHANGED <<enabled, caddy, frag, main, builtin, man, row, running, op, boot, ggh>>
  BY DEF WriteYaml, Holds, Deep, servers, Busy
<1>2. SwitchControl /\ NameGoals(w) /\ ServeGoals(w) /\ WorldTyped /\ sw[w].from # sw[w].to
  BY <1>1, HolderKnows
<1>3. sw[w].to \in Backend /\ sw[w].from \in Backend /\ sw[w].todo \subseteq Site /\ ggh \in GhostKind /\ (Clean' <=> Clean)
  BY <1>1, <1>2, SwitchOfKind, SwitchKinds DEF Clean
<1>0. config' \in [Resident -> Backend]
  BY <1>2, <1>3 DEF WriteYaml, WorldTyped
<1>4. CASE backend' = sw[w].to /\ sw[w].to = "builtin" /\ Starts(w, "enable", running)
  BY <1>2, <1>4, StartsTurns, SwitchKinds, <1>0, <1>1, <1>3, TurnKeeps DEF SwitchPcs, WorldTyped,
         NameGoals, NamesOf, Deep, Turned, ServeGoals, PlanOf, ServeOf
<1>5. CASE backend' = sw[w].to /\ sw[w].to # "builtin" /\ Goes(w, "boot")
  <2>1. Turned(w, "boot", sw[w].todo) /\ sw[w].to = "caddy"
    BY <1>2, <1>3, <1>5, GoesTurns DEF SwitchPcs, Backend
  <2>2. WorldTyped'
    BY <1>0, <1>1, <1>2, <1>3, <1>5 DEF WorldTyped
  <2>3. NameGoals(w)'
    BY <1>1, <1>2, <1>5, <2>1 DEF NameGoals, NamesOf, Deep, Turned
  <2>4. ServeGoals(w)'
    BY <1>1, <1>2, <1>3, <1>5, <2>1 DEF ServeGoals, PlanOf, ServeOf, Deep, Turned
  <2> QED BY <1>1, <1>3, <2>1, <2>2, <2>3, <2>4, TurnKeeps
<1>6. CASE Fails(w) /\ UNCHANGED backend
  BY <1>2, <1>6, FailsTurns, <1>0, <1>1, <1>3, TurnKeeps DEF WorldTyped, NameGoals, NamesOf, Deep,
         Turned, ServeGoals, PlanOf, ServeOf
<1> QED BY <1>4, <1>5, <1>6 DEF WriteYaml

(* A failing step leaves the rest as it is; the switch that began with      *)
(* Caddy has stopped it before.                                             *)
LEMMA FailingKeeps ==
    ASSUME SwitchInv, NEW w \in Switcher, Holds(w), Deep(w), Fails(w), sw[w].pc \notin {"booting", "rebooting"},
           Clean /\ sw[w].from = "caddy" => ~caddy'.up,
           Of("site", running) \subseteq frag => Of("site", running) \subseteq frag',
           UNCHANGED <<backend, running, op, boot>>, WorldTyped',
           ggh' \in GhostKind, ggh'.torn = ggh.torn, Clean' <=> Clean
    PROVE  SwitchInv'
BY HolderKnows, FailsTurns, TurnKeeps DEF Busy, NameGoals, NamesOf, Deep, Turned, ServeGoals,
       PlanOf, ServeOf

LEMMA RevivedIs ==
    ASSUME SwitchControl, NEW i \in Site
    PROVE  Revived(i) \subseteq Site /\ (~caddy.up => Revived(i) = builtin \cup {i})
BY SwitchKinds DEF Revived

LEMMA EnableBuiltinKeeps ==
    ASSUME SwitchInv, NEW w \in Switcher, EnableBuiltin(w)
    PROVE  SwitchInv'
<1>1. sw[w].pc = "enable" /\ Holds(w) /\ Deep(w) /\ (Busy' <=> Busy)
      /\ UNCHANGED <<backend, enabled, caddy, main, man, row, running, config, op, boot, ggh>>
  BY DEF EnableBuiltin, Holds, Deep, siteVars, Busy
<1>2. SwitchControl /\ NameGoals(w) /\ ServeGoals(w) /\ WorldTyped /\ sw[w].from # sw[w].to
  BY <1>1, HolderKnows
<1>3. sw[w].to \in Backend /\ sw[w].from \in Backend /\ sw[w].todo \subseteq Site /\ ggh \in GhostKind /\ (Clean' <=> Clean)
  BY <1>1, <1>2, SwitchOfKind, SwitchKinds DEF Clean
<1>4. CASE sw[w].todo = {} /\ Starts(w, "sync", Site) /\ UNCHANGED <<frag, builtin>>
  BY <1>2, <1>4, StartsTurns, <1>1, <1>3, TurnKeeps DEF SwitchPcs, WorldTyped, NameGoals, NamesOf,
         Deep, Turned, ServeGoals, PlanOf, ServeOf
<1>5. ASSUME NEW i \in sw[w].todo, builtin' = Revived(i), frag' = frag \cup Of("site", {i}),
             Starts(w, "enable", sw[w].todo \ {i})
      PROVE  SwitchInv'
  BY <1>2, <1>3, <1>5, StartsTurns, RevivedIs, OfTyped, <1>1, TurnKeeps DEF SwitchPcs, WorldTyped,
         NameGoals, NamesOf, Deep, Turned, ServeGoals, PlanOf, ServeOf
<1>6. CASE Fails(w) /\ UNCHANGED <<frag, builtin>>
  BY <1>1, <1>2, <1>6, <1>3, FailingKeeps DEF ServeGoals, ServeOf, WorldTyped
<1> QED BY <1>4, <1>5, <1>6 DEF EnableBuiltin

(* A switch that holds no lock before nor after. *)
LEMMA ShallowKeeps ==
    ASSUME SwitchInv, NEW w \in Switcher, sw[w].pc \in {"idle", "lock"}, sw'[w].pc \in {"idle", "lock"},
           sw' \in [Switcher -> SwitchKind], \A v \in Switcher \ {w} : sw'[v] = sw[v],
           sw'[w].pc # "idle" => sw'[w].from # sw'[w].to /\ sw'[w].answer = "none",
           config' = config \/ config' \in [Resident -> Backend],
           UNCHANGED <<backend, enabled, caddy, frag, main, builtin, man, row, running, op, boot, ggh>>
    PROVE  SwitchInv'
<1>1. SwitchControl /\ SwitchNames /\ SwitchServing
  BY DEF SwitchInv
<1>2. \A v \in Switcher : Holds(v)' <=> Holds(v)
  BY DEF Holds
<1>3. \A v \in Switcher : Deep(v)' <=> Deep(v)
  BY DEF Deep
<1>4. (Locked' <=> Locked) /\ (Clean' <=> Clean)
  BY <1>2 DEF Locked, Holds, Clean
<1>5. SwitchTyped'
  BY <1>1 DEF SwitchControl, SwitchTyped, GatewayTypeOK
<1>6. SwitchControl'
  BY <1>1, <1>2, <1>5 DEF SwitchControl
<1>7. ~ggh.torn => \A v \in Switcher : NamesOf(v)'
  BY <1>1 DEF NamesOf, Deep, SwitchNames
<1>8. SwitchNames'
  BY <1>1, <1>4, <1>7 DEF SwitchNames, Agreed
<1>9. \A v \in Switcher : Deep(v) /\ PlanOf(v) /\ ServeOf(v) => PlanOf(v)' /\ ServeOf(v)'
  BY DEF Deep, PlanOf, ServeOf, BootHolds, CaddyServes
<1>10. SwitchServing'
  BY <1>1, <1>3, <1>4, <1>9, FragsSame DEF SwitchServing
<1> QED BY <1>6, <1>8, <1>10 DEF SwitchInv

LEMMA BeginSwitchKeeps ==
    ASSUME SwitchInv, NEW w \in Switcher, NEW to \in Backend, BeginSwitch(w, to)
    PROVE  SwitchInv'
<1> DEFINE d == [NoSwitch EXCEPT !.pc = "lock", !.from = Knows(w), !.to = to]
<1>1. /\ sw' = [sw EXCEPT ![w] = d] /\ sw[w].pc = "idle" /\ to # Knows(w)
      /\ UNCHANGED <<backend, enabled, caddy, frag, main, builtin, man, row, running, config, op, boot, ggh>>
  BY DEF BeginSwitch, servers, siteVars
<1>2. sw \in [Switcher -> SwitchKind] /\ Knows(w) \in Backend
  BY SwitchKinds DEF SwitchInv, Knows
<1>3. d \in SwitchKind /\ d.pc = "lock" /\ d.from = Knows(w) /\ d.to = to /\ d.answer = "none"
  BY <1>2, NoSwitchKind DEF NoSwitch, SwitchKind, SwitchPcs
<1> HIDE DEF d
<1>4. sw' \in [Switcher -> SwitchKind] /\ sw'[w] = d /\ \A v \in Switcher \ {w} : sw'[v] = sw[v]
  BY <1>1, <1>2, <1>3
<1> QED BY <1>1, <1>3, <1>4, ShallowKeeps

LEMMA TakeLockKeeps ==
    ASSUME SwitchInv, NEW w \in Switcher, TakeLock(w)
    PROVE  SwitchInv'
<1>1. /\ sw[w].pc = "lock"
      /\ UNCHANGED <<backend, enabled, caddy, frag, main, builtin, man, row, running, config, op, boot, ggh>>
  BY DEF TakeLock, servers, siteVars
<1>2. SwitchControl /\ SwitchNames /\ SwitchServing
  BY DEF SwitchInv
<1>3. CASE Answers(w, "refused")
  BY <1>2, <1>3, AnswersEnd, <1>1, ShallowKeeps DEF Ended
<1>4. CASE ~Locked /\ Goes(w, "snap")
  <2>1. Turned(w, "snap", sw[w].todo)
    BY <1>2, <1>4, GoesTurns DEF SwitchPcs
  <2>2. \A v \in Switcher : ~Holds(v) /\ ~Deep(v)
    BY <1>4 DEF Locked, Holds, Deep
  <2>3. \A v \in Switcher : ~Deep(v)' /\ (v # w => ~Holds(v)' /\ sw'[v] = sw[v])
    BY <2>1, <2>2 DEF Holds, Deep, Turned
  <2>4. SwitchTyped'
    BY <1>1, <1>2, <2>1 DEF SwitchControl, SwitchTyped, GatewayTypeOK, Turned
  <2>5. \A v \in Switcher : sw'[v].pc \in {"booting", "rebooting"} <=> boot.by = v
    BY <1>1, <1>2, <2>1, <2>3 DEF SwitchControl, Turned
  <2>6. \A v \in Switcher : sw'[v].pc # "idle" => sw'[v].from # sw'[v].to /\ sw'[v].answer = "none"
    BY <1>1, <1>2, <2>1, <2>3 DEF SwitchControl, Turned
  <2>7. SwitchControl'
    BY <1>1, <1>2, <2>3, <2>4, <2>5, <2>6 DEF SwitchControl
  <2>8. ~ggh.torn => Agreed(backend, man, row, ggh.old)
    BY <1>2, <1>4 DEF SwitchNames
  <2>9. ASSUME ~ggh.torn, NEW v \in Switcher PROVE NamesOf(v)'
    BY <1>1, <2>1, <2>3, <2>8, <2>9 DEF NamesOf, Agreed, Turned, Holds
  <2>10. SwitchNames'
    BY <1>1, <2>8, <2>9 DEF SwitchNames, Agreed
  <2>11. SwitchServing'
    BY <1>1, <1>2, <2>2, <2>3, FragsSame DEF SwitchServing, Clean
  <2> QED BY <2>7, <2>10, <2>11 DEF SwitchInv
<1> QED BY <1>3, <1>4 DEF TakeLock

LEMMA NotedGhost ==
    ASSUME SwitchControl, NEW a \in BOOLEAN, NEW b \in BOOLEAN, ggh' = [ggh EXCEPT !.overlap = a, !.stale = b],
           ggh.overlap => a, ggh.stale => b
    PROVE  ggh' \in GhostKind /\ ggh'.torn = ggh.torn /\ ggh'.old = ggh.old /\ (Clean' => Clean /\ ~a /\ ~b)
BY SwitchKinds DEF GhostKind, Clean

LEMMA TakeSnapshotKeeps ==
    ASSUME SwitchInv, NEW w \in Switcher, TakeSnapshot(w)
    PROVE  SwitchInv'
<1>1. /\ sw[w].pc = "snap" /\ Holds(w) /\ ~Deep(w) /\ (Busy' <=> Busy)
      /\ UNCHANGED <<backend, enabled, caddy, frag, main, builtin, man, row, running, config, op, boot>>
  BY DEF TakeSnapshot, servers, siteVars, Holds, Deep, Busy
<1>2. SwitchControl /\ NameGoals(w) /\ WorldTyped /\ sw[w].from # sw[w].to /\ sw[w].answer = "none"
  BY <1>1, HolderKnows
<1>0. \A v \in Switcher : ~Deep(v)
  BY <1>1, <1>2, HolderAlone
<1>3. /\ ggh' \in GhostKind /\ ggh'.torn = ggh.torn /\ ggh'.old = ggh.old
      /\ Clean' => Clean /\ boot.by # "on" /\ ~Busy /\ sw[w].from = backend
  BY <1>2, SwitchKinds, NotedGhost DEF TakeSnapshot, GhostKind, Busy
<1>4. WorldTyped'
  BY <1>1, <1>2 DEF WorldTyped
<1>5. /\ sw[w].to \in Backend /\ sw[w].from \in Backend /\ Snapshot \in SnapKind
      /\ Snapshot.backend = backend /\ Snapshot.frag = frag /\ Snapshot.man = man /\ Snapshot.row = row
      /\ Snapshot.old = ggh.old
  BY <1>2, SwitchOfKind, SwitchKinds DEF Snapshot, SnapKind, GhostKind
<1>6. boot.by \notin Switcher /\ boot.by \in Switcher \cup {"on", NoOne}
  BY <1>1, <1>2, HolderAlone, SwitchKinds DEF SwitchControl, BootKind
<1>9. Clean' => /\ backend = sw[w].from /\ Of("site", running) \subseteq frag /\ boot.by = NoOne
                /\ (backend = "builtin" => ~caddy.up)
  BY <1>0, <1>1, <1>2, <1>3, <1>6, FragsEasy DEF SwitchInv, SwitchServing
<1>7. CASE sw' = [sw EXCEPT ![w].snap = Snapshot, ![w].pc = IF sw[w].to = "builtin"
    THEN "stop" ELSE "yaml"]
  <2> DEFINE pc == IF sw[w].to = "builtin" THEN "stop" ELSE "yaml"
             d == [sw[w] EXCEPT !.snap = Snapshot, !.pc = pc]
  <2>1. sw' = [sw EXCEPT ![w] = d] /\ sw \in [Switcher -> SwitchKind] /\ sw[w] \in SwitchKind
    BY <1>2, <1>7, SwitchKinds
  <2>2. pc \in SwitchPcs
    BY DEF SwitchPcs
  <2>3. (pc = "stop" /\ sw[w].to = "builtin") \/ (pc = "yaml" /\ sw[w].to = "caddy")
    BY <1>5 DEF Backend
  <2> HIDE DEF pc
  <2>4. /\ d \in SwitchKind /\ d.pc = pc /\ d.snap = Snapshot /\ d.from = sw[w].from /\ d.to = sw[w].to
        /\ d.answer = sw[w].answer
    BY <1>5, <2>1, <2>2 DEF SwitchKind
  <2> HIDE DEF d
  <2>5. sw' \in [Switcher -> SwitchKind] /\ sw'[w] = d /\ \A v \in Switcher \ {w} : sw'[v] = sw[v]
    BY <2>1, <2>4
  <2>6. BootSide(w)
    BY <1>1, <1>2, <1>6, <2>3, <2>4, <2>5, SwitchKinds DEF BootSide, SwitchControl
  <2>7. NameGoals(w)'
    BY <1>1, <1>2, <1>3, <1>5, <2>3, <2>4, <2>5 DEF NameGoals, NamesOf, Deep, Agreed
  <2>8. Clean' => /\ backend = sw[w].from /\ Of("site", running) \subseteq frag /\ boot.by = NoOne
                  /\ (backend = "builtin" => ~caddy.up)
    BY <1>9
  <2>9. backend = "caddy" \/ backend = "builtin"
    BY <1>2 DEF WorldTyped, Backend
  <2>10. Clean' => Deep(w)' /\ PlanOf(w)'
    BY <1>1, <1>2, <1>5, <2>3, <2>4, <2>5, <2>8 DEF PlanOf, Deep
  <2>11. Clean' => ServeOf(w)'
    BY <1>1, <1>2, <1>5, <2>3, <2>4, <2>5, <2>8, <2>9 DEF ServeOf
  <2>12. ServeGoals(w)'
    BY <1>1, <1>3, <2>8, <2>10, <2>11, GatewayMarks DEF ServeGoals
  <2> QED BY <1>1, <1>2, <1>3, <1>4, <2>3, <2>4, <2>5, <2>6, <2>7, <2>12, HolderKeeps
<1>8. CASE Answers(w, "refused")
  BY <1>2, <1>8, AnswersEnd, <1>1, <1>3, <1>9, GatewayMarks, <1>4, EndedKeeps DEF NameGoals,
         NamesOf, Deep, Agreed, Ended, ServeGoals
<1> QED BY <1>7, <1>8 DEF TakeSnapshot

LEMMA SwitchDiesKeeps ==
    ASSUME SwitchInv, NEW w \in Switcher, SwitchDies(w)
    PROVE  SwitchInv'
<1>1. /\ sw[w].pc # "idle" /\ Answers(w, "none") /\ boot' = (IF boot.by = w THEN NoBoot ELSE boot)
      /\ ggh' = [ggh EXCEPT !.torn = @ \/ sw[w].pc # "lock"]
      /\ UNCHANGED <<backend, enabled, caddy, frag, main, builtin, man, row, running, op>>
      /\ config' = IF w \in Resident THEN [config EXCEPT ![w] = backend] ELSE config
  BY DEF SwitchDies, servers
<1>2. SwitchControl
  BY DEF SwitchInv
<1>3. Ended(w) /\ ggh \in GhostKind /\ boot \in BootKind
  BY <1>1, <1>2, AnswersEnd, SwitchKinds
<1>6. config' \in [Resident -> Backend]
  BY <1>1, <1>2, SwitchKinds
<1>4. CASE sw[w].pc = "lock"
  BY <1>2, <1>4, <1>1, <1>3, <1>6, ShallowKeeps DEF SwitchControl, GhostKind, Ended
<1>5. CASE sw[w].pc # "lock"
  <2>1. Holds(w)
    BY <1>1, <1>5 DEF Holds
  <2>2. ggh' \in GhostKind /\ ggh'.torn
    BY <1>1, <1>3, <1>5 DEF GhostKind
  <2>3. NoBoot \in BootKind /\ NoBoot.by = NoOne
    BY DEF NoBoot, BootKind, BootPcs
  <2>4. BootSide(w)
    BY <1>1, <1>2, <1>3, <2>1, <2>3, HolderAlone, GatewayMarks DEF BootSide, Ended, SwitchControl
  <2>5. WorldTyped'
    BY <1>1, <1>6, <2>1, HolderKnows DEF WorldTyped
  <2>6. NameGoals(w)' /\ ServeGoals(w)'
    BY <2>2 DEF NameGoals, ServeGoals, Clean
  <2> QED BY <1>3, <2>1, <2>2, <2>4, <2>5, <2>6, HolderKeeps DEF Ended
<1> QED BY <1>4, <1>5

LEMMA NoBootKind ==
    /\ NoBoot \in BootKind /\ NoBoot.by = NoOne
    /\ \A who \in Switcher \cup {"on"} : /\ [NoBoot EXCEPT !.by = who, !.pc = "stop"] \in BootKind
                                         /\ [NoBoot EXCEPT !.by = who, !.pc = "stop"].by = who
                                         /\ [NoBoot EXCEPT !.by = who, !.pc = "stop"].pc = "stop"
BY DEF NoBoot, BootKind, BootPcs

LEMMA SameWorld ==
    ASSUME WorldTyped, UNCHANGED <<backend, enabled, caddy, frag, main, builtin, man, row, running, config, op>>
    PROVE  WorldTyped'
BY DEF WorldTyped

LEMMA CallStartKeeps ==
    ASSUME SwitchInv, NEW w \in Switcher, CallStart(w)
    PROVE  SwitchInv'
<1>1. /\ sw[w].pc \in {"boot", "reboot"} /\ Holds(w) /\ Deep(w) /\ (Busy' <=> Busy)
      /\ UNCHANGED <<backend, enabled, caddy, frag, main, builtin, man, row, running, config, op, ggh>>
  BY DEF CallStart, servers, siteVars, Holds, Deep, Busy
<1>2. SwitchControl /\ NameGoals(w) /\ ServeGoals(w) /\ WorldTyped /\ sw[w].from # sw[w].to /\ sw[w].answer = "none"
  BY <1>1, HolderKnows
<1>3. ggh' \in GhostKind /\ (Clean' <=> Clean) /\ WorldTyped'
  BY <1>1, <1>2, SwitchKinds, SameWorld DEF Clean
<1>4. CASE Begins(w) /\ Goes(w, IF sw[w].pc = "boot" THEN "booting" ELSE "rebooting")
  <2> DEFINE pc == IF sw[w].pc = "boot" THEN "booting" ELSE "rebooting"
  <2>1. pc \in SwitchPcs /\ pc \in {"booting", "rebooting"} /\ (pc = "booting" <=> sw[w].pc = "boot")
    BY DEF SwitchPcs
  <2>2. Goes(w, pc)
    BY <1>4
  <2> HIDE DEF pc
  <2>3. Turned(w, pc, sw[w].todo)
    BY <1>2, <2>1, <2>2, GoesTurns
  <2>4. boot' \in BootKind /\ boot'.by = w /\ boot'.pc = "stop"
    BY <1>4, NoBootKind DEF Begins
  <2>5. BootSide(w)
    BY <2>1, <2>3, <2>4, GatewayMarks DEF BootSide, Turned
  <2>6. NameGoals(w)'
    BY <1>1, <1>2, <2>1, <2>3 DEF NameGoals, NamesOf, Deep, Agreed, Turned
  <2>7. Clean => PlanOf(w)'
    BY <1>1, <1>2, <2>1, <2>3, <2>4 DEF ServeGoals, PlanOf, Turned
  <2>8. Clean => ServeOf(w)'
    BY <1>1, <1>2, <2>1, <2>3, <2>4 DEF ServeGoals, ServeOf, BootHolds, Turned
  <2>9. ServeGoals(w)'
    BY <1>1, <1>2, <1>3, <2>1, <2>3, <2>4, <2>7, <2>8, GatewayMarks DEF ServeGoals, Deep, Turned
  <2> QED BY <1>1, <1>2, <1>3, <2>1, <2>3, <2>5, <2>6, <2>9, HolderKeeps DEF Turned
<1>5. CASE boot' = boot /\ sw[w].pc = "boot" /\ Fails(w)
  BY <1>1, <1>2, <1>5, <1>3, FailingKeeps DEF ServeGoals, ServeOf
<1>6. CASE boot' = boot /\ sw[w].pc = "reboot" /\ Answers(w, "degraded")
  BY <1>2, <1>6, AnswersEnd, <1>1, GatewayMarks, <1>3, EndedKeeps DEF NameGoals, NamesOf, Deep,
         Agreed, Ended, ServeGoals, PlanOf
<1> QED BY <1>1, <1>4, <1>5, <1>6 DEF CallStart

(* The start returned: the switch goes on, and the start lock is free. *)
LEMMA ReturnKeeps ==
    ASSUME SwitchInv, NEW w \in Switcher, Holds(w), boot' = NoBoot, NEW pc, pc \notin {"idle", "lock", "booting", "rebooting"},
           Turned(w, pc, sw[w].todo), UNCHANGED <<backend, enabled, caddy, frag, main, builtin, man, row, running, config, op, ggh>>,
           NameGoals(w)', ServeGoals(w)'
    PROVE  SwitchInv'
<1>1. SwitchControl /\ WorldTyped /\ sw[w].from # sw[w].to /\ sw[w].answer = "none" /\ ggh \in GhostKind
  BY HolderKnows, SwitchKinds
<1>2. WorldTyped'
  BY <1>1, SameWorld
<1>3. BootSide(w)
  BY NoBootKind, GatewayMarks DEF BootSide, Turned
<1> QED BY <1>1, <1>2, <1>3, HolderKeeps DEF Turned

LEMMA StartReturnsKeeps ==
    ASSUME SwitchInv, NEW w \in Switcher, StartReturns(w)
    PROVE  SwitchInv'
<1>1. /\ sw[w].pc = "booting" /\ Holds(w) /\ Deep(w) /\ boot' = NoBoot /\ (Busy' <=> Busy)
      /\ UNCHANGED <<backend, enabled, caddy, frag, main, builtin, man, row, running, config, op, ggh>>
  BY DEF StartReturns, Released, servers, siteVars, Holds, Deep, Busy
<1>2. SwitchControl /\ NameGoals(w) /\ ServeGoals(w) /\ sw[w].from # sw[w].to
  BY <1>1, HolderKnows
<1>3. (Clean' <=> Clean) /\ boot'.by = NoOne /\ NoOne # "on"
  BY <1>1, NoBootKind, GatewayMarks DEF Clean
<1>4. CASE Booted(w, "ok") /\ Goes(w, "alias")
  <2>1. Turned(w, "alias", sw[w].todo) /\ boot.pc = "ok"
    BY <1>2, <1>4, GoesTurns DEF SwitchPcs, Booted
  <2>2. NameGoals(w)'
    BY <1>1, <1>2, <2>1 DEF NameGoals, NamesOf, Deep, Agreed, Turned
  <2>3. Clean => PlanOf(w)'
    BY <1>1, <1>2, <1>3, <2>1 DEF ServeGoals, PlanOf, Turned
  <2>4. Clean => CaddyServes
    BY <1>1, <1>2, <2>1 DEF ServeGoals, ServeOf, BootHolds
  <2>5. Clean => CaddyServes'
    BY <1>1, <2>4 DEF CaddyServes
  <2>6. Clean => ServeOf(w)'
    BY <2>1, <2>5 DEF ServeOf, Turned
  <2>7. ServeGoals(w)'
    BY <1>1, <1>2, <1>3, <2>1, <2>3, <2>6 DEF ServeGoals, Deep, Turned
  <2> QED BY <1>1, <2>1, <2>2, <2>7, ReturnKeeps
<1>5. CASE Booted(w, "failed") /\ Fails(w)
  BY <1>2, <1>5, FailsTurns, <1>1, <1>3, ReturnKeeps DEF NameGoals, NamesOf, Deep, Agreed, Turned,
         ServeGoals, PlanOf, ServeOf
<1> QED BY <1>4, <1>5 DEF StartReturns

LEMMA RestartReturnsKeeps ==
    ASSUME SwitchInv, NEW w \in Switcher, RestartReturns(w)
    PROVE  SwitchInv'
<1>1. /\ sw[w].pc \in {"rebooting", "lost"} /\ Holds(w) /\ Deep(w) /\ (Busy' <=> Busy)
      /\ UNCHANGED <<backend, enabled, caddy, frag, main, builtin, man, row, running, config, op, ggh>>
  BY DEF RestartReturns, servers, siteVars, Holds, Deep, Busy
<1>2. /\ SwitchControl /\ NameGoals(w) /\ ServeGoals(w) /\ sw[w].from # sw[w].to /\ WorldTyped
      /\ sw[w].answer = "none"
  BY <1>1, HolderKnows
<1>3. (Clean' <=> Clean) /\ NoBoot.by = NoOne /\ NoOne # "on" /\ WorldTyped' /\ ggh' \in GhostKind
  BY <1>1, <1>2, NoBootKind, GatewayMarks, SameWorld, SwitchKinds DEF Clean
<1>4. CASE sw[w].pc = "rebooting" /\ Booted(w, "ok") /\ Goes(w, "review") /\ Released
  <2>1. Turned(w, "review", sw[w].todo) /\ boot.pc = "ok" /\ boot' = NoBoot
    BY <1>2, <1>4, GoesTurns DEF SwitchPcs, Booted, Released
  <2>2. NameGoals(w)'
    BY <1>1, <1>2, <1>4, <2>1 DEF NameGoals, NamesOf, Deep, Agreed, Turned
  <2>3. Clean => PlanOf(w)' /\ backend = "caddy"
    BY <1>1, <1>2, <1>3, <1>4, <2>1 DEF ServeGoals, PlanOf, Turned
  <2>4. Clean => CaddyServes
    BY <1>1, <1>2, <1>4, <2>1 DEF ServeGoals, ServeOf, BootHolds
  <2>5. Clean => ServeOf(w)'
    BY <1>1, <2>1, <2>3, <2>4 DEF ServeOf, Turned, CaddyServes
  <2>6. ServeGoals(w)'
    BY <1>1, <1>2, <1>3, <2>1, <2>3, <2>5 DEF ServeGoals, Deep, Turned
  <2> QED BY <1>1, <2>1, <2>2, <2>6, ReturnKeeps
<1>5. CASE sw[w].pc = "rebooting" /\ Booted(w, "failed") /\ Answers(w, "degraded") /\ Released
  <2>1. Ended(w) /\ boot' = NoBoot
    BY <1>2, <1>5, AnswersEnd DEF Released
  <2>2. BootSide(w)
    BY <2>1, NoBootKind, GatewayMarks DEF BootSide, Ended
  <2>3. NameGoals(w)'
    BY <1>1, <1>2, <1>5, <2>1 DEF NameGoals, NamesOf, Deep, Agreed, Ended
  <2>4. Clean => backend = "caddy" /\ ~Busy /\ Of("site", running) \subseteq frag
    BY <1>1, <1>2, <1>5 DEF ServeGoals, PlanOf
  <2>5. ServeGoals(w)'
    BY <1>1, <1>3, <2>1, <2>4 DEF ServeGoals, Deep, Ended
  <2> QED BY <1>1, <1>3, <2>1, <2>2, <2>3, <2>5, HolderKeeps DEF Ended
<1>6. CASE sw[w].pc = "lost" /\ Answers(w, "degraded") /\ UNCHANGED boot
  BY <1>2, <1>6, AnswersEnd, <1>1, <1>3, EndedKeeps DEF NameGoals, NamesOf, Deep, Agreed, Ended,
         ServeGoals, PlanOf
<1> QED BY <1>4, <1>5, <1>6 DEF RestartReturns

LEMMA RebuildAliasesKeeps ==
    ASSUME SwitchInv, NEW w \in Switcher, RebuildAliases(w)
    PROVE  SwitchInv'
<1>1. /\ sw[w].pc = "alias" /\ Holds(w) /\ Deep(w) /\ (Busy' <=> Busy) /\ frag' = frag \cup Of("alias", Aliased)
      /\ UNCHANGED <<backend, enabled, builtin, man, row, running, config, op, boot, ggh>>
  BY DEF RebuildAliases, siteVars, Holds, Deep, Busy
<1>2. SwitchControl /\ NameGoals(w) /\ ServeGoals(w) /\ WorldTyped /\ sw[w].from # sw[w].to
  BY <1>1, HolderKnows
<1>3. /\ ggh' \in GhostKind /\ (Clean' <=> Clean) /\ Of("alias", Aliased) \subseteq Fragment
  BY <1>1, <1>2, SwitchKinds, OfTyped, GatewayMarks DEF Clean
<1>4. Clean => CaddyServes /\ sw[w].to = "caddy" /\ Of("site", running) \subseteq frag
  BY <1>1, <1>2 DEF ServeGoals, PlanOf, ServeOf
<1>5. ASSUME Starts(w, "sync", Site), WorldTyped',
             Clean => CaddyServes' /\ Of("alias", Aliased) \subseteq caddy'.loaded
      PROVE  SwitchInv'
  BY <1>2, <1>5, StartsTurns, <1>1, <1>4, <1>3, TurnKeeps DEF SwitchPcs, NameGoals, NamesOf, Deep,
         Turned, ServeGoals, PlanOf, ServeOf
<1>6. CASE Aliased = {} /\ UNCHANGED <<caddy, main>> /\ Starts(w, "sync", Site)
  BY <1>1, <1>2, <1>3, <1>6, <1>4, <1>5 DEF WorldTyped, Of, CaddyServes
<1>7. CASE main' = frag' /\ caddy' = [up |-> TRUE, loaded |-> frag'] /\ Starts(w, "sync", Site)
  BY <1>1, <1>2, <1>3, <1>7, <1>4, <1>5 DEF WorldTyped, CaddyServes
<1>8. CASE Fails(w) /\ UNCHANGED <<caddy, main>>
  BY <1>1, <1>2, <1>3, <1>8, <1>4, FailingKeeps DEF WorldTyped
<1> QED BY <1>6, <1>7, <1>8 DEF RebuildAliases

LEMMA SyncManifestsKeeps ==
    ASSUME SwitchInv, NEW w \in Switcher, SyncManifests(w)
    PROVE  SwitchInv'
<1>1. /\ sw[w].pc = "sync" /\ Holds(w) /\ Deep(w) /\ (Busy' <=> Busy)
      /\ UNCHANGED <<backend, enabled, caddy, frag, main, builtin, running, config, op, boot>>
  BY DEF SyncManifests, servers, Holds, Deep, Busy
<1>2. SwitchControl /\ NameGoals(w) /\ ServeGoals(w) /\ WorldTyped /\ sw[w].from # sw[w].to
  BY <1>1, HolderKnows
<1>3. sw[w].to \in Backend /\ sw[w].from \in Backend /\ sw[w].todo \subseteq Site /\ ggh \in GhostKind
  BY <1>1, <1>2, SwitchOfKind, SwitchKinds
<1>7. ASSUME NEW i, ggh' = [ggh EXCEPT !.old = @ \ {i}]
      PROVE  /\ ggh' \in GhostKind /\ ggh'.torn = ggh.torn /\ ggh'.old = ggh.old \ {i} /\ (Clean' <=> Clean)
  BY <1>3, <1>7 DEF GhostKind, Clean
<1>4. CASE sw[w].todo = {} /\ Goes(w, "access") /\ UNCHANGED <<man, row, ggh>>
  <2>1. Turned(w, "access", sw[w].todo)
    BY <1>2, <1>4, GoesTurns DEF SwitchPcs
  <2>2. WorldTyped' /\ (Clean' <=> Clean)
    BY <1>1, <1>2, <1>4, SameWorld DEF Clean
  <2>3. NameGoals(w)'
    BY <1>1, <1>2, <1>4, <2>1 DEF NameGoals, NamesOf, Deep, Agreed, Turned
  <2>4. Clean => PlanOf(w)'
    BY <1>1, <1>2, <2>1 DEF ServeGoals, PlanOf, Turned
  <2>5. Clean => ServeOf(w)'
    BY <1>1, <1>2, <2>1 DEF ServeGoals, ServeOf, Turned, CaddyServes
  <2>6. ServeGoals(w)'
    BY <1>1, <1>2, <2>1, <2>2, <2>4, <2>5 DEF ServeGoals, Deep, Turned
  <2> QED BY <1>1, <1>3, <1>4, <2>1, <2>2, <2>3, <2>6, TurnKeeps
<1>5. ASSUME NEW i \in sw[w].todo, man' = [man EXCEPT ![i] = sw[w].to], row' = [row EXCEPT ![i] = sw[w].to],
             ggh' = [ggh EXCEPT !.old = @ \ {i}], Starts(w, "sync", sw[w].todo \ {i})
      PROVE  SwitchInv'
  <2>1. Turned(w, "sync", sw[w].todo \ {i}) /\ i \in Site
    BY <1>2, <1>3, <1>5, StartsTurns DEF SwitchPcs
  <2>8. /\ ggh' \in GhostKind /\ ggh'.torn = ggh.torn /\ ggh'.old = ggh.old \ {i} /\ (Clean' <=> Clean)
    BY <1>5, <1>7
  <2>2. WorldTyped'
    BY <1>1, <1>2, <1>3, <1>5 DEF WorldTyped
  <2>3. /\ man'[i] = sw[w].to /\ row'[i] = sw[w].to
        /\ \A j \in Site \ {i} : man'[j] = man[j] /\ row'[j] = row[j]
    BY <1>2, <1>5, <2>1 DEF WorldTyped
  <2>4. NameGoals(w)'
    BY <1>1, <1>2, <2>1, <2>3, <2>8 DEF NameGoals, NamesOf, Deep, Turned
  <2>5. Clean => PlanOf(w)'
    BY <1>1, <1>2, <2>1 DEF ServeGoals, PlanOf, Turned
  <2>6. Clean => ServeOf(w)'
    BY <1>1, <1>2, <2>1 DEF ServeGoals, ServeOf, Turned, CaddyServes
  <2>7. ServeGoals(w)'
    BY <1>1, <1>2, <2>1, <2>5, <2>6, <2>8 DEF ServeGoals, Deep, Turned
  <2> QED BY <1>1, <2>1, <2>2, <2>4, <2>7, <2>8, TurnKeeps
<1>6. ASSUME NEW i \in sw[w].todo, man' = [man EXCEPT ![i] = sw[w].to], UNCHANGED row,
             ggh' = [ggh EXCEPT !.old = @ \ {i}], Fails(w)
      PROVE  SwitchInv'
  BY <1>6, <1>7, <1>1, <1>2, <1>3, FailingKeeps DEF WorldTyped, ServeGoals, ServeOf, Backend
<1> QED BY <1>4, <1>5, <1>6 DEF SyncManifests

(* The switch answers and nothing else happens. *)
LEMMA AnswerKeeps ==
    ASSUME SwitchInv, NEW w \in Switcher, Deep(w), NEW a \in {"none", "refused", "ok", "back", "degraded"}, Answers(w, a),
           sw[w].pc \notin {"booting", "rebooting"}, ~ggh.torn => Agreed(backend, man, row, ggh.old),
           Clean /\ backend = "builtin" => ~caddy.up,
           UNCHANGED <<backend, enabled, caddy, frag, main, builtin, man, row, running, config, op, boot, ggh>>
    PROVE  SwitchInv'
<1>1. Holds(w)
  BY DEF Deep, Holds
<1>2. SwitchControl /\ NameGoals(w) /\ ServeGoals(w) /\ WorldTyped
  BY <1>1, HolderKnows
<1>3. Ended(w) /\ WorldTyped' /\ ggh' \in GhostKind /\ (Clean' <=> Clean) /\ (Busy' <=> Busy)
  BY <1>2, AnswersEnd, SameWorld, SwitchKinds DEF Clean, Busy
<1>4. NameGoals(w)'
  BY <1>3 DEF NameGoals, NamesOf, Deep, Agreed, Ended
<1>5. Clean => boot.by # "on" /\ ~Busy /\ Of("site", running) \subseteq frag
  BY <1>2, GatewayMarks DEF ServeGoals, PlanOf
<1>6. ServeGoals(w)'
  BY <1>3, <1>5 DEF ServeGoals, Deep, Ended
<1> QED BY <1>1, <1>3, <1>4, <1>6, EndedKeeps

LEMMA AccessPassKeeps ==
    ASSUME SwitchInv, NEW w \in Switcher, AccessPass(w)
    PROVE  SwitchInv'
<1>1. /\ sw[w].pc = "access" /\ Holds(w) /\ Deep(w) /\ (Busy' <=> Busy)
      /\ UNCHANGED <<backend, enabled, caddy, frag, main, builtin, man, row, running, config, op, boot, ggh>>
  BY DEF AccessPass, servers, siteVars, Holds, Deep, Busy
<1>2. SwitchControl /\ NameGoals(w) /\ ServeGoals(w) /\ WorldTyped /\ sw[w].from # sw[w].to
  BY <1>1, HolderKnows
<1>3. sw[w].to \in Backend /\ sw[w].from \in Backend
  BY <1>2, SwitchOfKind
<1>4. CASE Answers(w, "ok")
  BY <1>1, <1>2, <1>4, AnswerKeeps DEF NameGoals, NamesOf, ServeGoals, ServeOf, Clean
<1>5. CASE Fails(w)
  BY <1>1, <1>2, <1>3, <1>5, SameWorld, SwitchKinds, FailingKeeps DEF ServeGoals, ServeOf,
         Backend, Clean
<1> QED BY <1>4, <1>5 DEF AccessPass

LEMMA ReviewKeeps ==
    ASSUME SwitchInv, NEW w \in Switcher, Review(w)
    PROVE  SwitchInv'
<1>1. /\ sw[w].pc = "review" /\ Holds(w) /\ Deep(w) /\ (Busy' <=> Busy) /\ (Answers(w, "back") \/ Answers(w, "degraded"))
      /\ UNCHANGED <<backend, enabled, caddy, frag, main, builtin, man, row, running, config, op, boot, ggh>>
  BY DEF Review, servers, siteVars, Holds, Deep, Busy
<1>2. NameGoals(w) /\ ServeGoals(w)
  BY <1>1, HolderKnows
<1>3. ~ggh.torn => Agreed(backend, man, row, ggh.old)
  BY <1>1, <1>2 DEF NameGoals, NamesOf
<1>4. Clean /\ backend = "builtin" => ~caddy.up
  BY <1>1, <1>2 DEF ServeGoals, ServeOf
<1> QED BY <1>1, <1>3, <1>4, AnswerKeeps

LEMMA UndoStepKeeps ==
    ASSUME SwitchInv, NEW w \in Switcher, Undo(w)
    PROVE  SwitchInv'
<1> DEFINE s == sw[w].snap
<1>1. /\ sw[w].pc = "undo" /\ Holds(w) /\ Deep(w) /\ (Busy' <=> Busy) /\ UNCHANGED <<caddy, main, builtin, running, config, op, boot>>
  BY DEF Undo, Holds, Deep, Busy
<1>2. SwitchControl /\ NameGoals(w) /\ ServeGoals(w) /\ WorldTyped /\ sw[w].from # sw[w].to
  BY <1>1, HolderKnows
<1>3. /\ s.backend \in Backend /\ s.enabled \in BOOLEAN /\ s.frag \subseteq Fragment
      /\ s.man \in [Site -> Backend] /\ s.row \in [Site -> Backend] /\ s.old \subseteq Site /\ ggh \in GhostKind /\ sw[w].from \in Backend
  BY <1>2, SwitchOfKind, SwitchKinds DEF SnapKind
<1>4. CASE /\ backend' = s.backend /\ enabled' = s.enabled /\ frag' = s.frag
           /\ man' = s.man /\ row' = RestoredRows(s) /\ ggh' = [ggh EXCEPT !.old = s.old]
           /\ Goes(w, IF sw[w].from = "caddy" THEN (IF s.backend = "caddy"
               THEN "reboot" ELSE "lost") ELSE "restop")
  <2> DEFINE pc == IF sw[w].from = "caddy" THEN (IF s.backend = "caddy"
      THEN "reboot" ELSE "lost") ELSE "restop"
  <2>1. /\ pc \in SwitchPcs /\ pc \in {"reboot", "lost", "restop"}
        /\ pc = "restop" => sw[w].from # "caddy"
        /\ pc = "reboot" => sw[w].from = "caddy" /\ s.backend = "caddy"
        /\ pc = "lost" => sw[w].from = "caddy" /\ s.backend # "caddy"
    BY DEF SwitchPcs
  <2>2. Goes(w, pc) /\ row' = s.row
    BY <1>4 DEF RestoredRows
  <2> HIDE DEF pc
  <2>3. Turned(w, pc, sw[w].todo)
    BY <1>2, <2>1, <2>2, GoesTurns
  <2>4. WorldTyped'
    BY <1>1, <1>2, <1>3, <1>4, <2>2 DEF WorldTyped
  <2>8. /\ (Clean' <=> Clean) /\ ggh' \in GhostKind /\ ggh'.torn = ggh.torn /\ ggh'.old = s.old
    BY <1>3, <1>4 DEF Clean, GhostKind
  <2>5. ~ggh.torn => Agreed(s.backend, s.man, s.row, s.old)
    BY <1>1, <1>2 DEF NameGoals, NamesOf
  <2>6. NameGoals(w)'
    BY <1>4, <2>1, <2>2, <2>3, <2>5, <2>8 DEF NameGoals, NamesOf, Deep, Agreed, Turned
  <2>7. Clean => /\ PlanOf(w) /\ s.backend = sw[w].from /\ Of("site", running) \subseteq s.frag
                 /\ (sw[w].from = "caddy" => ~caddy.up) /\ ~Busy
    BY <1>1, <1>2 DEF ServeGoals, PlanOf, ServeOf
  <2>9. Clean => PlanOf(w)'
    BY <1>1, <1>3, <1>4, <2>1, <2>3, <2>7 DEF PlanOf, Turned, Backend
  <2>10. Clean => ServeOf(w)'
    BY <1>1, <2>1, <2>3, <2>7 DEF ServeOf, Turned
  <2>11. ServeGoals(w)'
    BY <1>1, <1>4, <2>1, <2>3, <2>7, <2>8, <2>9, <2>10, GatewayMarks
       DEF ServeGoals, Deep, Turned, PlanOf
  <2> QED BY <1>1, <2>1, <2>3, <2>4, <2>6, <2>8, <2>11, TurnKeeps
<1>5. CASE /\ backend' = s.backend /\ Answers(w, "degraded") /\ ggh' = [ggh EXCEPT !.torn = TRUE]
           /\ UNCHANGED <<enabled, frag, man, row>>
  BY <1>2, <1>3, <1>5, AnswersEnd, <1>1, EndedKeeps DEF GhostKind, WorldTyped, NameGoals,
         ServeGoals, Clean
<1> QED BY <1>4, <1>5 DEF Undo

LEMMA StopAgainKeeps ==
    ASSUME SwitchInv, NEW w \in Switcher, StopAgain(w)
    PROVE  SwitchInv'
<1>1. /\ sw[w].pc = "restop" /\ Holds(w) /\ Deep(w) /\ (Busy' <=> Busy) /\ Starts(w, "reenable", running)
      /\ UNCHANGED <<backend, frag, main, builtin, man, row, running, config, op, boot>>
  BY DEF StopAgain, siteVars, Holds, Deep, Busy
<1>2. SwitchControl /\ NameGoals(w) /\ ServeGoals(w) /\ WorldTyped
  BY <1>1, HolderKnows
<1>3. PICK stops \in BOOLEAN : StopGateway(backend, stops) /\ (~stops => caddy.up)
  BY DEF StopAgain
<1>4. /\ ggh' \in GhostKind /\ ggh'.torn = ggh.torn /\ ggh'.old = ggh.old /\ (Clean' => Clean /\ (caddy.up => stops))
      /\ caddy' \in [up : BOOLEAN, loaded : SUBSET Fragment] /\ enabled' \in BOOLEAN /\ (stops => ~caddy'.up)
  BY <1>2, <1>3, StopLeaves, SwitchKinds
<1>5. Turned(w, "reenable", running)
  BY <1>1, <1>2, StartsTurns, SwitchKinds DEF SwitchPcs
<1>6. WorldTyped'
  BY <1>1, <1>2, <1>4 DEF WorldTyped
<1>7. NameGoals(w)'
  BY <1>1, <1>2, <1>4, <1>5 DEF NameGoals, NamesOf, Deep, Agreed, Turned
<1>8. Clean' => Clean /\ ~caddy'.up
  BY <1>3, <1>4
<1>9. Clean => PlanOf(w)'
  BY <1>1, <1>2, <1>5 DEF ServeGoals, PlanOf, Turned
<1>10. Clean' => ServeOf(w)'
  BY <1>1, <1>5, <1>8 DEF ServeOf, Turned
<1>11. ServeGoals(w)'
  BY <1>1, <1>2, <1>5, <1>8, <1>9, <1>10, GatewayMarks DEF ServeGoals, Deep, Turned, PlanOf
<1> QED BY <1>1, <1>4, <1>5, <1>6, <1>7, <1>11, TurnKeeps

LEMMA ReenableKeeps ==
    ASSUME SwitchInv, NEW w \in Switcher, Reenable(w)
    PROVE  SwitchInv'
<1>1. /\ sw[w].pc = "reenable" /\ Holds(w) /\ Deep(w) /\ (Busy' <=> Busy) /\ UNCHANGED <<backend, enabled, man, row, running, config, op, boot, ggh>>
  BY DEF Reenable, siteVars, Holds, Deep, Busy
<1>2. SwitchControl /\ NameGoals(w) /\ ServeGoals(w) /\ WorldTyped
  BY <1>1, HolderKnows
<1>3. sw[w].todo \subseteq Site /\ ggh' \in GhostKind /\ (Clean' <=> Clean)
  BY <1>1, <1>2, SwitchOfKind, SwitchKinds DEF Clean
<1>4. Clean => backend = "builtin" /\ ~caddy.up /\ running \ sw[w].todo \subseteq builtin /\ PlanOf(w)
               /\ ~Busy /\ Of("site", running) \subseteq frag
  BY <1>1, <1>2 DEF ServeGoals, PlanOf, ServeOf
<1>5. CASE sw[w].todo = {} /\ Goes(w, "review") /\ UNCHANGED servers
  <2>1. Turned(w, "review", sw[w].todo) /\ UNCHANGED <<caddy, frag, main, builtin>>
    BY <1>2, <1>5, GoesTurns DEF SwitchPcs, servers
  <2>2. WorldTyped'
    BY <1>1, <1>2, <2>1, SameWorld
  <2>3. NameGoals(w)'
    BY <1>1, <1>2, <2>1 DEF NameGoals, NamesOf, Deep, Agreed, Turned
  <2>4. Clean => PlanOf(w)' /\ ServeOf(w)'
    BY <1>1, <1>4, <1>5, <2>1 DEF PlanOf, ServeOf, Turned
  <2>5. ServeGoals(w)'
    BY <1>1, <1>3, <1>4, <2>1, <2>4, GatewayMarks DEF ServeGoals, Deep, Turned, PlanOf
  <2> QED BY <1>1, <1>3, <2>1, <2>2, <2>3, <2>5, TurnKeeps
<1>6. ASSUME NEW i \in sw[w].todo, frag' = frag \cup Of("site", {i}), Starts(w, "reenable", sw[w].todo \ {i}),
             \/ backend = "builtin" /\ builtin' = Revived(i) /\ UNCHANGED <<caddy, main>>
             \/ backend # "builtin" /\ builtin' = builtin \ {i} /\ main' = frag'
                /\ caddy' = [up |-> TRUE, loaded |-> frag']
      PROVE  SwitchInv'
  <2>1. Turned(w, "reenable", sw[w].todo \ {i}) /\ i \in Site
    BY <1>2, <1>3, <1>6, StartsTurns DEF SwitchPcs
  <2>2. Revived(i) \subseteq Site /\ (~caddy.up => Revived(i) = builtin \cup {i}) /\ Of("site", {i}) \subseteq Fragment
    BY <1>2, <2>1, RevivedIs, OfTyped
  <2>3. WorldTyped'
    <3>1. frag' \subseteq Fragment /\ builtin' \subseteq Site
      BY <1>2, <1>6, <2>2 DEF WorldTyped
    <3>2. caddy' \in [up : BOOLEAN, loaded : SUBSET Fragment] /\ main' \subseteq Fragment
      <4>1. CASE UNCHANGED <<caddy, main>>
        BY <1>2, <4>1 DEF WorldTyped
      <4>2. CASE main' = frag' /\ caddy' = [up |-> TRUE, loaded |-> frag']
        BY <3>1, <4>2
      <4> QED BY <1>6, <4>1, <4>2
    <3> QED BY <1>1, <1>2, <3>1, <3>2 DEF WorldTyped
  <2>4. NameGoals(w)'
    BY <1>1, <1>2, <2>1 DEF NameGoals, NamesOf, Deep, Agreed, Turned
  <2>5. Clean => caddy' = caddy /\ builtin' = builtin \cup {i}
    BY <1>4, <1>6, <2>2
  <2>6. Clean => PlanOf(w)' /\ ServeOf(w)'
    BY <1>1, <1>4, <2>1, <2>5 DEF PlanOf, ServeOf, Turned
  <2>7. ServeGoals(w)'
    BY <1>1, <1>3, <1>4, <1>6, <2>1, <2>6, GatewayMarks DEF ServeGoals, Deep, Turned, PlanOf
  <2> QED BY <1>1, <1>3, <2>1, <2>3, <2>4, <2>7, TurnKeeps
<1>7. CASE Answers(w, "degraded") /\ UNCHANGED servers
  BY <1>7, <1>1, <1>2, <1>4, AnswerKeeps DEF servers, NameGoals, NamesOf
<1> QED BY <1>5, <1>6, <1>7 DEF Reenable

(* A step of the start that is under way. *)
LEMMA BootKeeps ==
    ASSUME SwitchInv, UNCHANGED <<backend, frag, man, row, running, op, sw, ggh>>, WorldTyped', boot' \in BootKind,
           boot'.by = boot.by, boot.pc # "none",
           Of("site", running) \subseteq frag /\ BootHolds => BootHolds'
    PROVE  SwitchInv'
<1>1. SwitchControl /\ SwitchNames /\ SwitchServing
  BY DEF SwitchInv
<1>2. boot.by # NoOne
  BY <1>1 DEF SwitchControl, NoBoot
<1>3. SwitchTyped'
  BY <1>1 DEF SwitchControl, SwitchTyped, GatewayTypeOK, WorldTyped, BootKind
<1>4. SwitchControl'
  BY <1>1, <1>2, <1>3 DEF SwitchControl, Holds
<1>5. SwitchNames'
  BY <1>1 DEF SwitchNames, NamesOf, Agreed, Locked, Deep
<1>6. (Clean' <=> Clean) /\ (FragsHold' <=> FragsHold) /\ (Busy' <=> Busy) /\ \A v \in Switcher : Deep(v)' <=> Deep(v)
  BY FragsSame DEF Clean, Deep
<1>7. ASSUME boot.by = "on" PROVE SwitchServing'
  BY <1>1, <1>6, <1>7 DEF SwitchServing
<1>8. ASSUME NEW w \in Switcher, boot.by = w PROVE SwitchServing'
  BY <1>1, <1>8, HolderAlone, FragsEasy, GatewayMarks, <1>6 DEF SwitchControl, Deep, Holds,
         SwitchServing, ServeOf, PlanOf
<1>9. boot.by \in Switcher \cup {"on", NoOne}
  BY <1>1, SwitchKinds DEF BootKind
<1> QED BY <1>2, <1>4, <1>5, <1>7, <1>8, <1>9 DEF SwitchInv

LEMMA BootGoes ==
    ASSUME SwitchControl, NEW pc \in BootPcs, BootEnds(pc)
    PROVE  boot' \in BootKind /\ boot'.by = boot.by /\ boot'.pc = pc
BY SwitchKinds DEF BootEnds, BootKind

LEMMA BootStopsKeeps ==
    ASSUME SwitchInv, BootStops
    PROVE  SwitchInv'
BY SwitchKinds, BootKeeps DEF BootStops, siteVars, SwitchInv, WorldTyped, BootKind, BootPcs,
       BootHolds

LEMMA CaddyStartsKeeps ==
    ASSUME SwitchInv, CaddyStarts
    PROVE  SwitchInv'
<1>1. boot.pc = "start" /\ UNCHANGED <<backend, enabled, frag, main, man, row, running, config, op, sw, ggh>>
  BY DEF CaddyStarts, siteVars
<1>2. SwitchControl /\ WorldTyped
  BY SwitchKinds DEF SwitchInv, WorldTyped
<1>3. CASE caddy.up /\ BootEnds("tls") /\ UNCHANGED <<caddy, builtin>>
  BY <1>1, <1>2, <1>3, SameWorld, BootGoes, BootKeeps DEF BootPcs, BootHolds
<1>4. CASE /\ ~PortsHeld(main) /\ caddy' = [up |-> TRUE, loaded |-> main]
           /\ BootEnds(IF boot.stopped = {} THEN "tls" ELSE "reload") /\ UNCHANGED builtin
  BY <1>4, <1>2, BootGoes, <1>1, OfHas, BootKeeps DEF BootPcs, WorldTyped, BootHolds, PortsHeld,
         CaddyServes
<1>5. CASE builtin' = BroughtBack /\ BootEnds("failed") /\ UNCHANGED caddy
  BY <1>2, <1>5, BootGoes, SwitchKinds, <1>1, BootKeeps DEF BootPcs, BootKind, WorldTyped,
         BroughtBack, BootHolds
<1> QED BY <1>3, <1>4, <1>5 DEF CaddyStarts

LEMMA BootReloadsKeeps ==
    ASSUME SwitchInv, BootReloads
    PROVE  SwitchInv'
BY SwitchKinds, BootGoes, BootKeeps, SameWorld DEF BootReloads, siteVars, SwitchInv, WorldTyped,
       BootPcs, BootHolds, CaddyServes

LEMMA BootStepKeeps ==
    ASSUME SwitchInv, BootStep
    PROVE  SwitchInv'
<1>1. SwitchControl /\ WorldTyped
  BY SwitchKinds DEF SwitchInv, WorldTyped
<1>2. CASE BootIntent
  BY <1>2, <1>1, BootGoes, BootKeeps DEF BootIntent, servers, siteVars, BootPcs, WorldTyped,
         BootHolds
<1>3. CASE BootVerifies
  BY <1>3, <1>1, BootGoes, SameWorld, BootKeeps DEF BootVerifies, servers, siteVars, BootPcs,
         BootHolds, CaddyServes
<1> QED BY <1>2, <1>3, BootStopsKeeps, CaddyStartsKeeps, BootReloadsKeeps DEF BootStep

(* No site but one that is excepted gets another name than the backend.     *)
NamesKept ==
    \A i \in Site : \/ i \in ggh'.old
                    \/ man'[i] = backend /\ row'[i] = backend
                    \/ i \notin ggh.old /\ man'[i] = man[i] /\ row'[i] = row[i]

LEMMA NamesSame == ASSUME UNCHANGED <<man, row>>, ggh'.old = ggh.old PROVE NamesKept
BY DEF NamesKept

(* Another command: no switch moves, and what named the backend names it.   *)
LEMMA OtherKeeps ==
    ASSUME SwitchInv, UNCHANGED <<backend, sw>>, WorldTyped', ggh' \in GhostKind, ggh'.torn = ggh.torn,
           boot' \in BootKind, boot'.by = NoOne
               => boot' = NoBoot, \A v \in Switcher : boot'.by = v <=> boot.by = v,
           NamesKept,
           Clean' => /\ Clean /\ (\A v \in Switcher : ~Deep(v)) /\ FragsHold'
                     /\ (boot'.by = "on" => backend = "caddy") /\ (backend = "builtin" => ~caddy'.up)
    PROVE  SwitchInv'
<1>1. SwitchControl /\ SwitchNames /\ SwitchServing
  BY DEF SwitchInv
<1>2. SwitchTyped'
  BY <1>1 DEF SwitchControl, SwitchTyped, GatewayTypeOK, WorldTyped, BootKind
<1>3. SwitchControl'
  BY <1>1, <1>2 DEF SwitchControl, Holds
<1>4. \A v \in Switcher : NamesOf(v) => NamesOf(v)'
  BY DEF Agreed, NamesKept, Deep, NamesOf
<1>5. SwitchNames'
  BY <1>1, <1>4 DEF Agreed, NamesKept, SwitchNames, Locked
<1>6. SwitchServing'
  BY DEF SwitchServing, Deep
<1> QED BY <1>3, <1>5, <1>6 DEF SwitchInv

LEMMA OverlapGhost ==
    ASSUME SwitchControl, NEW x \in BOOLEAN, ggh' = [ggh EXCEPT !.overlap = @ \/ x]
    PROVE  ggh' \in GhostKind /\ ggh'.torn = ggh.torn /\ ggh'.old = ggh.old /\ (Clean' => Clean /\ ~x)
BY SwitchKinds DEF GhostKind, Clean

LEMMA OtherGhost ==
    ASSUME SwitchInv, Other
    PROVE  /\ ggh' \in GhostKind /\ ggh'.torn = ggh.torn /\ ggh'.old = ggh.old
           /\ Clean' => Clean /\ (\A v \in Switcher : ~Deep(v)) /\ FragsHold
                        /\ (boot.by = "on" => backend = "caddy") /\ (backend = "builtin" => ~caddy.up)
BY OverlapGhost DEF Other, Locked, SwitchInv, Deep, SwitchServing

LEMMA GatewayOnKeeps ==
    ASSUME SwitchInv, GatewayOn
    PROVE  SwitchInv'
BY NoBootKind, SwitchKinds, FragsSame, OtherGhost, NamesSame, OtherKeeps, GatewayMarks
   DEF GatewayOn, servers, siteVars, Begins, SwitchInv, WorldTyped

LEMMA GatewayOnReturnsKeeps ==
    ASSUME SwitchInv, GatewayOnReturns
    PROVE  SwitchInv'
<1>1. /\ boot.by = "on" /\ boot' = NoBoot
      /\ UNCHANGED <<backend, enabled, caddy, frag, main, builtin, man, row, running, config, op, sw, ggh>>
  BY DEF GatewayOnReturns, Booted, Released, servers, siteVars
<1>2. SwitchControl /\ SwitchServing
  BY DEF SwitchInv
<1>3. WorldTyped' /\ ggh' \in GhostKind /\ (Clean' => Clean)
  BY <1>1, <1>2, SwitchKinds DEF WorldTyped, Clean
<1>4. Clean => (\A v \in Switcher : ~Deep(v)) /\ FragsHold' /\ backend = "caddy"
  BY <1>1, <1>2, FragsSame DEF SwitchServing
<1>5. NamesKept
  BY <1>1, NamesSame
<1> QED BY <1>1, <1>3, <1>4, <1>5, NoBootKind, OtherKeeps, GatewayMarks

LEMMA GatewayOffKeeps ==
    ASSUME SwitchInv, GatewayOff
    PROVE  SwitchInv'
BY OverlapGhost, SwitchKinds, FragsSame, NoBootKind, GatewayMarks, NamesSame, OtherKeeps
   DEF GatewayOff, siteVars, SwitchInv, Locked, Stopped, WorldTyped, Deep, SwitchServing,
       SwitchControl

(* A command that holds the lock of its site. *)
LEMMA OpIsOfKind ==
    ASSUME SwitchControl, NEW i \in Site
    PROVE  /\ op[i].pc \in {"idle", "taken", "save"} /\ op[i].does \in {"start", "stop"}
           /\ op[i].b \in Backend /\ op[i].m \in Backend /\ NoOp \in OpKind /\ NoOp.pc = "idle"
BY SwitchKinds DEF OpKind, NoOp, Backend

LEMMA BusyAlone ==
    ASSUME SwitchInv, NEW i \in Site, op[i].pc # "idle", Clean
    PROVE  /\ \A v \in Switcher : ~Deep(v)
           /\ FragsHold /\ (boot.by = "on" => backend = "caddy") /\ (backend = "builtin" => ~caddy.up)
BY OpIsOfKind DEF Busy, SwitchInv, SwitchServing

(* What a step does to the command of one site. *)
LEMMA OpTurns ==
    ASSUME SwitchControl, NEW i \in Site, NEW d \in OpKind, op' = [op EXCEPT ![i] = d]
    PROVE  op' \in [Site -> OpKind] /\ op'[i] = d /\ \A j \in Site \ {i} : op'[j] = op[j]
BY SwitchKinds

LEMMA TakesSiteKeeps ==
    ASSUME SwitchInv, NEW i \in Site, NEW does \in {"start", "stop"}, TakesSite(i, does)
    PROVE  SwitchInv'
BY SwitchKinds, OpTurns, OpIsOfKind, OtherGhost, NamesSame, OtherKeeps DEF TakesSite, servers,
       SwitchInv, WorldTyped, OpKind, FragsHold, FragsOf, Saves, SwitchControl

(* The command works at the gateway. *)
LEMMA WorksKeeps ==
    ASSUME SwitchInv, NEW i \in Site, NEW does \in {"start", "stop"}, Works(i, does), NEW d \in OpKind,
           op' = [op EXCEPT ![i] = d], WorldTyped', FragsHold => FragsHold',
           op[i].b = "builtin" => caddy'.up = caddy.up
    PROVE  SwitchInv'
BY SwitchKinds, BusyAlone, NamesSame, OtherKeeps DEF Works, SwitchInv, GhostKind, Clean,
       SwitchControl

LEMMA CaddyOfKind ==
    ASSUME NEW f \in SUBSET Fragment, NEW u \in BOOLEAN
    PROVE  [up |-> u, loaded |-> f] \in [up : BOOLEAN, loaded : SUBSET Fragment]
OBVIOUS

LEMMA EnableSiteKeeps ==
    ASSUME SwitchInv, NEW i \in Site, EnableSite(i)
    PROVE  SwitchInv'
<1> DEFINE more == Of("site", {i}) \cup (IF op[i].b = "caddy"
    THEN Of("alias", Aliased \cap {i}) ELSE {})
           d == [op[i] EXCEPT !.pc = "save"]
           f == frag'
<1>1. /\ Works(i, "start") /\ op[i].pc = "taken" /\ op[i].does = "start" /\ frag' = frag \cup more
      /\ op' = [op EXCEPT ![i] = d]
      /\ UNCHANGED <<backend, enabled, man, row, running, config, sw, boot>>
  BY DEF EnableSite, Works
<1>2. SwitchControl /\ WorldTyped
  BY SwitchKinds DEF SwitchInv, WorldTyped
<1>3. more \subseteq Fragment /\ <<"site", i>> \in more
  BY OfTyped, OfHas, GatewayMarks
<1> HIDE DEF more
<1>4. d \in OpKind /\ d.pc = "save" /\ d.does = "start"
  BY <1>1, <1>2 DEF WorldTyped, OpKind
<1> HIDE DEF d
<1>5. op' \in [Site -> OpKind] /\ op'[i] = d /\ \A j \in Site \ {i} : op'[j] = op[j]
  BY <1>1, <1>2, <1>4, OpTurns
<1>6. \/ /\ op[i].b = "builtin" /\ builtin' = Revived(i) /\ UNCHANGED <<caddy, main>>
      \/ /\ op[i].b # "builtin" /\ builtin' = builtin \ {i} /\ main' = frag'
         /\ caddy' = [up |-> TRUE, loaded |-> frag']
  BY DEF EnableSite
<1>7. frag' \subseteq Fragment /\ builtin' \subseteq Site
  BY <1>1, <1>2, <1>3, <1>6, RevivedIs DEF WorldTyped
<1>8. f \in SUBSET Fragment /\ frag' = f
  BY <1>7
<1> HIDE DEF f
<1>9. caddy' \in [up : BOOLEAN, loaded : SUBSET Fragment] /\ main' \subseteq Fragment
  BY <1>2, <1>6, <1>8, CaddyOfKind DEF WorldTyped
<1>10. WorldTyped'
  BY <1>1, <1>2, <1>5, <1>7, <1>9 DEF WorldTyped
<1>11. FragsHold => FragsHold'
  BY <1>1, <1>3, <1>4, <1>5 DEF FragsHold, FragsOf, Saves
<1> QED BY <1>1, <1>4, <1>6, <1>10, <1>11, WorksKeeps

LEMMA DisableSiteKeeps ==
    ASSUME SwitchInv, NEW i \in Site, DisableSite(i)
    PROVE  SwitchInv'
<1> DEFINE d == [op[i] EXCEPT !.pc = "save", !.m = man[i]]
           f == frag'
<1>1. /\ Works(i, "stop") /\ op[i].pc = "taken" /\ op[i].does = "stop" /\ frag' = frag \ ({"site", "alias"} \X {i})
      /\ op' = [op EXCEPT ![i].pc = "save", ![i].m = man[i]]
      /\ UNCHANGED <<backend, enabled, man, row, running, config, sw, boot>>
  BY DEF DisableSite, Works
<1>2. SwitchControl /\ WorldTyped
  BY SwitchKinds DEF SwitchInv, WorldTyped
<1>3. d \in OpKind /\ d.pc = "save" /\ d.does = "stop" /\ op' = [op EXCEPT ![i] = d]
  BY <1>1, <1>2 DEF WorldTyped, OpKind
<1> HIDE DEF d
<1>4. op' \in [Site -> OpKind] /\ op'[i] = d /\ \A j \in Site \ {i} : op'[j] = op[j]
  BY <1>2, <1>3, OpTurns
<1>5. /\ builtin' \subseteq builtin /\ main' \in {main, frag'}
      /\ caddy' = caddy \/ (op[i].b # "builtin" /\ caddy.up /\ caddy' = [caddy EXCEPT !.loaded = frag'])
  BY DEF DisableSite
<1>6. f \in SUBSET Fragment /\ frag' = f
  BY <1>1, <1>2 DEF WorldTyped
<1> HIDE DEF f
<1>7. caddy' \in [up : BOOLEAN, loaded : SUBSET Fragment] /\ main' \subseteq Fragment
  BY <1>2, <1>5, <1>6 DEF WorldTyped
<1>8. WorldTyped'
  BY <1>1, <1>2, <1>4, <1>5, <1>6, <1>7 DEF WorldTyped
<1>9. FragsHold => FragsHold'
  BY <1>3, <1>4, <1>1 DEF FragsHold, FragsOf, Saves
<1> QED BY <1>1, <1>3, <1>5, <1>8, <1>9, WorksKeeps

LEMMA SaveSiteKeeps ==
    ASSUME SwitchInv, NEW i \in Site, SaveSite(i)
    PROVE  SwitchInv'
<1>1. /\ op[i].pc = "save" /\ op' = [op EXCEPT ![i] = NoOp]
      /\ man' = [man EXCEPT ![i] = op[i].m] /\ row' = [row EXCEPT ![i] = op[i].m]
      /\ running' = (IF op[i].does = "start" THEN running \cup {i} ELSE running \ {i})
      /\ UNCHANGED <<backend, enabled, caddy, frag, main, builtin, config, sw, boot>>
  BY DEF SaveSite, servers
<1>2. SwitchControl /\ WorldTyped /\ ggh \in GhostKind
  BY SwitchKinds DEF SwitchInv, WorldTyped
<1>3. /\ op[i].does \in {"start", "stop"} /\ op[i].m \in Backend /\ NoOp \in OpKind /\ NoOp.pc = "idle"
  BY <1>2, OpIsOfKind
<1>4. op' \in [Site -> OpKind] /\ op'[i] = NoOp /\ \A j \in Site \ {i} : op'[j] = op[j]
  BY <1>1, <1>2, <1>3, OpTurns
<1>5. /\ man' \in [Site -> Backend] /\ row' \in [Site -> Backend] /\ man'[i] = op[i].m /\ row'[i] = op[i].m
      /\ \A j \in Site \ {i} : man'[j] = man[j] /\ row'[j] = row[j]
  BY <1>1, <1>2, <1>3 DEF WorldTyped
<1>6. WorldTyped'
  BY <1>1, <1>2, <1>4, <1>5 DEF WorldTyped
<1> DEFINE o == IF op[i].m = backend THEN ggh.old \ {i} ELSE ggh.old \cup {i}
<1>7. o \in SUBSET Site /\ ggh' = [ggh EXCEPT !.old = o]
  BY <1>2 DEF SaveSite, GhostKind
<1>14. \/ op[i].m = backend /\ \A j \in Site : j \in o <=> j \in ggh.old /\ j # i
       \/ op[i].m # backend /\ \A j \in Site : j \in o <=> j \in ggh.old \/ j = i
  OBVIOUS
<1> HIDE DEF o
<1>8. \A j \in Site : \/ j \in o
                      \/ man'[j] = backend /\ row'[j] = backend
                      \/ j \notin ggh.old /\ man'[j] = man[j] /\ row'[j] = row[j]
  BY <1>5, <1>14
<1>9. ggh' \in GhostKind /\ ggh'.torn = ggh.torn /\ ggh'.old = o /\ (Clean' <=> Clean)
  BY <1>2, <1>7 DEF GhostKind, Clean
<1>10. FragsHold => FragsHold'
  BY <1>1, <1>3, <1>4 DEF FragsHold, FragsOf, Saves
<1>11. boot' \in BootKind /\ (boot'.by = NoOne => boot' = NoBoot)
  BY <1>1, <1>2, SwitchKinds DEF SwitchControl
<1>12. Clean' => /\ Clean /\ (\A v \in Switcher : ~Deep(v)) /\ FragsHold'
                 /\ (boot'.by = "on" => backend = "caddy") /\ (backend = "builtin" => ~caddy'.up)
  BY <1>1, <1>9, <1>10, BusyAlone
<1>13. NamesKept
  BY <1>8, <1>9 DEF NamesKept
<1> QED BY <1>1, <1>6, <1>9, <1>11, <1>12, <1>13, OtherKeeps

LEMMA SiteFailsKeeps ==
    ASSUME SwitchInv, NEW i \in Site, SiteFails(i)
    PROVE  SwitchInv'
BY SwitchKinds, OpIsOfKind, OpTurns, BusyAlone, NamesSame, OtherKeeps DEF SiteFails, servers,
       SwitchInv, WorldTyped, FragsHold, FragsOf, Saves, SwitchControl, Clean

(* Nothing changes but the configuration a process holds. *)
LEMMA SameKeeps ==
    ASSUME SwitchInv, config' \in [Resident -> Backend],
           UNCHANGED <<backend, enabled, caddy, frag, main, builtin, man, row, running, op, sw, boot, ggh>>
    PROVE  SwitchInv'
<1>2. SwitchControl /\ SwitchNames /\ SwitchServing
  BY DEF SwitchInv
<1>3. SwitchControl'
  BY <1>2 DEF SwitchControl, SwitchTyped, GatewayTypeOK, Holds
<1>4. SwitchNames'
  BY <1>2 DEF SwitchNames, NamesOf, Agreed, Locked, Deep
<1>5. \A w \in Switcher : Deep(w)' <=> Deep(w)
  BY DEF Deep
<1>6. \A w \in Switcher : PlanOf(w) => PlanOf(w)'
  BY DEF PlanOf
<1>7. \A w \in Switcher : ServeOf(w) => ServeOf(w)'
  BY DEF ServeOf, BootHolds, CaddyServes
<1>8. SwitchServing'
  BY <1>2, <1>5, <1>6, <1>7, FragsSame DEF SwitchServing, Clean
<1> QED BY <1>3, <1>4, <1>8 DEF SwitchInv

LEMMA ReloadsKeeps ==
    ASSUME SwitchInv, NEW p \in Resident, Reloads(p)
    PROVE  SwitchInv'
BY SwitchKinds, SameKeeps DEF SwitchInv, Reloads, servers

LEMMA SwitchStarts == GatewayInit => SwitchInv
<1> SUFFICES ASSUME GatewayInit PROVE SwitchInv
  OBVIOUS
<1> DEFINE more == IF backend = "caddy" THEN Of("alias", Aliased \cap running) ELSE {}
<1>1. /\ backend \in Backend /\ running \subseteq Site /\ enabled = (backend = "caddy")
      /\ frag = Of("site", running) \cup more
      /\ caddy = (IF backend = "caddy" THEN [up |-> TRUE, loaded |-> frag] ELSE Stopped)
      /\ main = caddy.loaded /\ builtin = (IF backend = "caddy" THEN {} ELSE running)
      /\ man = [i \in Site |-> backend] /\ row = man
      /\ sw = [w \in Switcher |-> NoSwitch] /\ boot = NoBoot
      /\ ggh = [overlap |-> FALSE, stuck |-> FALSE, torn |-> FALSE, stale |-> FALSE, old |-> {}]
      /\ config = [p \in Resident |-> backend] /\ op = [i \in Site |-> NoOp]
  BY DEF GatewayInit
<1>2. more \subseteq Fragment /\ Of("site", running) \subseteq Fragment
  BY <1>1, OfTyped, GatewayMarks
<1> HIDE DEF more
<1>3. frag \subseteq Fragment /\ Of("site", running) \subseteq frag
  BY <1>1, <1>2
<1>4. caddy \in [up : BOOLEAN, loaded : SUBSET Fragment] /\ (backend = "builtin" => ~caddy.up)
  BY <1>1, <1>3 DEF Stopped
<1>5. main \subseteq Fragment /\ builtin \subseteq Site /\ enabled \in BOOLEAN
  BY <1>1, <1>4
<1>6. boot \in BootKind /\ boot.by = NoOne /\ ggh \in GhostKind /\ op \in [Site -> OpKind] /\ ~Busy
  BY <1>1, NoBootKind DEF GhostKind, OpKind, NoOp, Backend, Busy
<1>7. sw \in [Switcher -> SwitchKind] /\ \A w \in Switcher : sw[w].pc = "idle"
  BY <1>1, NoSwitchKind
<1>8. SwitchTyped
  BY <1>1, <1>3, <1>4, <1>5, <1>6, <1>7 DEF SwitchTyped, GatewayTypeOK
<1>9. SwitchControl
  BY <1>1, <1>6, <1>7, <1>8, GatewayMarks DEF SwitchControl, Holds
<1>10. SwitchNames
  BY <1>1, <1>7 DEF SwitchNames, NamesOf, Agreed, Deep
<1>11. SwitchServing
  BY <1>3, <1>4, <1>6, <1>7, <1>9, FragsEasy, GatewayMarks DEF SwitchServing, Deep
<1> QED BY <1>9, <1>10, <1>11 DEF SwitchInv

LEMMA SwitchStays == SwitchInv /\ UNCHANGED gatewayVars => SwitchInv'
<1> SUFFICES ASSUME SwitchInv, UNCHANGED gatewayVars PROVE SwitchInv'
  OBVIOUS
<1>1. config' \in [Resident -> Backend]
  BY SwitchKinds DEF SwitchInv, gatewayVars
<1> QED BY <1>1, SameKeeps DEF gatewayVars

LEMMA SwitchKeeps == SwitchInv /\ [GatewayNext]_gatewayVars => SwitchInv'
<1> SUFFICES ASSUME SwitchInv, [GatewayNext]_gatewayVars PROVE SwitchInv'
  OBVIOUS
<1>1. ASSUME NEW w \in Switcher, SwitchStep(w) PROVE SwitchInv'
  BY <1>1, BeginSwitchKeeps, TakeLockKeeps, TakeSnapshotKeeps, StopCaddyKeeps, WriteYamlKeeps,
     EnableBuiltinKeeps,
     CallStartKeeps, StartReturnsKeeps, RebuildAliasesKeeps, SyncManifestsKeeps, AccessPassKeeps, UndoStepKeeps,
     StopAgainKeeps, ReenableKeeps, RestartReturnsKeeps, ReviewKeeps, SwitchDiesKeeps
  DEF SwitchStep
<1>2. CASE OtherStep
  BY TakesSiteKeeps, <1>2, GatewayOnKeeps, GatewayOnReturnsKeeps, GatewayOffKeeps,
     EnableSiteKeeps, DisableSiteKeeps, SaveSiteKeeps, SiteFailsKeeps, ReloadsKeeps DEF StartSite,
         StopSite, OtherStep
<1> QED BY <1>1, <1>2, SwitchStays, BootStepKeeps DEF GatewayNext

(* The answer of a switch, in the state it is given in. *)
LEMMA AnswerIsTrue ==
    ASSUME SwitchInv, [GatewayNext]_gatewayVars, NEW w \in Switcher, sw[w].pc \in {"access", "review"},
           sw'[w].answer \in {"ok", "back"}, Clean
    PROVE  /\ \A i \in running : Served(i, backend)
           /\ caddy.up = (backend = "caddy")
           /\ sw'[w].answer = "ok" => enabled = (backend = "caddy")
           /\ sw'[w].answer = "ok" /\ backend = "caddy" => Of("alias", Aliased) \subseteq caddy.loaded
<1>1. Holds(w) /\ Deep(w)
  BY DEF Holds, Deep
<1>2. /\ SwitchControl /\ NameGoals(w) /\ ServeGoals(w) /\ WorldTyped /\ sw[w].answer = "none"
      /\ \A v \in Switcher \ {w} : sw[v].pc \in {"idle", "lock"}
  BY <1>1, HolderKnows, HolderAlone
<1>3. sw \in [Switcher -> SwitchKind] /\ sw[w] \in SwitchKind
  BY <1>2, SwitchKinds
<1>4. ASSUME NEW a, Answers(w, a) PROVE sw'[w].answer = a
  BY <1>3, <1>4 DEF Answers, NoSwitch
<1>5. sw' # sw
  BY <1>2
<1>6. ASSUME NEW v \in Switcher, v # w, SwitchStep(v) PROVE FALSE
  <2>1. sw[v].pc \in {"idle", "lock"} /\ sw[v] \in SwitchKind
    BY <1>2, <1>3, <1>6
  <2>2. (\E b \in Backend : BeginSwitch(v, b)) \/ TakeLock(v) \/ SwitchDies(v)
    BY <1>6, <2>1 DEF SwitchStep, TakeSnapshot, StopCaddy, WriteYaml, EnableBuiltin, CallStart,
       StartReturns,
       RebuildAliases, SyncManifests, AccessPass, Undo, StopAgain, Reenable, RestartReturns, Review
  <2>3. sw'[w] = sw[w]
    BY <1>3, <1>6, <2>2 DEF BeginSwitch, TakeLock, SwitchDies, Goes, Answers
  <2> QED BY <1>2, <2>3
<1>7. SwitchStep(w)
  <2>1. ~BootStep
    BY <1>5 DEF BootStep, BootStops, BootIntent, CaddyStarts, BootReloads, BootVerifies
  <2>2. ~OtherStep
    BY <1>5 DEF OtherStep, GatewayOn, GatewayOnReturns, GatewayOff, StartSite, StopSite,
       TakesSite, EnableSite,
       DisableSite, Works, SaveSite, SiteFails, Reloads
  <2> QED BY <1>5, <1>6, <2>1, <2>2 DEF GatewayNext, gatewayVars
<1>8. CASE sw[w].pc = "access"
  <2>1. AccessPass(w) \/ SwitchDies(w)
    BY <1>7, <1>8 DEF SwitchStep, BeginSwitch, TakeLock, TakeSnapshot, StopCaddy, WriteYaml,
       EnableBuiltin, CallStart,
       StartReturns, RebuildAliases, SyncManifests, Undo, StopAgain, Reenable, RestartReturns, Review
  <2>2. ~Fails(w)
    BY <1>2, FailsTurns DEF Turned
  <2>3. sw'[w].answer = "ok"
    BY <1>4, <2>1, <2>2 DEF AccessPass, SwitchDies
  <2>4. backend = sw[w].to /\ sw[w].to \in Backend
    BY <1>2, <1>8, SwitchOfKind DEF NameGoals, NamesOf, Clean
  <2>5. ServeOf(w)
    BY <1>1, <1>2 DEF ServeGoals
  <2>6. CASE backend = "caddy"
    BY <1>8, <2>4, <2>5, <2>6, OfHas, <1>2 DEF ServeOf, CaddyServes, Served, WorldTyped
  <2>7. CASE backend = "builtin"
    BY <1>8, <2>4, <2>5, <2>7, <1>2 DEF ServeOf, Served, WorldTyped
  <2> QED BY <2>4, <2>6, <2>7 DEF Backend
<1>9. CASE sw[w].pc = "review"
  <2>1. Review(w) \/ SwitchDies(w)
    BY <1>7, <1>9 DEF SwitchStep, BeginSwitch, TakeLock, TakeSnapshot, StopCaddy, WriteYaml,
       EnableBuiltin, CallStart,
       StartReturns, RebuildAliases, SyncManifests, Undo, StopAgain, Reenable, RestartReturns, AccessPass
  <2>2. sw'[w].answer = "back" /\ \A i \in running : Reachable(i)
    BY <1>4, <2>1 DEF Review, SwitchDies
  <2>3. ServeOf(w)
    BY <1>1, <1>2 DEF ServeGoals
  <2>4. \/ backend = "caddy" /\ caddy.up /\ running \cap builtin = {}
        \/ backend = "builtin" /\ ~caddy.up /\ running \subseteq builtin
    BY <1>9, <2>3 DEF ServeOf
  <2>5. \A i \in running : Served(i, backend)
    BY <2>2, <2>4 DEF Served, Reachable
  <2> QED BY <1>2, <2>2, <2>4, <2>5 DEF WorldTyped
<1> QED BY <1>8, <1>9

LEMMA SwitchAnswers ==
    ASSUME SwitchInv, [GatewayNext]_gatewayVars
    PROVE  [\A w \in Switcher :
             sw[w].pc \in {"access", "review"} /\ sw'[w].answer \in {"ok", "back"}
                /\ ~ggh.overlap /\ ~ggh.stuck /\ ~ggh.torn /\ ~ggh.stale =>
             /\ \A i \in running : Served(i, backend)
             /\ caddy.up = (backend = "caddy")
             /\ sw'[w].answer = "ok" => enabled = (backend = "caddy")
             /\ sw'[w].answer = "ok" /\ backend = "caddy"
                  => Of("alias", Aliased) \subseteq caddy.loaded]_gatewayVars
BY AnswerIsTrue DEF Clean

LEMMA SwitchInvNames == SwitchInv => GatewayTypeOK /\ OneBackendNamed
BY DEF SwitchInv, SwitchControl, SwitchTyped, SwitchNames, OneBackendNamed, Agreed

(* The invariant of a switch: at each step of it, what names the backend    *)
(* names the one the step says, and its snapshot names the old one          *)
(* (_restore_snapshot); as long as nothing crossed it, Caddy and the        *)
(* built-in servers are as far as the step says, in the switch, in the      *)
(* start_gateway it calls and in its undoing.                               *)
THEOREM SwitchInvariant == GatewaySpec => []SwitchInv
<1>1. GatewayInit => SwitchInv
  BY SwitchStarts
<1>2. SwitchInv /\ [GatewayNext]_gatewayVars => SwitchInv'
  BY SwitchKeeps
<1> QED BY <1>1, <1>2, PTL DEF GatewaySpec

(* When no switch is under way config.yml, manifests and rows name one      *)
(* backend, and a switch that answers "done" or "as before" says the truth  *)
(* of every running site (gateway_switch.py, start_gateway, stop_gateway):  *)
(* for any sites, aliases, processes, failures and other commands.          *)
THEOREM SwitchStaysSafe == GatewaySpec => SwitchIsSafe
<1>1. SwitchInv => GatewayTypeOK /\ OneBackendNamed
  BY SwitchInvNames
<1>2. SwitchInv /\ [GatewayNext]_gatewayVars =>
        [\A w \in Switcher :
             sw[w].pc \in {"access", "review"} /\ sw'[w].answer \in {"ok", "back"}
                /\ ~ggh.overlap /\ ~ggh.stuck /\ ~ggh.torn /\ ~ggh.stale =>
             /\ \A i \in running : Served(i, backend)
             /\ caddy.up = (backend = "caddy")
             /\ sw'[w].answer = "ok" => enabled = (backend = "caddy")
             /\ sw'[w].answer = "ok" /\ backend = "caddy"
                  => Of("alias", Aliased) \subseteq caddy.loaded]_gatewayVars
  BY SwitchAnswers
<1> QED BY <1>1, <1>2, SwitchInvariant, PTL DEF GatewaySpec, SwitchIsSafe, SwitchServes

(***************************************************************************)
(* Path aliases.                                                           *)
(***************************************************************************)

AskPcs    == {"idle", "write", "reload", "verify", "save", "row"}
OfStartPcs  == {"idle", "sync", "verify"}
WishPcs   == {"none", "look", "wish", "asked", "refused"}
Asker     == Finisher \cup {"user"}
AskKind   == [pc : AskPcs, on : Inst \cup {"nobody"}, to : MaybeSlug, by : Asker,
              m : AliasFields, had : MaybeSlug, guard : Guard]
StartKind == [pc : OfStartPcs, m : AliasFields, pre : BOOLEAN, last : BOOLEAN]
WishKind  == [pc : WishPcs, on : Inst \cup {"nobody"}, m : AliasFields]
GlanceKind == [on : AliasSite \cup {"nobody"}, m : AliasFields]
AliasGhost == [asked : [Inst -> SUBSET Slug], once : [Inst -> MaybeSlug], loose : SUBSET Inst]

AliasTyped ==
    /\ aman \in [Inst -> AliasFields]
    /\ arow \in [Inst -> MaybeSlug] /\ aconf \in [Inst -> MaybeSlug]
    /\ aloaded \in [Inst -> MaybeSlug]
    /\ up \in [Inst -> BOOLEAN] /\ acaddy \in BOOLEAN
    /\ ask \in AskKind /\ start \in [Inst -> StartKind]
    /\ wish \in [Finisher -> WishKind] /\ glance \in GlanceKind /\ agh \in AliasGhost

AskOn(i) == ask.pc # "idle" /\ ask.on = i

(* Where a command and a start are, whatever happened to the instance: one   *)
(* of them at most holds its lock.                                           *)
AskHasOne == IF ask.pc = "idle" THEN ask.on = "nobody" ELSE ask.on \in Inst
WishesGo ==
    /\ \A f \in Finisher : wish[f].pc # "none" => wish[f].on \in Inst
    /\ ask.pc # "idle" /\ ask.by # "user" => wish[ask.by].pc = "asked"
AskGoes(i) ==
    /\ AskOn(i) => start[i].pc = "idle"
    /\ AskOn(i) /\ ask.pc \in {"reload", "verify"} => up[i]
    /\ AskOn(i) /\ ask.pc = "verify" => ask.to # NoSlug
StartGoes(i) == start[i].pc # "idle" \/ aconf[i] # NoSlug => up[i]

(* How the places agree on an instance that is not loose: the registry with  *)
(* the manifest, the command and the start with both, the fragment with one. *)
RowFits(i) == (AskOn(i) => ask.pc # "row") => arow[i] = aman[i].alias
CopyFits(i, m) ==
    /\ m.alias = aman[i].alias /\ m.desired = aman[i].desired
    /\ agh.once[i] = m.alias /\ m.alias # NoSlug => m.verified = m.alias
AskFits(i) ==
    AskOn(i) =>
        /\ ask.pc \in {"write", "reload", "verify"} => CopyFits(i, ask.m)
        /\ ask.pc = "save" => ask.m.alias = aman[i].alias
        /\ IF ask.pc = "row" THEN ask.to = aman[i].alias ELSE ask.to # aman[i].alias
StartFits(i) == start[i].pc # "idle" => CopyFits(i, start[i].m)
FragmentFits(i) ==
    IF AskOn(i) /\ ask.pc \in {"reload", "verify"}
    THEN aconf[i] = ask.to /\ ask.had \in {NoSlug, aman[i].alias}
    ELSE IF AskOn(i) /\ ask.pc = "save" THEN aconf[i] \in {NoSlug, ask.to}
    ELSE aconf[i] \in {NoSlug, aman[i].alias}
(* What it has, wishes for and is about to get was asked for since it was    *)
(* cleared last, and the mark of a live check is kept with the alias.        *)
WasAsked(i) ==
    /\ {aman[i].alias, aman[i].desired} \subseteq agh.asked[i] \cup {NoSlug}
    /\ AskOn(i) => ask.to \in agh.asked[i] \cup {NoSlug}
MarkStays(i) ==
    agh.once[i] = aman[i].alias /\ aman[i].alias # NoSlug => aman[i].verified = aman[i].alias
Fits(i) ==
    /\ RowFits(i) /\ AskFits(i) /\ StartFits(i) /\ FragmentFits(i)
    /\ WasAsked(i) /\ MarkStays(i)

(* Nobody has, or is about to get, what another one has.                     *)
Distinct(i, j) ==
    /\ aman[i].alias # NoSlug => aman[i].alias # aman[j].alias
    /\ AskOn(i) /\ ask.to # NoSlug => aman[j].alias # ask.to

AliasInv ==
    /\ AliasTyped /\ AskHasOne /\ WishesGo
    /\ \A i \in Inst : AskGoes(i) /\ StartGoes(i)
    /\ \A i \in Inst \ agh.loose : Fits(i)
    /\ \A i, j \in Inst \ agh.loose : i # j => Distinct(i, j)

LEMMA AliasKinds ==
    /\ NoSlug \in MaybeSlug /\ Slug \subseteq MaybeSlug /\ NoSlug \notin Slug
    /\ "nobody" \notin Inst /\ "user" \notin Finisher
    /\ Plain \in AliasFields /\ NoAsk \in AskKind /\ NoStart \in StartKind
    /\ NoWish \in WishKind /\ NoGlance \in GlanceKind
    /\ Plain.alias = NoSlug /\ Plain.desired = NoSlug /\ Plain.verified = NoSlug
    /\ NoAsk.pc = "idle" /\ NoAsk.on = "nobody" /\ NoStart.pc = "idle" /\ NoWish.pc = "none"
<1>1. NoSlug \in MaybeSlug /\ Slug \subseteq MaybeSlug /\ NoSlug \notin Slug
      /\ "nobody" \notin Inst /\ "user" \notin Finisher
  BY AliasAssumption DEF MaybeSlug, Inst
<1>2. Plain \in AliasFields
  BY <1>1 DEF Plain, AliasFields, Guard
<1>3. NoAsk \in AskKind
  BY <1>1, <1>2 DEF NoAsk, AskKind, AskPcs, Guard, Asker
<1>4. NoStart \in StartKind
  BY <1>2 DEF NoStart, StartKind, OfStartPcs
<1>5. NoWish \in WishKind /\ NoGlance \in GlanceKind
  BY <1>2 DEF NoWish, WishKind, WishPcs, NoGlance, GlanceKind
<1> QED BY <1>1, <1>2, <1>3, <1>4, <1>5 DEF Plain, NoAsk, NoStart, NoWish

(* What the records of the manifest become. *)
LEMMA FieldsStay ==
    ASSUME NEW m \in AliasFields, NEW a \in MaybeSlug, NEW g \in Guard
    PROVE  /\ [m EXCEPT !.desired = a] \in AliasFields
           /\ [m EXCEPT !.desired = a].alias = m.alias
           /\ [m EXCEPT !.desired = a].desired = a
           /\ [m EXCEPT !.desired = a].verified = m.verified
           /\ [m EXCEPT !.guard = g] \in AliasFields
           /\ [m EXCEPT !.guard = g].alias = m.alias
           /\ [m EXCEPT !.guard = g].desired = m.desired
           /\ [m EXCEPT !.guard = g].verified = m.verified
           /\ [m EXCEPT !.verified = a] \in AliasFields
           /\ [m EXCEPT !.verified = a].alias = m.alias
           /\ [m EXCEPT !.verified = a].desired = m.desired
           /\ [m EXCEPT !.verified = a].verified = a
BY DEF AliasFields

LEMMA MarkedFields ==
    ASSUME NEW m \in AliasFields, NEW a \in MaybeSlug, NEW g \in Guard
    PROVE  /\ [m EXCEPT !.guard = g, !.verified = a] \in AliasFields
           /\ [m EXCEPT !.guard = g, !.verified = a].alias = m.alias
           /\ [m EXCEPT !.guard = g, !.verified = a].desired = m.desired
           /\ [m EXCEPT !.guard = g, !.verified = a].verified = a
BY DEF AliasFields

LEMMA AppliedFields ==
    ASSUME NEW m \in AliasFields, NEW a \in MaybeSlug, NEW g \in Guard
    PROVE  /\ Applied(m, a, g) \in AliasFields
           /\ Applied(m, a, g).alias = a /\ Applied(m, a, g).desired = a
           /\ m.verified = a => Applied(m, a, g).verified = a
BY AliasKinds DEF Guard, Applied, AliasFields

(* One actor moves: one instance, and the command only if it is on it.      *)
OneAliasMoves(i) ==
    /\ \A j \in Inst \ {i} :
          /\ aman'[j] = aman[j] /\ arow'[j] = arow[j] /\ aconf'[j] = aconf[j]
          /\ up'[j] = up[j] /\ start'[j] = start[j]
          /\ agh'.asked[j] = agh.asked[j] /\ agh'.once[j] = agh.once[j]
    /\ agh.loose \subseteq agh'.loose /\ agh'.loose \subseteq agh.loose \cup {i}
    /\ \/ ask' = ask
       \/ ask.pc # "idle" => ask.on = i
    /\ \/ ask' = ask
       \/ ask'.pc # "idle" /\ ask'.on = i
       \/ ask' = NoAsk

(* What the one that moves has to care for. *)
LEMMA OneMoveKeepsAlias ==
    ASSUME AliasInv, AliasTyped', WishesGo', NEW i \in Inst, OneAliasMoves(i),
           AskGoes(i)', StartGoes(i)',
           i \notin agh'.loose => Fits(i)',
           i \notin agh'.loose => \/ aman'[i].alias \in {aman[i].alias, NoSlug}
                                  \/ AskOn(i) /\ aman'[i].alias = ask.to,
           AskOn(i)' /\ ask'.to # NoSlug /\ i \notin agh'.loose =>
               \/ AskOn(i) /\ ask.to = ask'.to
               \/ \A j \in Inst \ (agh.loose \cup {i}) : aman[j].alias # ask'.to
    PROVE  AliasInv'
<1>1. AskHasOne'
  BY AliasKinds DEF AliasInv, AskHasOne, OneAliasMoves
<1>2. ASSUME NEW j \in Inst \ {i}
      PROVE  (AskOn(j) => ask' = ask) /\ (AskOn(j)' <=> (AskOn(j) /\ ask' = ask))
  BY AliasKinds DEF AskOn, OneAliasMoves
<1>3. ASSUME NEW j \in Inst
      PROVE  AskGoes(j)' /\ StartGoes(j)'
  BY <1>2 DEF AliasInv, OneAliasMoves, AskGoes, StartGoes
<1>4. ASSUME NEW j \in Inst, j \notin agh'.loose, j # i
      PROVE  /\ j \in Inst \ agh.loose /\ aman'[j] = aman[j] /\ arow'[j] = arow[j] /\ aconf'[j] = aconf[j]
             /\ start'[j] = start[j]
             /\ agh'.asked[j] = agh.asked[j] /\ agh'.once[j] = agh.once[j]
  BY <1>4 DEF OneAliasMoves
<1>5. ASSUME NEW j \in Inst, j \notin agh'.loose
      PROVE  Fits(j)'
  BY <1>5, <1>4, <1>2 DEF AliasInv, Fits, RowFits, AskFits, StartFits, CopyFits, FragmentFits,
         WasAsked, MarkStays
<1>6. ASSUME NEW j \in Inst, NEW k \in Inst, j \notin agh'.loose, k \notin agh'.loose, j # k
      PROVE  Distinct(j, k)'
  BY <1>6, <1>2 DEF OneAliasMoves, AliasInv, Distinct, AskOn
<1>7. AliasTyped' /\ AskHasOne' /\ WishesGo'
      /\ (\A j \in Inst : AskGoes(j)' /\ StartGoes(j)')
      /\ (\A j \in Inst : j \notin agh'.loose => Fits(j)')
      /\ (\A j \in Inst, k \in Inst : j \notin agh'.loose /\ k \notin agh'.loose /\ j # k => Distinct(j, k)')
  BY <1>1, <1>3, <1>5, <1>6
<1> QED BY <1>7 DEF AliasInv

(* What the records of a command and of the ghost become. *)
LEMMA AskFields ==
    ASSUME NEW k \in AskKind, NEW pc \in AskPcs, NEW g \in Guard, NEW a \in MaybeSlug
    PROVE  /\ [k EXCEPT !.pc = pc] \in AskKind
           /\ [k EXCEPT !.pc = pc, !.had = a] \in AskKind
           /\ [k EXCEPT !.pc = pc, !.guard = g] \in AskKind
           /\ [k EXCEPT !.pc = pc, !.guard = g, !.m.verified = a] \in AskKind
BY FieldsStay DEF AskKind

LEMMA WrittenGhost ==
    ASSUME AliasTyped, NEW i \in Inst, NEW m
    PROVE  /\ Loose(i) \in AliasGhost /\ Written(i, m) \in AliasGhost
           /\ Loose(i).asked = agh.asked /\ Loose(i).once = agh.once
           /\ Loose(i).loose = agh.loose \cup {i}
           /\ Written(i, m).asked = agh.asked /\ Written(i, m).once = agh.once
           /\ agh.loose \subseteq Written(i, m).loose /\ Written(i, m).loose \subseteq agh.loose \cup {i}
           /\ i \notin Written(i, m).loose =>
                 /\ i \notin agh.loose /\ aman[i].alias = m.alias
                 /\ aman[i].desired = m.desired /\ aman[i].verified = m.verified
BY DEF Loose, AliasTyped, AliasGhost, Written, Outdated

LEMMA AliasGhostFields ==
    ASSUME NEW g \in AliasGhost, NEW i \in Inst, NEW A \in SUBSET Slug, NEW a \in MaybeSlug
    PROVE  /\ [g EXCEPT !.asked[i] = A] \in AliasGhost
           /\ [g EXCEPT !.once[i] = a] \in AliasGhost
           /\ [g EXCEPT !.asked[i] = A, !.once[i] = a] \in AliasGhost
BY DEF AliasGhost

LEMMA FragmentBackTypes ==
    ASSUME AliasTyped, ask.on \in Inst
    PROVE  FragmentBack \in [Inst -> MaybeSlug]
BY AliasKinds DEF AliasTyped, AskKind, AliasFields, FragmentBack

(* A pending wish that goes on or ends. *)
LEMMA WishGoesTypes ==
    ASSUME AliasTyped, WishesGo, NEW pc \in WishPcs, WishGoes(pc), ask.pc # "idle", ask'.pc = "idle"
    PROVE  wish' \in [Finisher -> WishKind] /\ WishesGo'
BY AliasKinds DEF AliasTyped, AskKind, WishGoes, WishesGo, Asker, WishKind

LEMMA JudgeTypes ==
    ASSUME AliasTyped, NEW i \in Inst, NEW a \in MaybeSlug, NEW b \in Asker,
           JudgeAlias(i, a, b)
    PROVE  aman' \in [Inst -> AliasFields] /\ ask' \in AskKind
<1>1. aman[i] \in AliasFields
  BY DEF AliasTyped
<1>2. Unwish(i, a) \in AliasFields
  BY <1>1, AliasKinds, FieldsStay DEF Unwish, Guard
<1>3. CASE UNCHANGED <<aman, ask>>
  BY <1>3 DEF AliasTyped
<1>4. CASE /\ aman' = [aman EXCEPT ![i] =
                        IF a # NoSlug THEN [Unwish(i, a) EXCEPT !.desired = a] ELSE Unwish(i, a)]
           /\ UNCHANGED ask
  BY <1>2, FieldsStay, <1>4 DEF Guard, AliasTyped
<1>5. CASE /\ aman' = [aman EXCEPT ![i] = Unwish(i, a)]
           /\ ask' = [NoAsk EXCEPT !.pc = "write", !.on = i, !.to = a, !.by = b, !.m = Unwish(i, a)]
  BY <1>2, <1>5, AliasKinds DEF AliasTyped, AskKind, AskPcs
<1> QED BY <1>3, <1>4, <1>5 DEF JudgeAlias

LEMMA ReloadTypes ==
    ASSUME AliasTyped, NEW c \in [Inst -> MaybeSlug], BestEffort(c)
    PROVE  aloaded' \in [Inst -> MaybeSlug]
BY DEF BestEffort, Reloaded, AliasTyped

LEMMA CopyTypes ==
    ASSUME AliasTyped, WishesGo, NEW i \in Inst, NEW m \in AliasFields, KeepsCopy(i, m), ask' = ask
    PROVE  /\ aman' \in [Inst -> AliasFields] /\ start' \in [Inst -> StartKind]
           /\ wish' \in [Finisher -> WishKind] /\ WishesGo'
<1>1. aman' \in [Inst -> AliasFields] /\ start' \in [Inst -> StartKind]
  BY AliasKinds DEF KeepsCopy, AliasTyped
<1>2. CASE wish' = wish
  BY <1>2, <1>1 DEF WishesGo, AliasTyped
<1>3. ASSUME NEW f \in Finisher, wish[f] = NoWish, wish' = [wish EXCEPT ![f] = [pc |-> "look", on |-> i, m |-> m]]
      PROVE  wish' \in [Finisher -> WishKind] /\ WishesGo'
  BY <1>3, AliasKinds DEF WishKind, WishPcs, AliasTyped, AskKind, WishesGo, Asker
<1> QED BY <1>1, <1>2, <1>3 DEF KeepsCopy

LEMMA AskActsTyped ==
    ASSUME AliasInv, AliasCommand
    PROVE  AliasTyped' /\ WishesGo'
<1> USE DEF AliasInv
<1> DEFINE i == ask.on
<1>0. /\ AskOn(i) => i \in Inst
      /\ AskOn(i) <=> ask.pc # "idle"
      /\ ask \in AskKind /\ ask.to \in MaybeSlug /\ ask.m \in AliasFields /\ ask.had \in MaybeSlug
      /\ ask.guard \in Guard /\ agh \in AliasGhost /\ ask.by \in Asker
      /\ NoAsk \in AskKind /\ NoAsk.pc = "idle" /\ "none" \in WishPcs /\ "refused" \in WishPcs
  BY AliasKinds DEF AskOn, AskHasOne, AliasTyped, AskKind, WishPcs
<1>1. ASSUME NEW j \in Inst, NEW a \in MaybeSlug, AskAlias(j, a)
      PROVE  AliasTyped' /\ WishesGo'
  <2>0. "user" \in Asker
    BY DEF Asker
  <2>1. aman' \in [Inst -> AliasFields] /\ ask' \in AskKind
    BY <1>1, <2>0, JudgeTypes DEF AskAlias
  <2>2. agh' \in AliasGhost
    <3>1. PICK A \in SUBSET Slug : agh' = [agh EXCEPT !.asked[j] = A]
      BY <1>1 DEF AliasTyped, AliasGhost, MaybeSlug, AskAlias
    <3> QED BY <3>1, <1>0, AliasKinds, AliasGhostFields
  <2>3. ask'.pc = "idle" \/ ask'.by = "user"
    BY <1>0, <1>1, AliasKinds DEF AskAlias, JudgeAlias, AskKind
  <2>4. WishesGo'
    BY <1>1, <2>3 DEF AskAlias, WishesGo
  <2> QED BY <1>1, <2>1, <2>2, <2>4 DEF AskAlias, AliasTyped
<1>2. CASE WriteFragment
  <2>1. i \in Inst /\ aconf[i] \in MaybeSlug
    BY <1>0, <1>2 DEF WriteFragment, AliasTyped
  <2>2. aconf' \in [Inst -> MaybeSlug]
    BY <1>0, <1>2, <2>1, AliasKinds DEF WriteFragment, AliasTyped
  <2>3. ask' \in AskKind /\ ask'.by = ask.by
    <3>1. CASE Synced(i)
      <4>1. "reload" \in AskPcs /\ ask' = [ask EXCEPT !.pc = "reload", !.had = aconf[i]]
        BY <1>2, <3>1 DEF WriteFragment, AskPcs
      <4> QED BY <1>0, <2>1, <4>1, AskFields DEF AskKind
    <3>2. CASE ~Synced(i)
      <4>1. PICK g \in {"passed", "skipped"} : ask' = [ask EXCEPT !.pc = "save", !.guard = g]
        BY <1>2, <3>2 DEF WriteFragment
      <4>2. g \in Guard /\ "save" \in AskPcs
        BY DEF Guard, AskPcs
      <4> QED BY <1>0, <4>1, <4>2, AskFields DEF AskKind
    <3> QED BY <3>1, <3>2
  <2>4. WishesGo'
    BY <1>2, <2>3 DEF WriteFragment, WishesGo
  <2> QED BY <1>2, <2>2, <2>3, <2>4 DEF WriteFragment, AliasTyped
<1>a. ASSUME NEW m \in AliasFields, AskFails(m), ask.pc # "idle"
      PROVE  /\ aman' \in [Inst -> AliasFields] /\ ask' \in AskKind
             /\ wish' \in [Finisher -> WishKind] /\ WishesGo'
  BY <1>a, <1>0, WishGoesTypes DEF AskFails, AliasTyped
<1>3. CASE ReloadAsked
  <2>1. i \in Inst /\ AskOn(i) /\ aman[i] \in AliasFields
    BY <1>0, <1>3 DEF ReloadAsked, AliasTyped
  <2>2. CASE Reloaded(aconf) /\ ask' = [ask EXCEPT !.pc = IF ask.to # NoSlug
      THEN "verify" ELSE "save"]
             /\ UNCHANGED <<aman, aconf, wish>>
    <3>1. (IF ask.to # NoSlug THEN "verify" ELSE "save") \in AskPcs
      BY DEF AskPcs
    <3>2. ask' \in AskKind /\ ask'.by = ask.by
      BY <1>0, <2>2, <3>1, AskFields DEF AskKind
    <3>3. WishesGo'
      BY <1>3, <2>2, <3>2 DEF ReloadAsked, WishesGo
    <3> QED BY <1>3, <2>2, <3>2, <3>3 DEF ReloadAsked, Reloaded, AliasTyped
  <2>3. CASE UNCHANGED aloaded /\ aconf' = FragmentBack /\ AskFails(aman[i])
    BY <1>3, <2>1, <2>3, FragmentBackTypes, <1>a DEF ReloadAsked, AliasTyped
  <2> QED BY <1>3, <2>2, <2>3 DEF ReloadAsked
<1>4. CASE VerifyPasses
  <2>1. i \in Inst /\ "save" \in AskPcs /\ "passed" \in Guard
    BY <1>0, <1>4 DEF VerifyPasses, AskPcs, Guard
  <2>2. ask' \in AskKind
    BY <1>0, <1>4, <2>1, AskFields DEF VerifyPasses
  <2>3. agh' \in AliasGhost
    BY <1>0, <1>4, <2>1, AliasGhostFields DEF VerifyPasses
  <2>4. ask'.by = ask.by
    BY <1>0, <1>4 DEF VerifyPasses, AskKind
  <2>5. WishesGo'
    BY <1>4, <2>4 DEF VerifyPasses, WishesGo
  <2> QED BY <1>4, <2>2, <2>3, <2>5 DEF VerifyPasses, AliasTyped
<1>5. CASE VerifySkipped
  <2>1. "save" \in AskPcs /\ "skipped" \in Guard
    BY DEF AskPcs, Guard
  <2>2. ask' \in AskKind
    BY <1>0, <1>5, <2>1, AskFields DEF VerifySkipped
  <2>3. ask'.by = ask.by
    BY <1>0, <1>5 DEF VerifySkipped, AskKind
  <2>4. WishesGo'
    BY <1>5, <2>3 DEF VerifySkipped, WishesGo
  <2> QED BY <1>5, <2>2, <2>4 DEF VerifySkipped, AliasTyped
<1>6. CASE VerifyFails
  BY <1>0, <1>6, FieldsStay, FragmentBackTypes, <1>a DEF VerifyFails, Guard, AfterRefusal,
         AliasTyped
<1>7. CASE VerifyBreaks
  BY <1>0, <1>7, FieldsStay, WrittenGhost, FragmentBackTypes, <1>a DEF VerifyBreaks, AliasTyped,
         Guard, AfterRefusal
<1>8. CASE SaveAlias
  <2>1. i \in Inst /\ "row" \in AskPcs
    BY <1>0, <1>8 DEF SaveAlias, AskPcs
  <2>2. Applied(ask.m, ask.to, ask.guard) \in AliasFields
    BY <1>0, AppliedFields
  <2>3. aman' \in [Inst -> AliasFields]
    BY <1>8, <2>2 DEF SaveAlias, AliasTyped
  <2>4. ask' \in AskKind /\ ask'.by = ask.by
    BY <1>0, <1>8, <2>1, AskFields DEF SaveAlias, AskKind
  <2>5. agh' \in AliasGhost
    <3>1. agh.asked[i] \in SUBSET Slug /\ agh.once[i] \in MaybeSlug
      BY <2>1 DEF AliasTyped, AliasGhost
    <3>2. PICK A \in SUBSET Slug, b \in MaybeSlug : agh' = [agh EXCEPT !.asked[i] = A, !.once[i] = b]
      BY <3>1, AliasKinds, <1>8 DEF SaveAlias
    <3> QED BY <1>0, <2>1, <3>2, AliasGhostFields
  <2>6. WishesGo'
    BY <1>8, <2>4 DEF SaveAlias, WishesGo
  <2> QED BY <1>8, <2>3, <2>4, <2>5, <2>6 DEF SaveAlias, AliasTyped
<1>9. CASE UpsertAlias
  BY <1>0, <1>9, WishGoesTypes DEF UpsertAlias, AliasTyped
<1>10. CASE AskDies
  BY <1>0, <1>10, WrittenGhost, WishGoesTypes DEF AskDies, AliasTyped
<1> QED BY <1>1, <1>2, <1>3, <1>4, <1>5, <1>6, <1>7, <1>8, <1>9, <1>10 DEF AliasCommand

LEMMA StartActsTyped ==
    ASSUME AliasInv, NEW i \in Inst, AliasStart(i)
    PROVE  AliasTyped' /\ WishesGo'
<1> USE DEF AliasInv
<1>0. /\ start[i] \in StartKind /\ start[i].m \in AliasFields
      /\ start[i].m.alias \in MaybeSlug /\ start[i].m.desired \in MaybeSlug
      /\ start[i].pre \in BOOLEAN
      /\ aman[i] \in AliasFields /\ aman[i].alias \in MaybeSlug /\ aconf[i] \in MaybeSlug
      /\ agh \in AliasGhost /\ NoSlug \in MaybeSlug /\ NoStart \in StartKind
  BY AliasKinds DEF AliasTyped, StartKind, AliasFields
<1>g. {"none", "passed", "failed", "skipped"} = Guard
  BY DEF Guard
<1>w. ask' = ask /\ wish' = wish => WishesGo'
  BY DEF WishesGo
<1>1. ASSUME NEW k \in {"start", "restart"}, Deploy(i, k)
      PROVE  AliasTyped' /\ WishesGo'
  BY <1>0, <1>1, <1>w DEF Deploy, AliasTyped, StartKind, OfStartPcs
<1>2. CASE SyncAliasPort(i)
  <2>1. start' \in [Inst -> StartKind]
    <3>1. PICK b \in BOOLEAN : b = (start[i].pre \/ aconf[i] # NoSlug)
      BY <1>0
    <3>2. start' = [start EXCEPT ![i] = [start[i] EXCEPT !.pc = "verify", !.pre = b]]
      BY <1>2, <3>1 DEF SyncAliasPort, AliasTyped
    <3>3. [start[i] EXCEPT !.pc = "verify", !.pre = b] \in StartKind
      BY <1>0 DEF StartKind, OfStartPcs
    <3> QED BY <3>2, <3>3 DEF AliasTyped
  <2>2. aconf' \in [Inst -> MaybeSlug]
    BY <1>0, <1>2 DEF SyncAliasPort, AliasTyped
  <2>3. aloaded' \in [Inst -> MaybeSlug]
    BY <1>2, <2>2, ReloadTypes DEF SyncAliasPort, AliasTyped, BestEffort, Reloaded
  <2> QED BY <1>0, <1>2, <1>w, <2>1, <2>2, <2>3 DEF SyncAliasPort, AliasTyped
<1>3. CASE StartVerified(i)
  <2>1. \E m \in AliasFields : KeepsCopy(i, m)
    BY <1>0, <1>3, <1>g, FieldsStay DEF StartVerified
  <2>2. /\ aman' \in [Inst -> AliasFields] /\ start' \in [Inst -> StartKind]
        /\ wish' \in [Finisher -> WishKind] /\ WishesGo'
    BY <1>3, <2>1, CopyTypes DEF StartVerified
  <2>3. agh' \in AliasGhost
    BY <1>0, <1>3, AliasGhostFields DEF StartVerified
  <2> QED BY <1>3, <2>2, <2>3 DEF StartVerified, AliasTyped
<1>4. CASE StartUnverified(i)
  <2>1. CASE KeepsCopy(i, [start[i].m EXCEPT !.guard = "failed"]) /\ UNCHANGED <<arow, aconf, aloaded>>
    <3>1. [start[i].m EXCEPT !.guard = "failed"] \in AliasFields
      BY <1>0, <1>g, FieldsStay
    <3>2. ask' = ask
      BY <1>4 DEF StartUnverified
    <3>3. /\ aman' \in [Inst -> AliasFields] /\ start' \in [Inst -> StartKind]
          /\ wish' \in [Finisher -> WishKind] /\ WishesGo'
      BY <2>1, <3>1, <3>2, CopyTypes
    <3> QED BY <1>4, <2>1, <3>3 DEF StartUnverified, AliasTyped
  <2>2. CASE /\ aconf' = [aconf EXCEPT ![i] = NoSlug] /\ BestEffort(aconf')
             /\ aman' = [aman EXCEPT ![i] =
                        [Applied(start[i].m, NoSlug, "none") EXCEPT
                            !.desired = IF start[i].m.desired # NoSlug
                                THEN start[i].m.desired ELSE start[i].m.alias]]
             /\ arow' = [arow EXCEPT ![i] = NoSlug]
             /\ start' = [start EXCEPT ![i] = NoStart] /\ UNCHANGED wish
    BY <1>0, <1>g, AppliedFields, <2>2, FieldsStay, ReloadTypes, <1>4, <1>w DEF AliasTyped,
           StartUnverified
  <2> QED BY <1>4, <2>1, <2>2 DEF StartUnverified
<1>5. CASE StopServing(i)
  BY <1>0, <1>5, <1>w DEF StopServing, AliasTyped
<1>6. CASE SwitchGlances(i)
  BY <1>0, <1>6, <1>w DEF SwitchGlances, GlanceKind, AliasTyped
<1> QED BY <1>1, <1>2, <1>3, <1>4, <1>5, <1>6 DEF AliasStart

LEMMA FinishActsTyped ==
    ASSUME AliasInv, NEW f \in Finisher, AliasFinish(f)
    PROVE  AliasTyped' /\ WishesGo' /\ wish[f].on \in Inst
<1> USE DEF AliasInv
<1>1. wish[f] \in WishKind /\ wish[f].m \in AliasFields /\ NoWish \in WishKind /\ NoWish.pc = "none" /\ f \in Asker
      /\ wish[f].m.alias \in MaybeSlug /\ wish[f].m.desired \in MaybeSlug /\ f # "user" /\ ask.by \in Asker
  BY AliasKinds DEF AliasTyped, WishKind, AliasFields, Asker, AskKind
<1>2. wish[f].pc \in {"look", "wish", "refused"} /\ wish[f].on \in Inst
  BY DEF AliasFinish, LookForWish, RestoreWish, WishTurnedDown, WishRefused, WishesGo
<1>3. aman[wish[f].on] \in AliasFields
  BY <1>2 DEF AliasTyped
<1>4. ASSUME NEW w \in WishKind, w.pc # "none" => w.on \in Inst, wish' = [wish EXCEPT ![f] = w],
             ask' = ask \/ (ask'.pc # "idle" => ask'.by = f /\ w.pc = "asked")
      PROVE  wish' \in [Finisher -> WishKind] /\ WishesGo'
  BY <1>4, <1>1, <1>2 DEF AliasTyped, WishesGo, Asker
<1>5. CASE LookForWish(f)
  BY <1>5, <1>1, <1>2, <1>3, <1>4 DEF LookForWish, AliasTyped, WishKind, WishPcs
<1>6. CASE RestoreWish(f)
  <2>1. JudgeAlias(wish[f].on, wish[f].m.desired, f)
    BY <1>6 DEF RestoreWish
  <2>2. aman' \in [Inst -> AliasFields] /\ ask' \in AskKind
    BY <1>1, <1>2, <2>1, JudgeTypes
  <2> DEFINE w == IF ask'.pc = "idle" THEN NoWish ELSE [wish[f] EXCEPT !.pc = "asked"]
  <2>3. wish' = [wish EXCEPT ![f] = w]
    BY <1>6 DEF RestoreWish, AliasTyped
  <2>4. w \in WishKind /\ (w.pc # "none" => w.on \in Inst) /\ (ask'.pc # "idle" => w.pc = "asked")
    BY <1>1, <1>2 DEF WishKind, WishPcs
  <2>5. ask.pc = "idle"
    BY <1>6 DEF RestoreWish
  <2>6. ask'.pc # "idle" => ask'.by = f
    BY <1>1, <2>1, <2>5, AliasKinds DEF JudgeAlias, AskKind
  <2> HIDE DEF w
  <2>7. wish' \in [Finisher -> WishKind] /\ WishesGo'
    BY <1>4, <2>3, <2>4, <2>6
  <2> QED BY <1>2, <1>6, <2>2, <2>7 DEF RestoreWish, AliasTyped
<1>7. CASE WishTurnedDown(f)
  BY <1>7, <1>1, <1>2, <1>4 DEF WishTurnedDown, AliasTyped, WishKind, WishPcs
<1>8. CASE WishRefused(f)
  BY <1>8, <1>1, <1>4, AliasKinds, FieldsStay, <1>2, WrittenGhost DEF WishRefused, Guard,
         AliasTyped
<1> QED BY <1>5, <1>6, <1>7, <1>8 DEF AliasFinish

LEMMA OtherActsTyped ==
    ASSUME AliasInv, StarterDies \/ SwitchNotes
    PROVE  AliasTyped' /\ WishesGo'
<1> USE DEF AliasInv
<1>1. CASE SwitchNotes
  <2>1. wish' = wish /\ ask' = ask => WishesGo'
    BY DEF WishesGo
  <2>2. glance.on \in Inst /\ glance.m \in AliasFields /\ glance.m.alias \in MaybeSlug
    BY <1>1 DEF SwitchNotes, AliasTyped, GlanceKind, Inst, AliasFields
  <2>3. "failed" \in Guard /\ "passed" \in Guard /\ NoSlug \in MaybeSlug
    BY AliasKinds DEF Guard
  <2>4. /\ [glance.m EXCEPT !.guard = "failed"] \in AliasFields
        /\ [glance.m EXCEPT !.guard = "passed", !.verified = glance.m.alias] \in AliasFields
    BY <2>2, <2>3, FieldsStay, MarkedFields
  <2>5. aman' \in [Inst -> AliasFields]
    BY <1>1, <2>4 DEF SwitchNotes, AliasTyped
  <2>6. agh' \in AliasGhost
    BY <1>1, <2>2, WrittenGhost DEF SwitchNotes
  <2>7. glance' \in GlanceKind
    BY <1>1, AliasKinds DEF SwitchNotes
  <2> QED BY <1>1, <2>1, <2>5, <2>6, <2>7 DEF SwitchNotes, AliasTyped
<1>2. CASE StarterDies
  BY <1>2, AliasKinds DEF StarterDies, AliasTyped, WishesGo, AskKind, Asker
<1> QED BY <1>1, <1>2

(* Only wishes, the check after a switch and what Caddy loaded move. *)
LEMMA NothingOfAliasMoves ==
    ASSUME AliasInv, AliasTyped', WishesGo',
           UNCHANGED <<aman, arow, aconf, up, ask, start, agh>>
    PROVE  AliasInv'
BY DEF AliasInv, AskHasOne, AskGoes, StartGoes, Fits, RowFits, AskFits, StartFits, CopyFits,
       FragmentFits, WasAsked, MarkStays, Distinct, AskOn

(* A copy that is not outdated is noted in the manifest. *)
LEMMA NoteKeepsAlias ==
    ASSUME AliasInv, AliasTyped', WishesGo', NEW i \in Inst,
           UNCHANGED <<aconf, up, ask, start>>, agh'.asked = agh.asked, agh'.once = agh.once,
           agh.loose \subseteq agh'.loose, agh'.loose \subseteq agh.loose \cup {i},
           \A j \in Inst \ {i} : aman'[j] = aman[j] /\ arow'[j] = arow[j],
           i \notin agh'.loose =>
               /\ aman'[i].alias = aman[i].alias /\ aman'[i].desired = aman[i].desired
               /\ aman'[i].verified \in {aman[i].verified, aman[i].alias}
               /\ arow'[i] \in {arow[i], aman[i].alias}
    PROVE  AliasInv'
<1>1. OneAliasMoves(i)
  BY DEF OneAliasMoves
<1>2. AskOn(i)' <=> AskOn(i)
  BY DEF AskOn
<1>3. AskGoes(i)' /\ StartGoes(i)'
  BY <1>2 DEF AliasInv, AskGoes, StartGoes
<1>4. i \notin agh'.loose => Fits(i)'
  BY <1>2 DEF AliasInv, Fits, RowFits, AskFits, StartFits, CopyFits, FragmentFits, WasAsked,
         MarkStays
<1> QED BY <1>1, <1>2, <1>3, <1>4, OneMoveKeepsAlias

(* What a start leaves behind on an instance no command is on. *)
Settles(i) ==
    /\ arow[i] = aman[i].alias /\ aconf[i] \in {NoSlug, aman[i].alias}
    /\ {aman[i].alias, aman[i].desired} \subseteq agh.asked[i] \cup {NoSlug}
    /\ MarkStays(i) /\ StartFits(i)

LEMMA StartKeepsAlias ==
    ASSUME AliasInv, AliasTyped', WishesGo', NEW i \in Inst, OneAliasMoves(i), ask' = ask, ~AskOn(i),
           StartGoes(i)',
           i \notin agh'.loose => Settles(i)' /\ aman'[i].alias \in {aman[i].alias, NoSlug}
    PROVE  AliasInv'
BY OneMoveKeepsAlias DEF AskOn, AskGoes, Settles, Fits, RowFits, AskFits, FragmentFits, WasAsked

(* An instance at rest settles already. *)
LEMMA AtRestSettles ==
    ASSUME AliasInv, NEW i \in Inst \ agh.loose, ~AskOn(i)
    PROVE  Settles(i)
BY DEF AliasInv, Fits, RowFits, FragmentFits, WasAsked, Settles

(* A start at work holds the lock of its instance. *)
LEMMA StartAlone ==
    ASSUME AliasInv, NEW i \in Inst, start[i].pc # "idle"
    PROVE  /\ ~AskOn(i) /\ up[i] /\ start[i] \in StartKind /\ start[i].m \in AliasFields
           /\ start[i].m.alias \in MaybeSlug /\ start[i].m.desired \in MaybeSlug
           /\ i \notin agh.loose => Settles(i) /\ CopyFits(i, start[i].m)
BY AtRestSettles DEF AliasInv, AliasTyped, AskGoes, StartKind, AliasFields, StartGoes, Settles,
       StartFits

LEMMA DeployKeeps ==
    ASSUME AliasInv, AliasTyped', WishesGo', NEW i \in Inst, NEW k \in {"start", "restart"}, Deploy(i, k)
    PROVE  AliasInv'
<1> USE DEF AliasInv
<1>1. /\ aman' = aman /\ ask' = ask /\ agh' = agh
      /\ up' = [up EXCEPT ![i] = TRUE] /\ arow' = [arow EXCEPT ![i] = aman[i].alias]
      /\ ask.on # i
  BY DEF Deploy, InstanceFree
<1>2. /\ up'[i] /\ arow'[i] = aman[i].alias
      /\ \A j \in Inst \ {i} : up'[j] = up[j] /\ arow'[j] = arow[j]
  BY <1>1 DEF AliasTyped
<1>3. /\ aconf'[i] \in {aconf[i], aman[i].alias}
      /\ \A j \in Inst \ {i} : aconf'[j] = aconf[j]
  BY DEF Deploy, AliasTyped
<1>4. /\ start'[i].m = aman[i]
      /\ \A j \in Inst \ {i} : start'[j] = start[j]
  BY DEF Deploy, AliasTyped
<1>5. OneAliasMoves(i)
  BY <1>1, <1>2, <1>3, <1>4 DEF OneAliasMoves
<1>6. StartGoes(i)'
  BY <1>2 DEF StartGoes
<1>7. ~AskOn(i)
  BY <1>1 DEF AskOn
<1>8. i \notin agh'.loose => Settles(i)'
  BY <1>1, <1>7, AtRestSettles, <1>4, <1>2, <1>3 DEF Settles, MarkStays, StartFits, CopyFits
<1> QED BY <1>1, <1>2, <1>5, <1>6, <1>7, <1>8, StartKeepsAlias

LEMMA StopKeeps ==
    ASSUME AliasInv, AliasTyped', WishesGo', NEW i \in Inst, StopServing(i)
    PROVE  AliasInv'
<1> USE DEF AliasInv
<1>1. /\ aman' = aman /\ ask' = ask /\ agh' = agh /\ arow' = arow /\ start' = start
      /\ up' = [up EXCEPT ![i] = FALSE] /\ aconf' = [aconf EXCEPT ![i] = NoSlug]
      /\ start[i].pc = "idle" /\ ask.on # i
  BY DEF StopServing, InstanceFree
<1>2. /\ aconf'[i] = NoSlug
      /\ \A j \in Inst \ {i} : up'[j] = up[j] /\ aconf'[j] = aconf[j]
  BY <1>1 DEF AliasTyped
<1>3. OneAliasMoves(i)
  BY <1>1, <1>2 DEF OneAliasMoves
<1>4. StartGoes(i)'
  BY <1>1, <1>2 DEF StartGoes
<1>5. ~AskOn(i)
  BY <1>1 DEF AskOn
<1>6. i \notin agh'.loose => Settles(i)'
  BY <1>1, <1>5, AtRestSettles, <1>2 DEF Settles, MarkStays, StartFits
<1> QED BY <1>1, <1>3, <1>4, <1>5, <1>6, StartKeepsAlias

LEMMA SyncPortKeeps ==
    ASSUME AliasInv, AliasTyped', WishesGo', NEW i \in Inst, SyncAliasPort(i)
    PROVE  AliasInv'
<1> USE DEF AliasInv
<1>1. /\ aman' = aman /\ ask' = ask /\ agh' = agh /\ arow' = arow /\ up' = up
      /\ start[i].pc = "sync"
  BY DEF SyncAliasPort
<1>2. /\ ~AskOn(i) /\ up[i] /\ start[i] \in StartKind
      /\ i \notin agh.loose => Settles(i) /\ CopyFits(i, start[i].m)
  BY <1>1, StartAlone
<1>3. /\ aconf'[i] \in {aconf[i], start[i].m.alias}
      /\ \A j \in Inst \ {i} : aconf'[j] = aconf[j]
  BY DEF SyncAliasPort, AliasTyped
<1>4. /\ start'[i].m = start[i].m
      /\ \A j \in Inst \ {i} : start'[j] = start[j]
  BY <1>2 DEF SyncAliasPort, AliasTyped, StartKind
<1>5. OneAliasMoves(i)
  BY <1>1, <1>3, <1>4 DEF OneAliasMoves
<1>6. StartGoes(i)'
  BY <1>1, <1>2 DEF StartGoes
<1>7. i \notin agh'.loose => Settles(i)'
  BY <1>1, <1>2, <1>3, <1>4 DEF Settles, MarkStays, StartFits, CopyFits
<1> QED BY <1>1, <1>2, <1>5, <1>6, <1>7, StartKeepsAlias

(* The copy of a start, written back. *)
LEMMA CopyWrites ==
    ASSUME AliasTyped, NEW i \in Inst, NEW m \in AliasFields, KeepsCopy(i, m)
    PROVE  /\ aman'[i] = m /\ \A j \in Inst \ {i} : aman'[j] = aman[j] /\ start'[j] = start[j]
           /\ start'[i].pc = "idle"
BY AliasKinds DEF KeepsCopy, AliasTyped

LEMMA KeptCopyKeeps ==
    ASSUME AliasInv, AliasTyped', WishesGo', NEW i \in Inst, start[i].pc # "idle",
           NEW m \in AliasFields, KeepsCopy(i, m), UNCHANGED <<ask, arow, aconf, up>>,
           m.alias = start[i].m.alias, m.desired = start[i].m.desired,
           agh'.asked = agh.asked, agh'.loose = agh.loose,
           \A j \in Inst \ {i} : agh'.once[j] = agh.once[j],
           \/ m.verified = start[i].m.verified /\ agh'.once[i] = agh.once[i]
           \/ m.verified = m.alias
    PROVE  AliasInv'
BY StartAlone, CopyWrites, StartKeepsAlias DEF AliasInv, OneAliasMoves, StartGoes, Settles,
       MarkStays, StartFits, CopyFits

LEMMA StartVerifiedKeeps ==
    ASSUME AliasInv, AliasTyped', WishesGo', NEW i \in Inst, StartVerified(i)
    PROVE  AliasInv'
<1>1. UNCHANGED <<ask, arow, aconf, up>> /\ start[i].pc # "idle"
  BY DEF StartVerified
<1>2. start[i].m \in AliasFields /\ start[i].m.alias \in MaybeSlug /\ agh \in AliasGhost
  BY <1>1, StartAlone DEF AliasInv, AliasTyped
<1>g. "skipped" \in Guard /\ "passed" \in Guard /\ NoSlug \in MaybeSlug
  BY AliasKinds DEF Guard
<1> DEFINE s == start[i].m
<1>3. CASE KeepsCopy(i, s) /\ agh' = agh
  BY <1>1, <1>2, <1>3, KeptCopyKeeps
<1>4. CASE KeepsCopy(i, [s EXCEPT !.guard = "skipped"]) /\ agh' = agh
  BY <1>2, <1>g, FieldsStay, <1>4, <1>1, KeptCopyKeeps
<1>5. CASE /\ KeepsCopy(i, [s EXCEPT !.guard = "passed", !.verified = s.alias])
           /\ agh' = [agh EXCEPT !.once[i] = s.alias]
  <2> DEFINE m == [s EXCEPT !.guard = "passed", !.verified = s.alias]
  <2>1. m \in AliasFields /\ m.alias = s.alias /\ m.desired = s.desired /\ m.verified = s.alias
    BY <1>2, <1>g, MarkedFields
  <2>2. KeepsCopy(i, m)
    BY <1>5
  <2>3. /\ agh'.asked = agh.asked /\ agh'.loose = agh.loose
        /\ \A j \in Inst \ {i} : agh'.once[j] = agh.once[j]
    BY <1>2, <1>5 DEF AliasGhost
  <2> HIDE DEF m
  <2> QED BY <1>1, <2>1, <2>2, <2>3, KeptCopyKeeps
<1> QED BY <1>3, <1>4, <1>5 DEF StartVerified

LEMMA StartUnverifiedKeeps ==
    ASSUME AliasInv, AliasTyped', WishesGo', NEW i \in Inst, StartUnverified(i)
    PROVE  AliasInv'
<1>1. ask' = ask /\ up' = up /\ agh' = agh /\ start[i].pc # "idle"
  BY DEF StartUnverified
<1>2. /\ start[i].m \in AliasFields /\ start[i].m.alias \in MaybeSlug /\ start[i].m.desired \in MaybeSlug
      /\ ~AskOn(i) /\ AliasTyped
      /\ i \notin agh.loose => Settles(i) /\ CopyFits(i, start[i].m)
  BY <1>1, StartAlone DEF AliasInv
<1>g. "none" \in Guard /\ "failed" \in Guard /\ NoSlug \in MaybeSlug
  BY AliasKinds DEF Guard
<1>4. CASE KeepsCopy(i, [start[i].m EXCEPT !.guard = "failed"]) /\ UNCHANGED <<arow, aconf, aloaded>>
  <2> DEFINE m == [start[i].m EXCEPT !.guard = "failed"]
  <2>1. m \in AliasFields /\ m.alias = start[i].m.alias /\ m.desired = start[i].m.desired /\ m.verified = start[i].m.verified
    BY <1>2, <1>g, FieldsStay
  <2>2. KeepsCopy(i, m)
    BY <1>4
  <2> HIDE DEF m
  <2> QED BY <1>1, <1>4, <2>1, <2>2, KeptCopyKeeps
<1>5. CASE /\ aconf' = [aconf EXCEPT ![i] = NoSlug]
           /\ aman' = [aman EXCEPT ![i] =
                      [Applied(start[i].m, NoSlug, "none") EXCEPT
                          !.desired = IF start[i].m.desired # NoSlug
                              THEN start[i].m.desired ELSE start[i].m.alias]]
           /\ arow' = [arow EXCEPT ![i] = NoSlug]
           /\ start' = [start EXCEPT ![i] = NoStart]
  <2>1. Applied(start[i].m, NoSlug, "none") \in AliasFields /\ Applied(start[i].m, NoSlug, "none").alias = NoSlug
    BY <1>2, <1>g, AppliedFields
  <2>2. PICK a \in MaybeSlug : /\ aman' = [aman EXCEPT ![i] = [Applied(start[i].m, NoSlug, "none") EXCEPT !.desired = a]]
                               /\ a \in {start[i].m.desired, start[i].m.alias}
    BY <1>2, <1>g, <1>5
  <2>3. /\ [Applied(start[i].m, NoSlug, "none") EXCEPT !.desired = a].alias = NoSlug
        /\ [Applied(start[i].m, NoSlug, "none") EXCEPT !.desired = a].desired = a
    BY <1>g, <2>1, FieldsStay
  <2>4. /\ aman'[i].alias = NoSlug /\ aman'[i].desired = a
        /\ aconf'[i] = NoSlug /\ arow'[i] = NoSlug /\ start'[i] = NoStart
        /\ \A j \in Inst \ {i} : aman'[j] = aman[j] /\ aconf'[j] = aconf[j] /\ arow'[j] = arow[j] /\ start'[j] = start[j]
    BY <1>2, <1>5, <2>2, <2>3 DEF AliasTyped
  <2>5. OneAliasMoves(i)
    BY <1>1, <2>4 DEF OneAliasMoves
  <2>6. StartGoes(i)' /\ StartFits(i)'
    BY <2>4, AliasKinds DEF StartGoes, StartFits
  <2>7. i \notin agh'.loose => Settles(i)'
    BY <1>1, <1>2, <2>2, <2>4, <2>6 DEF Settles, MarkStays, CopyFits
  <2> QED BY <1>1, <1>2, <2>4, <2>5, <2>6, <2>7, StartKeepsAlias
<1> QED BY <1>4, <1>5 DEF StartUnverified

LEMMA WishRefusedKeeps ==
    ASSUME AliasInv, AliasTyped', WishesGo', NEW f \in Finisher, WishRefused(f), wish[f].on \in Inst
    PROVE  AliasInv'
<1> DEFINE i == wish[f].on
           m == [wish[f].m EXCEPT !.guard = "failed"]
<1>1. /\ UNCHANGED <<aconf, up, ask, start>> /\ agh' = Written(i, wish[f].m)
      /\ aman' = [aman EXCEPT ![i] = m] /\ arow' = [arow EXCEPT ![i] = wish[f].m.alias]
  BY DEF WishRefused
<1>2. AliasTyped /\ wish[f].m \in AliasFields /\ "failed" \in Guard /\ NoSlug \in MaybeSlug
  BY AliasKinds DEF AliasInv, AliasTyped, WishKind, Guard
<1>3. m.alias = wish[f].m.alias /\ m.desired = wish[f].m.desired /\ m.verified = wish[f].m.verified
  BY <1>2, FieldsStay
<1> HIDE DEF m
<1>4. /\ aman'[i] = m /\ arow'[i] = wish[f].m.alias
      /\ \A j \in Inst \ {i} : aman'[j] = aman[j] /\ arow'[j] = arow[j]
  BY <1>1, <1>2 DEF AliasTyped
<1>5. /\ agh'.asked = agh.asked /\ agh'.once = agh.once
      /\ agh.loose \subseteq agh'.loose /\ agh'.loose \subseteq agh.loose \cup {i}
      /\ i \notin agh'.loose =>
            /\ aman[i].alias = wish[f].m.alias
            /\ aman[i].desired = wish[f].m.desired /\ aman[i].verified = wish[f].m.verified
  BY <1>1, <1>2, WrittenGhost
<1> HIDE DEF i
<1>6. i \in Inst
  BY DEF i
<1> QED BY <1>1, <1>3, <1>4, <1>5, <1>6, NoteKeepsAlias

LEMMA SwitchNotesKeeps ==
    ASSUME AliasInv, AliasTyped', WishesGo', SwitchNotes
    PROVE  AliasInv'
<1> DEFINE i == glance.on
<1>1. i \in Inst /\ AliasTyped /\ glance.m \in AliasFields /\ glance.m.alias \in MaybeSlug
  BY DEF SwitchNotes, AliasInv, AliasTyped, GlanceKind, Inst, AliasFields
<1>2. "failed" \in Guard /\ "passed" \in Guard /\ NoSlug \in MaybeSlug
  BY AliasKinds DEF Guard
<1>3. UNCHANGED <<arow, aconf, up, ask, start>> /\ agh' = Written(i, glance.m)
  BY DEF SwitchNotes
<1>4. PICK m \in AliasFields :
        /\ aman' = [aman EXCEPT ![i] = m]
        /\ m.alias = glance.m.alias /\ m.desired = glance.m.desired
        /\ m.verified \in {glance.m.verified, glance.m.alias}
  <2>1. /\ [glance.m EXCEPT !.guard = "failed"] \in AliasFields
        /\ [glance.m EXCEPT !.guard = "failed"].alias = glance.m.alias
        /\ [glance.m EXCEPT !.guard = "failed"].desired = glance.m.desired
        /\ [glance.m EXCEPT !.guard = "failed"].verified = glance.m.verified
    BY <1>1, <1>2, FieldsStay
  <2>2. /\ [glance.m EXCEPT !.guard = "passed", !.verified = glance.m.alias] \in AliasFields
        /\ [glance.m EXCEPT !.guard = "passed", !.verified = glance.m.alias].alias = glance.m.alias
        /\ [glance.m EXCEPT !.guard = "passed", !.verified = glance.m.alias].desired = glance.m.desired
        /\ [glance.m EXCEPT !.guard = "passed", !.verified = glance.m.alias].verified = glance.m.alias
    BY <1>1, <1>2, MarkedFields
  <2>3. CASE aman' = [aman EXCEPT ![i] = [glance.m EXCEPT !.guard = "failed"]]
    BY <2>1, <2>3
  <2>4. CASE aman' = [aman EXCEPT ![i] = [glance.m EXCEPT !.guard = "passed", !.verified = glance.m.alias]]
    BY <2>2, <2>4
  <2> QED BY <2>3, <2>4 DEF SwitchNotes
<1>5. aman'[i] = m /\ \A j \in Inst \ {i} : aman'[j] = aman[j]
  BY <1>1, <1>4 DEF AliasTyped
<1>6. /\ agh'.asked = agh.asked /\ agh'.once = agh.once
      /\ agh.loose \subseteq agh'.loose /\ agh'.loose \subseteq agh.loose \cup {i}
      /\ i \notin agh'.loose =>
            /\ aman[i].alias = glance.m.alias
            /\ aman[i].desired = glance.m.desired /\ aman[i].verified = glance.m.verified
  BY <1>1, <1>3, WrittenGhost
<1> HIDE DEF i
<1> QED BY <1>1, <1>3, <1>4, <1>5, <1>6, NoteKeepsAlias

LEMMA StarterDiesKeeps ==
    ASSUME AliasInv, AliasTyped', WishesGo', StarterDies
    PROVE  AliasInv'
BY NothingOfAliasMoves, StartAlone, AliasKinds, StartKeepsAlias DEF StarterDies, AliasInv,
       AliasTyped, OneAliasMoves, StartGoes, Settles, MarkStays, StartFits

(* What is decided before anything is written. *)
LEMMA JudgeEffect ==
    ASSUME AliasTyped, NEW i \in Inst, NEW a \in MaybeSlug, NEW b \in Asker,
           JudgeAlias(i, a, b)
    PROVE  /\ \A j \in Inst \ {i} : aman'[j] = aman[j]
           /\ aman'[i].alias = aman[i].alias /\ aman'[i].verified = aman[i].verified
           /\ \/ ask' = ask
              \/ /\ ask'.pc = "write" /\ ask'.on = i /\ ask'.to = a /\ ask'.by = b
                 /\ ask'.m = aman'[i] /\ a # aman[i].alias
                 /\ a # NoSlug => ~Taken(i, a)
           /\ \/ ~StillWished(i, a, b) /\ aman'[i] = aman[i] /\ ask' = ask
              \/ /\ StillWished(i, a, b) /\ aman'[i].desired \in {aman[i].desired, NoSlug, a}
                 /\ a = NoSlug => aman'[i].desired = NoSlug
<1>1. aman[i] \in AliasFields /\ "none" \in Guard /\ NoSlug \in MaybeSlug
  BY AliasKinds DEF AliasTyped, Guard
<1>2. /\ Unwish(i, a) \in AliasFields /\ Unwish(i, a).alias = aman[i].alias
      /\ Unwish(i, a).verified = aman[i].verified
      /\ Unwish(i, a).desired = IF a = NoSlug THEN NoSlug ELSE aman[i].desired
  <2>1. CASE a = NoSlug
    <3>1. Unwish(i, a) = [aman[i] EXCEPT !.desired = NoSlug]
      BY <2>1, Zenon DEF Unwish
    <3>2. /\ [aman[i] EXCEPT !.desired = NoSlug] \in AliasFields
          /\ [aman[i] EXCEPT !.desired = NoSlug].alias = aman[i].alias
          /\ [aman[i] EXCEPT !.desired = NoSlug].verified = aman[i].verified
          /\ [aman[i] EXCEPT !.desired = NoSlug].desired = NoSlug
      BY <1>1, FieldsStay
    <3> QED BY <2>1, <3>1, <3>2, Zenon
  <2>2. CASE a # NoSlug
    BY <1>1, <2>2 DEF Unwish
  <2> QED BY <2>1, <2>2
<1>3. CASE ~StillWished(i, a, b) /\ UNCHANGED <<aman, ask>>
  BY <1>3
<1>4. CASE /\ StillWished(i, a, b) /\ a = Unwish(i, a).alias
           /\ aman' = [aman EXCEPT ![i] =
                        IF a # NoSlug THEN [Unwish(i, a) EXCEPT !.desired = a] ELSE Unwish(i, a)]
           /\ UNCHANGED ask
  BY <1>1, <1>2, FieldsStay, <1>4 DEF AliasTyped
<1>5. CASE /\ StillWished(i, a, b) /\ a # Unwish(i, a).alias
           /\ a # NoSlug => ~Taken(i, a) /\ acaddy
           /\ aman' = [aman EXCEPT ![i] = Unwish(i, a)]
           /\ ask' = [NoAsk EXCEPT !.pc = "write", !.on = i, !.to = a, !.by = b, !.m = Unwish(i, a)]
  BY <1>5, AliasKinds, <1>2 DEF AliasTyped, AskKind
<1> QED BY <1>3, <1>4, <1>5 DEF JudgeAlias

LEMMA JudgedKeeps ==
    ASSUME AliasInv, AliasTyped', NEW i \in Inst, NEW a \in MaybeSlug, NEW b \in Asker,
           JudgeAlias(i, a, b), InstanceFree(i), ask.pc = "idle", WishesGo',
           UNCHANGED <<arow, aconf, up, start>>,
           agh'.loose = agh.loose, agh'.once = agh.once,
           \A j \in Inst \ {i} : agh'.asked[j] = agh.asked[j],
           i \notin agh.loose => WasAsked(i)'
    PROVE  AliasInv'
<1>1. AliasTyped
  BY DEF AliasInv
<1>2. /\ \A j \in Inst \ {i} : aman'[j] = aman[j]
      /\ aman'[i].alias = aman[i].alias /\ aman'[i].verified = aman[i].verified
      /\ \/ ask' = ask
         \/ /\ ask'.pc = "write" /\ ask'.on = i /\ ask'.to = a /\ ask'.by = b
            /\ ask'.m = aman'[i] /\ a # aman[i].alias
            /\ a # NoSlug => ~Taken(i, a)
  BY <1>1, JudgeEffect
<1>3. OneAliasMoves(i)
  BY <1>2 DEF OneAliasMoves
<1>4. ~AskOn(i)
  BY DEF AskOn
<1>5. AskGoes(i)' /\ StartGoes(i)'
  BY <1>2, <1>4 DEF AliasInv, InstanceFree, AskGoes, StartGoes, AskOn
<1>6. i \notin agh'.loose => Fits(i)'
  <2>1. SUFFICES ASSUME i \notin agh'.loose PROVE Fits(i)'
    OBVIOUS
  <2>2. Settles(i)
    BY <1>4, <2>1, AtRestSettles
  <2>3. MarkStays(i)'
    BY <1>2, <2>2 DEF Settles, MarkStays
  <2>4. RowFits(i)' /\ FragmentFits(i)'
    BY <1>2, <2>2 DEF Settles, RowFits, FragmentFits, AskOn
  <2>5. AskFits(i)'
    BY <1>2, <1>4, <2>3 DEF AskFits, AskOn, CopyFits, MarkStays
  <2>6. StartFits(i)'
    BY DEF StartFits, InstanceFree
  <2> QED BY <2>1, <2>3, <2>4, <2>5, <2>6 DEF Fits
<1>7. AskOn(i)' /\ ask'.to # NoSlug =>
          \A j \in Inst \ (agh.loose \cup {i}) : aman[j].alias # ask'.to
  BY <1>2, AtRestSettles DEF AskOn, Taken, Settles
<1> QED BY <1>2, <1>3, <1>5, <1>6, <1>7, OneMoveKeepsAlias

LEMMA AskAliasKeeps ==
    ASSUME AliasInv, AliasTyped', WishesGo', NEW i \in Inst, NEW a \in MaybeSlug, AskAlias(i, a)
    PROVE  AliasInv'
<1>1. AliasTyped /\ "user" \in Asker
  BY DEF AliasInv, Asker
<1>2. /\ ask.pc = "idle" /\ InstanceFree(i) /\ JudgeAlias(i, a, "user") /\ UNCHANGED <<arow, aconf, up, start>>
  BY DEF AskAlias
<1> DEFINE A == IF {a, aman[i].alias} = {NoSlug} THEN {} ELSE agh.asked[i] \cup ({a} \ {NoSlug})
<1>3. /\ agh'.loose = agh.loose /\ agh'.once = agh.once /\ agh'.asked[i] = A
      /\ \A j \in Inst \ {i} : agh'.asked[j] = agh.asked[j]
  BY <1>1 DEF AskAlias, AliasTyped, AliasGhost
<1>5. i \notin agh.loose => WasAsked(i)'
  <2>1. SUFFICES ASSUME i \notin agh.loose PROVE WasAsked(i)'
    OBVIOUS
  <2>2. Settles(i)
    BY <1>2, <2>1, AtRestSettles DEF AskOn
  <2>3. /\ aman'[i].alias = aman[i].alias
        /\ aman'[i].desired \in {aman[i].desired, NoSlug, a}
        /\ a = NoSlug => aman'[i].desired = NoSlug
        /\ AskOn(i)' => ask'.to = a
    BY <1>1, <1>2, JudgeEffect DEF StillWished, AskOn
  <2>4. {aman[i].alias, aman[i].desired} \subseteq agh.asked[i] \cup {NoSlug}
    BY <2>2 DEF Settles
  <2>5. CASE a = NoSlug
    BY <2>4, <1>3, <2>3, <2>5 DEF WasAsked
  <2>6. CASE a # NoSlug
    BY <2>6, <1>3, <2>3, <2>4 DEF WasAsked
  <2> QED BY <2>5, <2>6
<1> QED BY <1>1, <1>2, <1>3, <1>5, JudgedKeeps

LEMMA RestoreKeeps ==
    ASSUME AliasInv, AliasTyped', WishesGo', NEW f \in Finisher, RestoreWish(f), wish[f].on \in Inst
    PROVE  AliasInv'
<1>0. PICK i \in Inst, a \in MaybeSlug : i = wish[f].on /\ a = wish[f].m.desired
  BY DEF AliasInv, AliasTyped, WishKind, AliasFields
<1>1. AliasTyped /\ f \in Asker /\ f # "user"
  BY AliasKinds DEF AliasInv, Asker
<1>2. /\ ask.pc = "idle" /\ InstanceFree(i) /\ JudgeAlias(i, a, f)
      /\ UNCHANGED <<arow, aconf, up, start, agh>>
  BY <1>0 DEF RestoreWish
<1>3. i \notin agh.loose => WasAsked(i)'
  BY <1>1, <1>2, AtRestSettles, JudgeEffect DEF AskOn, StillWished, Settles, WasAsked
<1> QED BY <1>1, <1>2, <1>3, JudgedKeeps

(* The command gives up: what it leaves behind. *)
LEMMA FragmentGoesBack ==
    ASSUME AliasInv, NEW i \in Inst, AskOn(i), ask.pc \in {"reload", "verify"}
    PROVE  /\ \A j \in Inst \ {i} : FragmentBack[j] = aconf[j]
           /\ i \notin agh.loose => FragmentBack[i] \in {NoSlug, aman[i].alias}
BY DEF FragmentBack, AskOn, AliasInv, AliasTyped, Fits, FragmentFits, AskFits, CopyFits

LEMMA AskFailsKeeps ==
    ASSUME AliasInv, AliasTyped', WishesGo', NEW i \in Inst, AskOn(i), ask.pc \in {"reload", "verify"},
           NEW m \in AliasFields, AskFails(m), UNCHANGED <<arow, up, start>>,
           \A j \in Inst \ {i} : aconf'[j] = aconf[j],
           agh' \in {agh, Loose(i)},
           i \notin agh'.loose =>
               /\ m.alias = aman[i].alias
               /\ agh.once[i] = m.alias /\ m.alias # NoSlug => m.verified = m.alias
               /\ m.desired \in {aman[i].desired, ask.to}
               /\ aconf'[i] \in {NoSlug, aman[i].alias}
    PROVE  AliasInv'
<1>1. AliasTyped /\ AskGoes(i)
  BY DEF AliasInv
<1>2. up[i] /\ start[i].pc = "idle"
  BY <1>1 DEF AskGoes
<1>3. /\ agh'.asked = agh.asked /\ agh'.once = agh.once
      /\ agh.loose \subseteq agh'.loose /\ agh'.loose \subseteq agh.loose \cup {i}
  BY <1>1, WrittenGhost
<1>4. ask' = NoAsk /\ aman'[i] = m /\ \A j \in Inst \ {i} : aman'[j] = aman[j]
  BY <1>1 DEF AskFails, AskOn, AliasTyped
<1>5. OneAliasMoves(i)
  BY <1>3, <1>4 DEF OneAliasMoves, AskOn
<1>6. ~AskOn(i)' /\ AskGoes(i)' /\ StartGoes(i)'
  BY <1>2, <1>4, AliasKinds DEF AskGoes, StartGoes, AskOn
<1>7. i \notin agh'.loose => Fits(i)' /\ aman'[i].alias = aman[i].alias
  BY <1>3, <1>4, <1>2, <1>6 DEF AliasInv, Fits, RowFits, MarkStays, Settles, WasAsked, StartFits,
         AskFits, FragmentFits
<1> QED BY <1>4, <1>5, <1>6, <1>7, OneMoveKeepsAlias

LEMMA WriteKeeps ==
    ASSUME AliasInv, AliasTyped', WishesGo', WriteFragment
    PROVE  AliasInv'
<1>1. PICK i \in Inst : AskOn(i) /\ ask.on = i
  BY DEF WriteFragment, AliasInv, AskHasOne, AskOn
<1>2. /\ AliasTyped /\ AskGoes(i) /\ StartGoes(i) /\ ask.pc = "write" /\ ask \in AskKind
      /\ UNCHANGED <<aman, arow, up, start, agh>>
  BY DEF WriteFragment, AliasInv, AliasTyped
<1>3. \/ /\ up[i] /\ aconf'[i] = ask.to /\ ask'.pc = "reload" /\ ask'.had = aconf[i]
      \/ /\ aconf'[i] \in {NoSlug, aconf[i]}
         /\ ~up[i] \/ aconf'[i] = NoSlug
         /\ ask'.pc = "save"
  <2>1. CASE Synced(i)
    BY <1>1, <2>1, <1>2 DEF WriteFragment, Synced, AliasTyped, AskKind
  <2>2. CASE ~Synced(i)
    BY <1>1, <2>2, <1>2 DEF WriteFragment, AskKind, Synced, AliasTyped
  <2> QED BY <2>1, <2>2
<1>4. ask'.on = i /\ ask'.to = ask.to /\ ask'.m = ask.m /\ ask'.by = ask.by
  BY <1>1, <1>2 DEF WriteFragment, AskKind
<1>5. \A j \in Inst \ {i} : aconf'[j] = aconf[j]
  BY <1>1, <1>2 DEF WriteFragment, AliasTyped
<1>6. OneAliasMoves(i)
  BY <1>1, <1>2, <1>3, <1>4, <1>5 DEF OneAliasMoves
<1>7. AskOn(i)' /\ ask'.pc \in {"reload", "save"}
  BY <1>3, <1>4 DEF AskOn
<1>8. AskGoes(i)'
  BY <1>1, <1>2, <1>3, <1>4 DEF AskGoes, AskOn
<1>9. StartGoes(i)'
  BY <1>2, <1>3 DEF StartGoes
<1>10. i \notin agh'.loose => Fits(i)'
  <2>1. SUFFICES ASSUME i \notin agh'.loose PROVE Fits(i)'
    OBVIOUS
  <2>2. Fits(i)
    BY <1>2, <2>1 DEF AliasInv
  <2>3. aconf[i] \in {NoSlug, aman[i].alias} /\ CopyFits(i, ask.m) /\ ask.to # aman[i].alias /\ arow[i] = aman[i].alias
    BY <1>1, <1>2, <2>2 DEF Fits, RowFits, AskFits, FragmentFits
  <2>4. ~up[i] => aconf[i] = NoSlug
    BY <1>2 DEF StartGoes
  <2>5. RowFits(i)' /\ AskFits(i)' /\ StartFits(i)'
    BY <1>2, <1>4, <1>7, <2>2, <2>3 DEF Fits, RowFits, AskFits, StartFits, CopyFits
  <2>6. FragmentFits(i)'
    BY <1>2, <1>3, <1>4, <1>7, <2>3, <2>4 DEF FragmentFits
  <2>7. WasAsked(i)' /\ MarkStays(i)'
    BY <1>1, <1>2, <1>4, <2>2 DEF Fits, WasAsked, MarkStays
  <2> QED BY <2>5, <2>6, <2>7 DEF Fits
<1> QED BY <1>1, <1>2, <1>4, <1>6, <1>8, <1>9, <1>10, OneMoveKeepsAlias

LEMMA ReloadKeeps ==
    ASSUME AliasInv, AliasTyped', WishesGo', ReloadAsked
    PROVE  AliasInv'
<1>1. PICK i \in Inst : AskOn(i) /\ ask.on = i
  BY DEF ReloadAsked, AliasInv, AskHasOne, AskOn
<1>2. /\ AliasTyped /\ AskGoes(i) /\ StartGoes(i) /\ ask.pc = "reload" /\ ask \in AskKind /\ up' = up
      /\ aman[i] \in AliasFields
  BY DEF ReloadAsked, AliasInv, AliasTyped
<1>3. CASE /\ ask' = [ask EXCEPT !.pc = IF ask.to # NoSlug THEN "verify" ELSE "save"]
           /\ UNCHANGED <<aman, arow, aconf, start, agh>>
  <2>1. /\ ask'.pc = IF ask.to # NoSlug THEN "verify" ELSE "save"
        /\ ask'.on = i /\ ask'.to = ask.to /\ ask'.m = ask.m /\ ask'.by = ask.by /\ ask'.had = ask.had
    BY <1>1, <1>2, <1>3 DEF AskKind
  <2>2. OneAliasMoves(i)
    BY <1>1, <1>2, <1>3, <2>1 DEF OneAliasMoves
  <2>3. AskOn(i)' /\ AskGoes(i)'
    BY <1>1, <1>2, <1>3, <2>1 DEF AskGoes, AskOn
  <2>4. StartGoes(i)'
    BY <1>2, <1>3 DEF StartGoes
  <2>5. i \notin agh'.loose => Fits(i)'
    BY <1>3, <1>1, <1>2, <2>1, <2>3 DEF AliasInv, Fits, RowFits, AskFits, StartFits, CopyFits,
           FragmentFits, WasAsked, MarkStays
  <2> QED BY <1>1, <1>3, <2>1, <2>2, <2>3, <2>4, <2>5, OneMoveKeepsAlias
<1>4. CASE aconf' = FragmentBack /\ AskFails(aman[ask.on]) /\ UNCHANGED <<arow, start, agh>>
  BY <1>1, <1>4, <1>2, FragmentGoesBack, AskFailsKeeps DEF AliasInv, Fits, MarkStays
<1> QED BY <1>3, <1>4 DEF ReloadAsked

(* The live check has answered, or was not made. *)
LEMMA CheckedKeeps ==
    ASSUME AliasInv, AliasTyped', WishesGo', ask.pc = "verify", NEW i \in Inst, AskOn(i),
           ask'.pc = "save", ask'.on = i, ask'.to = ask.to, ask'.m.alias = ask.m.alias, ask'.by = ask.by,
           UNCHANGED <<aman, arow, aconf, up, start>>, agh'.asked = agh.asked, agh'.loose = agh.loose,
           \A j \in Inst \ {i} : agh'.once[j] = agh.once[j], agh'.once[i] \in {agh.once[i], ask.to}
    PROVE  AliasInv'
<1>1. AskGoes(i) /\ StartGoes(i)
  BY DEF AliasInv
<1>2. OneAliasMoves(i)
  BY DEF OneAliasMoves, AskOn
<1>3. AskOn(i)' /\ AskGoes(i)'
  BY <1>1 DEF AskGoes, AskOn
<1>4. StartGoes(i)'
  BY <1>1 DEF StartGoes
<1>5. i \notin agh'.loose => Fits(i)'
  <2>1. SUFFICES ASSUME i \notin agh'.loose PROVE Fits(i)'
    OBVIOUS
  <2>2. Fits(i)
    BY <2>1 DEF AliasInv
  <2>3. ask.m.alias = aman[i].alias /\ ask.to # aman[i].alias /\ aconf[i] = ask.to
    BY <2>2 DEF Fits, AskFits, FragmentFits, CopyFits
  <2>4. RowFits(i)' /\ AskFits(i)' /\ StartFits(i)'
    BY <1>1, <1>3, <2>2, <2>3 DEF Fits, RowFits, AskFits, StartFits, AskGoes
  <2>5. FragmentFits(i)'
    BY <1>3, <2>3 DEF FragmentFits
  <2>6. WasAsked(i)' /\ MarkStays(i)'
    BY <2>2, <2>3 DEF Fits, WasAsked, MarkStays
  <2> QED BY <2>4, <2>5, <2>6 DEF Fits
<1> QED BY <1>2, <1>3, <1>4, <1>5, OneMoveKeepsAlias

LEMMA PassesKeeps ==
    ASSUME AliasInv, AliasTyped', WishesGo', VerifyPasses
    PROVE  AliasInv'
<1>1. PICK i \in Inst : AskOn(i) /\ ask.on = i
  BY DEF VerifyPasses, AliasInv, AskHasOne, AskOn
<1>2. /\ ask.pc = "verify" /\ ask \in AskKind /\ ask.m \in AliasFields /\ agh \in AliasGhost
      /\ UNCHANGED <<aman, arow, aconf, up, start>>
  BY DEF VerifyPasses, AliasInv, AliasTyped, AskKind
<1>3. ask'.pc = "save" /\ ask'.on = i /\ ask'.to = ask.to /\ ask'.m.alias = ask.m.alias /\ ask'.by = ask.by
  BY <1>1, <1>2 DEF VerifyPasses, AskKind, AliasFields
<1>4. /\ agh'.asked = agh.asked /\ agh'.loose = agh.loose /\ agh'.once[i] = ask.to
      /\ \A j \in Inst \ {i} : agh'.once[j] = agh.once[j]
  BY <1>1, <1>2 DEF VerifyPasses, AliasGhost
<1> QED BY <1>1, <1>2, <1>3, <1>4, CheckedKeeps

LEMMA SkippedKeeps ==
    ASSUME AliasInv, AliasTyped', WishesGo', VerifySkipped
    PROVE  AliasInv'
BY CheckedKeeps DEF VerifySkipped, AliasInv, AskHasOne, AskOn, AliasTyped, AskKind

(* The check refuses the alias: the wish is kept. *)
LEMMA WishFields ==
    ASSUME AliasInv, NEW i \in Inst, AskOn(i), ask.pc = "verify"
    PROVE  /\ [ask.m EXCEPT !.desired = ask.to] \in AliasFields
           /\ i \notin agh.loose =>
                 /\ [ask.m EXCEPT !.desired = ask.to].alias = aman[i].alias
                 /\ agh.once[i] = ask.m.alias /\ ask.m.alias # NoSlug
                    => [ask.m EXCEPT !.desired = ask.to].verified = ask.m.alias
                 /\ [ask.m EXCEPT !.desired = ask.to].desired = ask.to
<1>1. ask.m \in AliasFields /\ ask.to \in MaybeSlug /\ "none" \in Guard
  BY DEF AliasInv, AliasTyped, AskKind, Guard
<1>2. i \notin agh.loose => CopyFits(i, ask.m)
  BY DEF AliasInv, Fits, AskFits
<1>3. /\ [ask.m EXCEPT !.desired = ask.to] \in AliasFields
      /\ [ask.m EXCEPT !.desired = ask.to].alias = ask.m.alias
      /\ [ask.m EXCEPT !.desired = ask.to].desired = ask.to
      /\ [ask.m EXCEPT !.desired = ask.to].verified = ask.m.verified
  BY <1>1, FieldsStay
<1> QED BY <1>2, <1>3 DEF CopyFits

LEMMA FailsKeeps ==
    ASSUME AliasInv, AliasTyped', WishesGo', VerifyFails
    PROVE  AliasInv'
<1>1. PICK i \in Inst : AskOn(i) /\ ask.on = i
  BY DEF VerifyFails, AliasInv, AskHasOne, AskOn
<1> DEFINE m == [ask.m EXCEPT !.desired = ask.to]
<1>2. /\ ask.pc = "verify" /\ aconf' = FragmentBack /\ UNCHANGED <<arow, up, start, agh>>
      /\ AskFails(m)
  BY DEF VerifyFails, AfterRefusal
<1>3. /\ \A j \in Inst \ {i} : aconf'[j] = aconf[j]
      /\ i \notin agh.loose => aconf'[i] \in {NoSlug, aman[i].alias}
  BY <1>1, <1>2, FragmentGoesBack
<1>4. /\ m \in AliasFields
      /\ i \notin agh.loose =>
            /\ m.alias = aman[i].alias /\ m.desired = ask.to
            /\ agh.once[i] = m.alias /\ m.alias # NoSlug => m.verified = m.alias
  <2>1. ask.m \in AliasFields /\ ask.to \in MaybeSlug /\ "none" \in Guard
    BY DEF AliasInv, AliasTyped, AskKind, Guard
  <2>2. m.alias = ask.m.alias
    BY <2>1, FieldsStay
  <2> QED BY <1>1, <1>2, <2>2, WishFields
<1> HIDE DEF m
<1> QED BY <1>1, <1>2, <1>3, <1>4, AskFailsKeeps

LEMMA BreaksKeeps ==
    ASSUME AliasInv, AliasTyped', WishesGo', VerifyBreaks
    PROVE  AliasInv'
<1>1. PICK i \in Inst : AskOn(i) /\ ask.on = i
  BY DEF VerifyBreaks, AliasInv, AskHasOne, AskOn
<1>2. ask.pc = "verify" /\ UNCHANGED <<arow, up, start>> /\ agh' = Loose(i) /\ AliasTyped /\ aman[i] \in AliasFields
  BY <1>1 DEF VerifyBreaks, AliasInv, AliasTyped
<1>3. i \in agh'.loose
  BY <1>2, WrittenGhost
<1>4. \A j \in Inst \ {i} : aconf'[j] = aconf[j]
  BY <1>1, <1>2, FragmentGoesBack DEF VerifyBreaks, AfterRefusal
<1>5. PICK m \in AliasFields : AskFails(m)
  BY <1>1, <1>2, WishFields DEF VerifyBreaks
<1> QED BY <1>1, <1>2, <1>3, <1>4, <1>5, AskFailsKeeps

LEMMA SaveKeeps ==
    ASSUME AliasInv, AliasTyped', WishesGo', SaveAlias
    PROVE  AliasInv'
<1>1. PICK i \in Inst : AskOn(i) /\ ask.on = i
  BY DEF SaveAlias, AliasInv, AskHasOne, AskOn
<1>2. /\ ask.pc = "save" /\ ask \in AskKind /\ ask.m \in AliasFields /\ ask.to \in MaybeSlug /\ ask.guard \in Guard
      /\ AliasTyped /\ AskGoes(i) /\ StartGoes(i) /\ agh \in AliasGhost
      /\ UNCHANGED <<arow, aconf, up, start>>
  BY DEF SaveAlias, AliasInv, AliasTyped, AskKind
<1> DEFINE w == Applied(ask.m, ask.to, ask.guard)
<1>3. w.alias = ask.to /\ w.desired = ask.to /\ (ask.m.verified = ask.to => w.verified = ask.to)
  BY <1>2, AppliedFields
<1>4. aman'[i] = w /\ \A j \in Inst \ {i} : aman'[j] = aman[j]
  BY <1>1, <1>2 DEF SaveAlias, AliasTyped
<1> HIDE DEF w
<1>5. ask'.pc = "row" /\ ask'.on = i /\ ask'.to = ask.to /\ ask'.by = ask.by
  BY <1>1, <1>2 DEF SaveAlias, AskKind
<1>6. /\ agh'.loose = agh.loose
      /\ agh'.asked[i] = IF ask.to # NoSlug THEN agh.asked[i] ELSE {}
      /\ agh'.once[i] = IF ask.m.verified = ask.to THEN agh.once[i] ELSE NoSlug
      /\ \A j \in Inst \ {i} : agh'.asked[j] = agh.asked[j] /\ agh'.once[j] = agh.once[j]
  BY <1>1, <1>2 DEF SaveAlias, AliasGhost
<1>7. OneAliasMoves(i)
  BY <1>1, <1>2, <1>4, <1>5, <1>6 DEF OneAliasMoves
<1>8. AskOn(i)' /\ AskGoes(i)' /\ StartGoes(i)'
  BY <1>1, <1>2, <1>5 DEF AskGoes, StartGoes, AskOn
<1>9. i \notin agh'.loose => Fits(i)'
  BY <1>6, <1>1, <1>2, <1>3, <1>4, <1>5, <1>8 DEF AliasInv, RowFits, AskFits, StartFits, AskGoes,
         Fits, FragmentFits, WasAsked, MarkStays
<1>10. aman'[i].alias = ask.to
  BY <1>3, <1>4
<1> QED BY <1>1, <1>5, <1>7, <1>8, <1>9, <1>10, OneMoveKeepsAlias

LEMMA UpsertKeeps ==
    ASSUME AliasInv, AliasTyped', WishesGo', UpsertAlias
    PROVE  AliasInv'
<1>1. PICK i \in Inst : AskOn(i) /\ ask.on = i
  BY DEF UpsertAlias, AliasInv, AskHasOne, AskOn
<1>2. /\ ask.pc = "row" /\ AliasTyped /\ AskGoes(i) /\ StartGoes(i) /\ ask' = NoAsk
      /\ UNCHANGED <<aman, aconf, up, start, agh>>
  BY DEF UpsertAlias, AliasInv
<1>3. arow'[i] = ask.to /\ \A j \in Inst \ {i} : arow'[j] = arow[j]
  BY <1>1, <1>2 DEF UpsertAlias, AliasTyped
<1>4. OneAliasMoves(i)
  BY <1>1, <1>2, <1>3 DEF OneAliasMoves
<1>5. ~AskOn(i)' /\ AskGoes(i)' /\ StartGoes(i)'
  BY <1>2, AliasKinds DEF AskGoes, StartGoes, AskOn
<1>6. i \notin agh'.loose => Fits(i)'
  <2>1. SUFFICES ASSUME i \notin agh'.loose PROVE Fits(i)'
    OBVIOUS
  <2>2. Fits(i)
    BY <1>2, <2>1 DEF AliasInv
  <2>3. /\ ask.to = aman[i].alias /\ aconf[i] \in {NoSlug, aman[i].alias}
        /\ WasAsked(i) /\ MarkStays(i) /\ StartFits(i)
    BY <1>1, <1>2, <2>2 DEF Fits, AskFits, FragmentFits
  <2>4. Settles(i)'
    BY <1>2, <1>3, <2>3 DEF Settles, WasAsked, MarkStays, StartFits, CopyFits
  <2> QED BY <1>5, <2>4 DEF Settles, Fits, RowFits, AskFits, FragmentFits, WasAsked
<1> QED BY <1>2, <1>4, <1>5, <1>6, OneMoveKeepsAlias

LEMMA DiesKeeps ==
    ASSUME AliasInv, AliasTyped', WishesGo', AskDies
    PROVE  AliasInv'
<1>1. PICK i \in Inst : AskOn(i) /\ ask.on = i
  BY DEF AskDies, AliasInv, AskHasOne, AskOn
<1>2. /\ AliasTyped /\ StartGoes(i) /\ ask' = NoAsk /\ agh' = Loose(i)
      /\ UNCHANGED <<aman, arow, aconf, up, start>>
  BY <1>1 DEF AskDies, AliasInv
<1>3. agh'.asked = agh.asked /\ agh'.once = agh.once /\ agh'.loose = agh.loose \cup {i}
  BY <1>2, WrittenGhost
<1>4. OneAliasMoves(i)
  BY <1>1, <1>2, <1>3 DEF OneAliasMoves
<1>5. ~AskOn(i)' /\ AskGoes(i)' /\ StartGoes(i)'
  BY <1>2, AliasKinds DEF AskGoes, StartGoes, AskOn
<1> QED BY <1>3, <1>4, <1>5, OneMoveKeepsAlias

LEMMA AliasStays == AliasInv /\ [AliasNext]_aliasVars => AliasInv'
<1> SUFFICES ASSUME AliasInv, [AliasNext]_aliasVars PROVE AliasInv'
  OBVIOUS
<1>1. CASE AliasCommand
  <2>1. AliasTyped' /\ WishesGo'
    BY <1>1, AskActsTyped
  <2>2. ASSUME NEW i \in Inst, NEW a \in MaybeSlug, AskAlias(i, a)
        PROVE  AliasInv'
    BY <2>1, <2>2, AskAliasKeeps
  <2> QED BY <1>1, <2>1, <2>2, WriteKeeps, ReloadKeeps, PassesKeeps, SkippedKeeps, FailsKeeps,
             BreaksKeeps, SaveKeeps, UpsertKeeps, DiesKeeps DEF AliasCommand
<1>2. ASSUME NEW i \in Inst, AliasStart(i)
      PROVE  AliasInv'
  BY <1>2, StartActsTyped, DeployKeeps, NothingOfAliasMoves, SyncPortKeeps, StartVerifiedKeeps,
     StartUnverifiedKeeps, StopKeeps DEF SwitchGlances, AliasStart
<1>3. ASSUME NEW f \in Finisher, AliasFinish(f)
      PROVE  AliasInv'
  BY <1>3, FinishActsTyped, NothingOfAliasMoves, RestoreKeeps, WishRefusedKeeps DEF LookForWish,
         WishTurnedDown, AliasFinish
<1>4. CASE StarterDies \/ SwitchNotes
  BY <1>4, OtherActsTyped, StarterDiesKeeps, SwitchNotesKeeps
<1>5. CASE UNCHANGED aliasVars
  BY <1>5, NothingOfAliasMoves DEF aliasVars, AliasInv, AliasTyped, WishesGo
<1> QED BY <1>1, <1>2, <1>3, <1>4, <1>5 DEF AliasNext

LEMMA AliasBegins == AliasInit => AliasInv
<1> SUFFICES ASSUME AliasInit PROVE AliasInv
  OBVIOUS
<1>1. AliasTyped
  BY AliasKinds DEF AliasInit, AliasGhost, AliasTyped
<1>2. /\ ask.pc = "idle" /\ agh.asked = [i \in Inst |-> {}]
      /\ \A i \in Inst : /\ aman[i] = Plain /\ arow[i] = NoSlug /\ aconf[i] = NoSlug /\ start[i].pc = "idle"
  BY AliasKinds DEF AliasInit
<1>w. WishesGo
  BY AliasKinds DEF AliasInit, WishesGo
<1>3. ASSUME NEW i \in Inst
      PROVE  ~AskOn(i) /\ AskGoes(i) /\ StartGoes(i) /\ Fits(i)
  <2>1. ~AskOn(i) /\ AskGoes(i) /\ StartGoes(i)
    BY <1>2 DEF AskOn, AskGoes, StartGoes
  <2>2. Fits(i)
    BY <1>2, <2>1, AliasKinds DEF Fits, RowFits, AskFits, StartFits, FragmentFits, WasAsked,
       MarkStays
  <2> QED BY <2>1, <2>2
<1>4. \A i, j \in Inst : Distinct(i, j)
  BY <1>2, <1>3, AliasKinds DEF Distinct
<1>5. ask.on = "nobody"
  BY AliasKinds DEF AliasInit
<1> QED BY <1>1, <1>2, <1>w, <1>3, <1>4, <1>5 DEF AliasInv, AskHasOne

(* The places an alias stands in agree on every instance that is not loose,  *)
(* whoever is at work.                                                       *)
THEOREM AliasInvariant == AliasSpec => []AliasInv
<1> QED BY AliasBegins, AliasStays, PTL DEF AliasSpec

(* What the invariant says of finished commands and starts. *)
LEMMA AliasInvTells == AliasInv => AliasTypeOK /\ AliasesApart /\ ClearedStays
<1> SUFFICES ASSUME AliasInv PROVE AliasTypeOK /\ AliasesApart /\ ClearedStays
  OBVIOUS
<1>1. AliasTypeOK
  BY DEF AliasInv, AliasTyped, AliasTypeOK, AskKind, StartKind, WishKind, GlanceKind
<1>2. ASSUME NEW i \in Inst \ agh.loose, InstanceFree(i)
      PROVE  Settles(i)
  BY <1>2, AtRestSettles DEF InstanceFree, AskOn
<1>3. AliasesApart
  BY <1>2 DEF AliasesApart, AliasInv, Distinct, Settles
<1>4. ClearedStays
  BY DEF ClearedStays, AliasInv, Fits, WasAsked
<1> QED BY <1>1, <1>3, <1>4

(* A start does not withdraw what passed a live check. *)
LEMMA StartKeepsVerified ==
    AliasInv /\ [AliasNext]_aliasVars =>
        \A i \in Inst \ agh.loose :
            start[i].pc = "verify" /\ start'[i].pc # "verify"
            /\ aman[i].alias # NoSlug /\ agh.once[i] = aman[i].alias
            => aman'[i].alias = aman[i].alias
<1> SUFFICES ASSUME AliasInv, [AliasNext]_aliasVars, NEW i \in Inst \ agh.loose,
                    start[i].pc = "verify", start'[i].pc # "verify",
                    aman[i].alias # NoSlug, agh.once[i] = aman[i].alias
             PROVE  aman'[i].alias = aman[i].alias
  OBVIOUS
<1>1. start[i].m.alias = aman[i].alias /\ start[i].m.verified = aman[i].alias
  BY StartAlone DEF CopyFits
<1>2. AliasTyped /\ start[i].m \in AliasFields /\ start[i].m.alias \in MaybeSlug
  BY StartAlone DEF AliasInv
<1>3. CASE UNCHANGED start
  BY <1>3
<1>4. ASSUME NEW j \in Inst, start' = [start EXCEPT ![j] = NoStart], UNCHANGED aman
      PROVE  aman'[i].alias = aman[i].alias
  BY <1>4
<1>5. ASSUME NEW j \in Inst, AliasStart(j), j # i
      PROVE  start'[i] = start[i]
  BY <1>2, <1>5 DEF StartVerified, StartUnverified, AliasStart, AliasTyped, Deploy, SyncAliasPort,
         KeepsCopy, StopServing, SwitchGlances
<1>6. CASE StartVerified(i) \/ StartUnverified(i)
  <2>2. PICK g \in Guard, v \in MaybeSlug :
            \/ KeepsCopy(i, start[i].m) \/ KeepsCopy(i, [start[i].m EXCEPT !.guard = g])
            \/ KeepsCopy(i, [start[i].m EXCEPT !.guard = g, !.verified = v])
    BY <1>1, <1>2, <1>6 DEF Guard, Established, StartVerified, StartUnverified
  <2>3. /\ [start[i].m EXCEPT !.guard = g] \in AliasFields
        /\ [start[i].m EXCEPT !.guard = g].alias = start[i].m.alias
    BY <1>2, FieldsStay
  <2>4. /\ [start[i].m EXCEPT !.guard = g, !.verified = v] \in AliasFields
        /\ [start[i].m EXCEPT !.guard = g, !.verified = v].alias = start[i].m.alias
    <3>1. start[i].m \in AliasFields
      BY <1>2
    <3> QED BY <3>1, MarkedFields
  <2>5. PICK m \in AliasFields : KeepsCopy(i, m) /\ m.alias = start[i].m.alias
    BY <1>2, <2>2, <2>3, <2>4
  <2>6. aman'[i] = m
    BY <1>2, <2>5, CopyWrites
  <2> QED BY <1>1, <2>5, <2>6
<1>7. ASSUME NEW j \in Inst, AliasStart(j)
      PROVE  aman'[i].alias = aman[i].alias
  BY <1>5, <1>7, <1>6 DEF Deploy, SyncAliasPort, StopServing, SwitchGlances, AliasStart
<1>8. CASE AliasCommand
  BY <1>3, <1>8 DEF AliasCommand, AskAlias, WriteFragment, ReloadAsked, VerifyPasses,
     VerifySkipped, VerifyFails,
     VerifyBreaks, SaveAlias, UpsertAlias, AskDies
<1>9. ASSUME NEW f \in Finisher, AliasFinish(f)
      PROVE  aman'[i].alias = aman[i].alias
  BY <1>3, <1>9 DEF AliasFinish, LookForWish, RestoreWish, WishTurnedDown, WishRefused
<1>10. CASE StarterDies
  BY <1>10 DEF StarterDies
<1>11. CASE SwitchNotes \/ UNCHANGED aliasVars
  BY <1>3, <1>11 DEF SwitchNotes, aliasVars
<1> QED BY <1>7, <1>8, <1>9, <1>10, <1>11 DEF AliasNext

(* Aliases of instances that are not loose: two never hold one, what was     *)
(* cleared does not come back, and what passed a live check stays.           *)
THEOREM AliasStaysSafe == AliasSpec => AliasIsSafe
<1>1. AliasInv => AliasTypeOK /\ AliasesApart /\ ClearedStays
  BY AliasInvTells
<1>2. AliasInv /\ [AliasNext]_aliasVars =>
        [\A i \in Inst \ agh.loose : start[i].pc = "verify" /\ start'[i].pc # "verify"
            /\ aman[i].alias # NoSlug /\ agh.once[i] = aman[i].alias
          => aman'[i].alias = aman[i].alias]_aliasVars
  BY StartKeepsVerified
<1> QED BY <1>1, <1>2, AliasInvariant, PTL DEF AliasSpec, AliasIsSafe, VerifiedStays

============================================================================
