----------------------------- MODULE EntryCert -----------------------------
(* The certificate of the HTTPS entry for addresses that are not the        *)
(* machine's own (static_gateway.py, ensure_entry_tls_cert): whoever        *)
(* renders the main Caddyfile checks the certificate on disk against the    *)
(* record of its issue and signs a new one when that is out of date; Caddy  *)
(* reads the files when it loads a changed configuration or is forced to.   *)
EXTENDS Integers

CONSTANTS Renderer,   \* processes that render and reload
          NoRenderer,
          Net,        \* sets of entry addresses the host may have
          MaxSerial,  \* bound: certificates signed
          MaxTrip     \* bound: crashes, failing steps, changes of network and root, ageing

ASSUME CertAssumption == /\ NoRenderer \notin Renderer /\ Net # {}
                         /\ MaxSerial \in Nat \ {0} /\ MaxTrip \in Nat

VARIABLES
    net, root,   \* the addresses now; the generation of the root CA
    keyF, crtF,  \* the key and the certificate on disk: the serial they belong to
    metaF,       \* the record of the issue: serial, addresses, root, near its end
    tlsLk,
    rend,        \* the renderers
    conf,        \* what the main Caddyfile says of TLS
    loaded,      \* what Caddy runs: the configuration and the certificate it read
    egh,         \* ghost: a signing was cut, a reload failed after a signing
    spentCert

certVars  == <<net, root, keyF, crtF, metaF, tlsLk, rend, conf, loaded, egh, spentCert>>
certFiles == <<keyF, crtF, metaF>>
entryVars  == <<net, root>>

NoIssue == [n |-> 0, names |-> "none", root |-> 0, aged |-> FALSE]
Issue(n, names) == [n |-> n, names |-> names, root |-> root, aged |-> FALSE]
NoRend  == [pc |-> "idle", new |-> NoIssue, renewed |-> FALSE]
NoTls   == [way |-> "internal", names |-> "none"]
ByFile(names) == [way |-> "file", names |-> names]
NoLoad  == [conf |-> NoTls, crt |-> NoIssue]

Trip   == spentCert.trips < MaxTrip /\ spentCert' = [spentCert EXCEPT !.trips = @ + 1]
NoTrip == UNCHANGED spentCert

CertInit ==
    /\ net \in Net /\ root = 1
    /\ keyF = 0 /\ crtF = NoIssue /\ metaF = NoIssue
    /\ tlsLk = NoRenderer /\ rend = [r \in Renderer |-> NoRend]
    /\ conf = NoTls /\ loaded = NoLoad
    /\ egh = [cut |-> FALSE, missed |-> FALSE]
    /\ spentCert = [serial |-> 0, trips |-> 0]

----------------------------------------------------------------------------
(* _entry_cert_current: the record is compared, not the files it is about.  *)
Current(names) ==
    /\ keyF # 0 /\ crtF # NoIssue /\ metaF # NoIssue
    /\ metaF.names = names /\ metaF.root = root /\ ~metaF.aged

(* One signing at a time.  Mutant: no lock. *)
TlsLockFree_No == TRUE
TlsLockFree == tlsLk = NoRenderer

CheckCert(r) ==
    /\ rend[r].pc = "idle" /\ TlsLockFree
    /\ IF Current(net)
       THEN /\ rend' = [rend EXCEPT ![r] = [pc |-> "text", new |-> metaF, renewed |-> FALSE]]
            /\ UNCHANGED <<tlsLk, spentCert>>
       ELSE /\ spentCert.serial < MaxSerial
            /\ spentCert' = [spentCert EXCEPT !.serial = @ + 1]
            /\ rend' = [rend EXCEPT ![r] = [pc |-> "key", new |-> Issue(spentCert.serial + 1, net),
                                            renewed |-> FALSE]]
            /\ tlsLk' = r
    /\ UNCHANGED <<entryVars, certFiles, conf, loaded, egh>>

(* _sign_entry_leaf ends with the key, the certificate and the record, in   *)
(* this order.                                                              *)
PutKey(r) ==
    /\ rend[r].pc = "key" /\ keyF' = rend[r].new.n
    /\ rend' = [rend EXCEPT ![r].pc = "crt"]
    /\ UNCHANGED <<entryVars, crtF, metaF, tlsLk, conf, loaded, egh, spentCert>>

PutCert(r) ==
    /\ rend[r].pc = "crt" /\ crtF' = rend[r].new
    /\ rend' = [rend EXCEPT ![r].pc = "meta"]
    /\ UNCHANGED <<entryVars, keyF, metaF, tlsLk, conf, loaded, egh, spentCert>>

PutMeta(r) ==
    /\ rend[r].pc = "meta" /\ metaF' = rend[r].new
    /\ rend' = [rend EXCEPT ![r].pc = "text", ![r].renewed = TRUE]
    /\ tlsLk' = NoRenderer
    /\ UNCHANGED <<entryVars, keyF, crtF, conf, loaded, egh, spentCert>>

(* Signing that fails leaves the entry to Caddy's own certificates.         *)
SignFails(r) ==
    /\ rend[r].pc \in {"key", "crt", "meta"} /\ Trip
    /\ tlsLk' = NoRenderer
    /\ conf' = NoTls
    /\ rend' = [rend EXCEPT ![r].pc = "load", ![r].renewed = FALSE]
    /\ egh' = [egh EXCEPT !.cut = TRUE]
    /\ UNCHANGED <<entryVars, certFiles, loaded>>

WriteText(r) ==
    /\ rend[r].pc = "text" /\ conf' = ByFile(rend[r].new.names)
    /\ rend' = [rend EXCEPT ![r].pc = "load"]
    /\ UNCHANGED <<entryVars, certFiles, tlsLk, loaded, egh, spentCert>>

(* caddy reload reads nothing anew when the configuration has not changed,  *)
(* unless it is forced to.  Mutant: it never is.                            *)
Forced_No(r) == FALSE
Forced(r) == rend[r].renewed

Readable == conf.way = "internal" \/ keyF = crtF.n

LoadConf(r) ==
    /\ rend[r].pc = "load"
    /\ rend' = [rend EXCEPT ![r] = NoRend]
    /\ IF conf = loaded.conf /\ ~Forced(r) THEN UNCHANGED <<loaded, egh, spentCert>>
       ELSE \/ /\ Readable /\ NoTrip /\ UNCHANGED egh
               /\ loaded' = [conf |-> conf, crt |-> IF conf.way = "file" THEN crtF ELSE NoIssue]
            \/ /\ IF Readable THEN Trip ELSE NoTrip
               /\ egh' = [egh EXCEPT !.missed = TRUE] /\ UNCHANGED loaded
    /\ UNCHANGED <<entryVars, certFiles, tlsLk, conf>>

----------------------------------------------------------------------------
RendererDies(r) ==
    /\ rend[r].pc # "idle" /\ Trip
    /\ rend' = [rend EXCEPT ![r] = NoRend]
    /\ tlsLk' = IF tlsLk = r THEN NoRenderer ELSE tlsLk
    /\ egh' = [egh EXCEPT !.cut = @ \/ rend[r].pc \in {"crt", "meta"},
                          !.missed = @ \/ rend[r].pc \in {"text", "load"}]
    /\ UNCHANGED <<entryVars, certFiles, conf, loaded>>

(* The address of the host changes, and may change back. *)
NetChanges ==
    /\ Trip /\ net' \in Net \ {net}
    /\ UNCHANGED <<root, certFiles, tlsLk, rend, conf, loaded, egh>>

RootRenewed ==
    /\ Trip /\ root = 1 /\ root' = 2
    /\ UNCHANGED <<net, certFiles, tlsLk, rend, conf, loaded, egh>>

CertAges ==
    /\ Trip /\ metaF # NoIssue /\ ~metaF.aged /\ metaF' = [metaF EXCEPT !.aged = TRUE]
    /\ UNCHANGED <<entryVars, keyF, crtF, tlsLk, rend, conf, loaded, egh>>

CertNext ==
    \/ \E r \in Renderer :
         \/ CheckCert(r) \/ PutKey(r) \/ PutCert(r) \/ PutMeta(r) \/ SignFails(r)
         \/ WriteText(r) \/ LoadConf(r) \/ RendererDies(r)
    \/ NetChanges \/ RootRenewed \/ CertAges

CertSpec == CertInit /\ [][CertNext]_certVars

----------------------------------------------------------------------------
(* Properties                                                               *)

Serials == 0..MaxSerial

CertTypeOK ==
    /\ keyF \in Serials /\ crtF.n \in Serials /\ metaF.n \in Serials
    /\ tlsLk \in Renderer \cup {NoRenderer}
    /\ \A r \in Renderer : rend[r].pc \in {"idle", "key", "crt", "meta", "text", "load"}
    /\ conf.way \in {"internal", "file"}

(* Whenever no signing is on its way the key and the certificate on disk    *)
(* belong together, whoever signed at the same time                         *)
(* (static_gateway.py:478), unless a signing was cut.                       *)
PairOnDisk ==
    ~egh.cut /\ (\A r \in Renderer : rend[r].pc \notin {"key", "crt", "meta"})
        => keyF = crtF.n

(* At rest Caddy serves the certificate on disk, although its text does not *)
(* change with it (static_gateway.py:671-672, BUG-944), unless a reload was *)
(* lost.                                                                    *)
RenewedIsServed ==
    ~egh.missed /\ ~egh.cut /\ (\A r \in Renderer : rend[r].pc = "idle") /\ conf.way = "file"
        => loaded.crt.n = crtF.n

(* A signing that is cut leaves nothing that passes for complete            *)
(* (static_gateway.py:470).                                                 *)
HalfIsSeen ==
    (\A r \in Renderer : rend[r].pc \notin {"key", "crt", "meta"}) /\ Current(net) => keyF = crtF.n

(* The certificate of the entrance in one statement: key and certificate are *)
(* a pair, and the renewed one is served.                                    *)
CertIsSafe == CertTypeOK /\ PairOnDisk /\ RenewedIsServed
=============================================================================
