---------------------------- MODULE MCEntrances ----------------------------
(* Instances, for TLC, of the modules about the entrances: the gateways, the  *)
(* addresses and the certificate.  The modules share no state; one run       *)
(* checks them side by side, each behaviour in one of them.                  *)
EXTENDS GatewaySwitch, CaddyMaster, EntryCert, PathAlias, StaticHost,
        WslExposure, TLC

CONSTANTS s1, s2, c1, c2, n1, n2, r1, r2, b1, a1, a2, h1, h2, w1, w2, q1, g1, g2, t1, t2, f1, f2

VARIABLE part   \* the module this behaviour is about

Part == {"switch", "caddy", "cert", "alias", "host", "wsl"}

(* The variables of the other modules keep one initial value.               *)
Init ==
    /\ part \in Part
    /\ GatewayInit /\ (part # "switch" => backend = "caddy" /\ running = {})
    /\ CaddyInit /\ (part # "caddy" => \A p \in Pid : procs[p].ws = "none")
    /\ CertInit /\ (part # "cert" => net = n1)
    /\ AliasInit /\ (part # "alias" => acaddy /\ \A i \in DOMAIN up : up[i])
    /\ HostInit
    /\ WslInit /\ (part # "wsl" => world = (CHOOSE w \in FirstWorlds : TRUE) /\ served = w1)

Still ==
    /\ UNCHANGED part
    /\ part # "switch" => UNCHANGED gatewayVars
    /\ part # "caddy" => UNCHANGED caddyVars
    /\ part # "cert" => UNCHANGED certVars
    /\ part # "alias" => UNCHANGED aliasVars
    /\ part # "host" => UNCHANGED hostVars
    /\ part # "wsl" => UNCHANGED wslVars

Next ==
    \/ part = "switch" /\ GatewayNext /\ Still
    \/ part = "caddy" /\ CaddyNext /\ Still
    \/ part = "cert" /\ CertNext /\ Still
    \/ part = "alias" /\ AliasNext /\ Still
    \/ part = "host" /\ HostNext /\ Still
    \/ part = "wsl" /\ WslNext /\ Still

allVars == <<part, gatewayVars, caddyVars, certVars, aliasVars, hostVars, wslVars>>

Spec == Init /\ [][Next]_allVars
=============================================================================
