----------------------------- MODULE PathAlias -----------------------------
(* Path aliases (path_alias.py): the command that sets or clears the alias  *)
(* of an instance under the workspace's alias lock and the instance lock,    *)
(* and the start of an instance, which under the instance lock writes the    *)
(* fragment, verifies the alias and saves its manifest, and after it has let *)
(* go of the lock puts back an alias that was wished for.  What is done      *)
(* without the lock, there and in the check after a switch of the gateway,   *)
(* meets other commands on the same instance.                                *)
(* An alias stands in four places: the manifest, the registry, the fragment  *)
(* on disk and the configuration Caddy loaded last.                          *)
EXTENDS Integers

CONSTANTS AliasSite,       \* static instances
          Box,        \* container instances
          Slug,       \* aliases
          NoSlug,
          Finisher,   \* starts that have let go of the lock
          MaxAsk,     \* bound: alias commands of users
          MaxStart,   \* bound: starts, restarts and stops
          MaxAliasTrouble  \* bound: failing steps, crashes, lock timeouts

ASSUME AliasAssumption ==
    /\ AliasSite \cap Box = {} /\ NoSlug \notin Slug
    /\ "user" \notin Finisher /\ "nobody" \notin AliasSite \cup Box
    /\ MaxAsk \in Nat /\ MaxStart \in Nat /\ MaxAliasTrouble \in Nat

VARIABLES
    aman,      \* the alias fields of local-web.json
    arow,      \* the alias in the registry's static_sites and containers
    aconf,     \* aliases/<id>.conf
    aloaded,   \* what Caddy serves: the fragments of its last successful reload
    up,       \* the site is enabled, the container was deployed and has its port
    acaddy,    \* detect_backend() = "caddy"
    ask,      \* the holder of path_alias_lock
    start,    \* the start of each instance, which holds the instance lock
    wish,     \* what each start does after it
    glance,   \* the check after a switch, of one instance after the other
    agh,      \* ghost: asked since the last clear, verified once, loose (see below)
    spentAlias

aliasVars == <<aman, arow, aconf, aloaded, up, acaddy, ask, start, wish, glance, agh,
              spentAlias>>

Inst    == AliasSite \cup Box
MaybeSlug == Slug \cup {NoSlug}
Guard   == {"none", "passed", "failed", "skipped"}
AliasFields == [alias : MaybeSlug, desired : MaybeSlug, verified : MaybeSlug, guard : Guard]
Plain   == [alias |-> NoSlug, desired |-> NoSlug, verified |-> NoSlug, guard |-> "none"]

NoAsk   == [pc |-> "idle", on |-> "nobody", to |-> NoSlug, by |-> "user", m |-> Plain,
            had |-> NoSlug, guard |-> "none"]
NoStart == [pc |-> "idle", m |-> Plain, pre |-> FALSE, last |-> FALSE]
NoWish  == [pc |-> "none", on |-> "nobody", m |-> Plain]
NoGlance == [on |-> "nobody", m |-> Plain]

AliasTrouble ==
    spentAlias.trouble < MaxAliasTrouble /\ spentAlias' = [spentAlias EXCEPT !.trouble = @ + 1]
NoTrouble == UNCHANGED spentAlias
OneMore == spentAlias.starts < MaxStart /\ spentAlias' = [spentAlias EXCEPT !.starts = @ + 1]

(* instance_lock(i): held by a start and by the command on the instance.    *)
InstanceFree(i) == ask.on # i /\ start[i].pc = "idle"

(* An instance is loose once a command died half-way on it, a live check    *)
(* raised something the command does not handle, or a copy of its manifest  *)
(* that was read without the lock was written over what had changed since.  *)
Loose(i)   == [agh EXCEPT !.loose = @ \cup {i}]
Outdated(i, m) == <<aman[i].alias, aman[i].desired, aman[i].verified>>
                     # <<m.alias, m.desired, m.verified>>
Written(i, m)  == IF Outdated(i, m) THEN Loose(i) ELSE agh

(* reload_all: Caddy takes every fragment on disk, or keeps what it has. *)
Reloaded(c) == aloaded' = c
BestEffort(c) == \/ Reloaded(c) /\ NoTrouble
                 \/ UNCHANGED aloaded /\ AliasTrouble

----------------------------------------------------------------------------
(* The alias command                                                        *)

Taken(i, a) == \E j \in Inst \ {i} : arow[j] = a

(* What is decided under the locks before anything of the gateway changes.  *)
(* A start that puts back the wished alias gives up when the wish is        *)
(* another one by now.  Mutant: it does not look again.                     *)
StillWished_NoLook(i, a, by) == TRUE
StillWished(i, a, by) == by # "user" => aman[i].desired = a

Unwish(i, a) == IF a = NoSlug THEN [aman[i] EXCEPT !.desired = NoSlug] ELSE aman[i]

JudgeAlias(i, a, by) ==
    LET m == Unwish(i, a) IN
    \/ ~StillWished(i, a, by) /\ UNCHANGED <<aman, ask>>
    \/ /\ StillWished(i, a, by) /\ a = m.alias
       /\ aman' = [aman EXCEPT ![i] = IF a # NoSlug THEN [m EXCEPT !.desired = a] ELSE m]
       /\ UNCHANGED ask
    \/ /\ StillWished(i, a, by) /\ a # m.alias
       /\ a # NoSlug => ~Taken(i, a) /\ acaddy
       /\ aman' = [aman EXCEPT ![i] = m]
       /\ ask' = [NoAsk EXCEPT !.pc = "write", !.on = i, !.to = a, !.by = by, !.m = m]

AskAlias(i, a) ==
    /\ ask.pc = "idle" /\ InstanceFree(i)
    /\ spentAlias.asks < MaxAsk /\ spentAlias' = [spentAlias EXCEPT !.asks = @ + 1]
    /\ JudgeAlias(i, a, "user")
    /\ agh' = [agh EXCEPT !.asked[i] = IF {a, aman[i].alias} = {NoSlug} THEN {}
                                      ELSE @ \cup ({a} \ {NoSlug})]
    /\ UNCHANGED <<arow, aconf, aloaded, up, acaddy, start, wish, glance>>

(* _apply_gateway_alias: an instance without a port and a site that is not  *)
(* enabled are left to their start.                                         *)
Synced(i) == acaddy /\ up[i]

WriteFragment ==
    /\ ask.pc = "write"
    /\ IF Synced(ask.on)
          THEN /\ aconf' = [aconf EXCEPT ![ask.on] = ask.to]
               /\ ask' = [ask EXCEPT !.pc = "reload", !.had = aconf[ask.on]]
          ELSE /\ aconf' = IF acaddy THEN aconf ELSE [aconf EXCEPT ![ask.on] = NoSlug]
               /\ \E g \in {"passed", "skipped"} : ask' = [ask EXCEPT !.pc = "save", !.guard = g]
    /\ NoTrouble /\ UNCHANGED <<aman, arow, aloaded, up, acaddy, start, wish, glance, agh>>

(* _rollback_alias_config *)
FragmentBack ==
    [aconf EXCEPT ![ask.on] = IF ask.had # NoSlug THEN ask.had
                             ELSE IF @ # NoSlug THEN NoSlug ELSE ask.m.alias]

(* The command ends; a start that asked goes on, after an error with what   *)
(* it has read before (WishRefused).                                        *)
WishGoes(pc) ==
    wish' = IF ask.by = "user" THEN wish
            ELSE [wish EXCEPT ![ask.by] = IF pc = "none" THEN NoWish ELSE [@ EXCEPT !.pc = pc]]
AskFails(m) == ask' = NoAsk /\ aman' = [aman EXCEPT ![ask.on] = m] /\ WishGoes("refused")

ReloadAsked ==
    /\ ask.pc = "reload"
    /\ \/ /\ Reloaded(aconf) /\ NoTrouble
          /\ ask' = [ask EXCEPT !.pc = IF ask.to # NoSlug THEN "verify" ELSE "save"]
          /\ UNCHANGED <<aman, aconf, wish>>
       \/ /\ AliasTrouble /\ UNCHANGED aloaded
          /\ aconf' = FragmentBack /\ AskFails(aman[ask.on])
    /\ UNCHANGED <<arow, up, acaddy, start, glance, agh>>

(* verify_alias_live.  It can succeed only if Caddy has a route for the     *)
(* alias.                                                                   *)
IsReachable(a) == \E j \in Inst : aloaded[j] = a

VerifyPasses ==
    /\ ask.pc = "verify" /\ IsReachable(ask.to)
    /\ ask' = [ask EXCEPT !.pc = "save", !.guard = "passed", !.m.verified = ask.to]
    /\ agh' = [agh EXCEPT !.once[ask.on] = ask.to]
    /\ NoTrouble /\ UNCHANGED <<aman, arow, aconf, aloaded, up, acaddy, start, wish, glance>>

VerifySkipped ==
    /\ ask.pc = "verify"
    /\ ask' = [ask EXCEPT !.pc = "save", !.guard = "skipped"]
    /\ NoTrouble
    /\ UNCHANGED <<aman, arow, aconf, aloaded, up, acaddy, start, wish, glance, agh>>

(* Refused: the fragment goes back to what it was before the command wrote  *)
(* it, Caddy is reloaded, the wish is kept.  Mutant: the new fragment is    *)
(* taken for the old one.                                                   *)
AfterRefusal_ReadLate == aconf
AfterRefusal == FragmentBack

VerifyFails ==
    /\ ask.pc = "verify" /\ NoTrouble
    /\ aconf' = AfterRefusal /\ aloaded' = AfterRefusal
    /\ AskFails([ask.m EXCEPT !.desired = ask.to])
    /\ UNCHANGED <<arow, up, acaddy, start, glance, agh>>

(* The reload of the rollback fails and is only logged, or the live check   *)
(* raises an error that is no RecognitionError and nothing is rolled back.  *)
VerifyBreaks ==
    /\ ask.pc = "verify" /\ AliasTrouble
    /\ \/ aconf' = AfterRefusal /\ AskFails([ask.m EXCEPT !.desired = ask.to])
       \/ aconf' = aconf /\ AskFails(aman[ask.on])
    /\ agh' = Loose(ask.on)
    /\ UNCHANGED <<arow, aloaded, up, acaddy, start, glance>>

(* _apply_manifest_alias drops the mark of another alias, the stamps of the *)
(* command come after it.                                                   *)
Applied(m, a, g) ==
    [m EXCEPT !.alias = a, !.desired = a, !.guard = IF a = NoSlug THEN "none" ELSE g,
              !.verified = IF @ = a THEN @ ELSE NoSlug]

SaveAlias ==
    /\ ask.pc = "save"
    /\ aman' = [aman EXCEPT ![ask.on] = Applied(ask.m, ask.to, ask.guard)]
    /\ agh' = [agh EXCEPT !.asked[ask.on] = IF ask.to # NoSlug THEN @ ELSE {},
                          !.once[ask.on] = IF ask.m.verified = ask.to THEN @ ELSE NoSlug]
    /\ ask' = [ask EXCEPT !.pc = "row"]
    /\ NoTrouble /\ UNCHANGED <<arow, aconf, aloaded, up, acaddy, start, wish, glance>>

UpsertAlias ==
    /\ ask.pc = "row" /\ NoTrouble
    /\ arow' = [arow EXCEPT ![ask.on] = ask.to]
    /\ ask' = NoAsk /\ WishGoes("none")
    /\ UNCHANGED <<aman, aconf, aloaded, up, acaddy, start, glance, agh>>

AskDies ==
    /\ ask.pc # "idle" /\ AliasTrouble
    /\ ask' = NoAsk /\ WishGoes("none") /\ agh' = Loose(ask.on)
    /\ UNCHANGED <<aman, arow, aconf, aloaded, up, acaddy, start, glance>>

----------------------------------------------------------------------------
(* Starts                                                                   *)

(* start_instance, rebuild_instance and restart_instance, under the lock    *)
(* of the instance.  Enabling a site writes its fragment, a container gets  *)
(* it in the next step.  A restart is its own last step and counts every    *)
(* fragment as one that was there before.                                   *)
Deploy(i, kind) ==
    /\ InstanceFree(i) /\ OneMore
    /\ up' = [up EXCEPT ![i] = TRUE]
    /\ arow' = [arow EXCEPT ![i] = aman[i].alias]
    /\ aconf' = IF i \in AliasSite /\ acaddy /\ aman[i].alias # NoSlug
               THEN [aconf EXCEPT ![i] = aman[i].alias] ELSE aconf
    /\ aloaded' = IF i \in AliasSite /\ acaddy THEN aconf' ELSE aloaded
    /\ start' = [start EXCEPT ![i] = [pc |-> "sync", m |-> aman[i],
                                      pre |-> kind = "restart", last |-> kind = "restart"]]
    /\ UNCHANGED <<aman, acaddy, ask, wish, glance, agh>>

(* Whether a fragment is there is looked up after the deployment;           *)
(* _sync_alias_port then writes one that is missing or has another port.    *)
SyncAliasPort(i) ==
    /\ start[i].pc = "sync"
    /\ start' = [start EXCEPT ![i].pc = "verify", ![i].pre = @ \/ aconf[i] # NoSlug]
    /\ \/ /\ acaddy /\ start[i].m.alias # NoSlug
          /\ aconf' = [aconf EXCEPT ![i] = start[i].m.alias]
          /\ BestEffort(aconf')
       \/ /\ ~acaddy \/ start[i].m.alias = NoSlug \/ aconf[i] # NoSlug
          /\ NoTrouble /\ UNCHANGED <<aconf, aloaded>>
    /\ UNCHANGED <<aman, arow, up, acaddy, ask, wish, glance, agh>>

(* The start saves its copy and lets go of the lock.                        *)
KeepsCopy(i, m) ==
    /\ aman' = [aman EXCEPT ![i] = m]
    /\ start' = [start EXCEPT ![i] = NoStart]
    /\ \/ start[i].last /\ UNCHANGED wish
       \/ \E f \in Finisher :
             /\ ~start[i].last /\ wish[f] = NoWish
             /\ wish' = [wish EXCEPT ![f] = [pc |-> "look", on |-> i, m |-> m]]

StartVerified(i) ==
    LET m == start[i].m IN
    /\ start[i].pc = "verify" /\ NoTrouble
    /\ \/ m.alias = NoSlug /\ KeepsCopy(i, m) /\ agh' = agh
       \/ m.alias # NoSlug /\ KeepsCopy(i, [m EXCEPT !.guard = "skipped"]) /\ agh' = agh
       \/ /\ m.alias # NoSlug /\ acaddy /\ IsReachable(m.alias)
          /\ KeepsCopy(i, [m EXCEPT !.guard = "passed", !.verified = m.alias])
          /\ agh' = [agh EXCEPT !.once[i] = m.alias]
    /\ UNCHANGED <<arow, aconf, aloaded, up, acaddy, ask, glance>>

(* An alias that was verified before, or whose fragment was there before,   *)
(* survives a live check that fails.  Mutant: none does (issue #21).        *)
Established_Never(s) == FALSE
Established(s) == s.m.verified = s.m.alias \/ s.pre

StartUnverified(i) ==
    LET s == start[i] IN
    /\ s.pc = "verify" /\ s.m.alias # NoSlug /\ acaddy
    /\ \/ /\ Established(s) /\ NoTrouble
          /\ KeepsCopy(i, [s.m EXCEPT !.guard = "failed"])
          /\ UNCHANGED <<arow, aconf, aloaded>>
       \/ /\ ~Established(s)
          /\ aconf' = [aconf EXCEPT ![i] = NoSlug] /\ BestEffort(aconf')
          /\ aman' = [aman EXCEPT ![i] =
                        [Applied(s.m, NoSlug, "none") EXCEPT
                            !.desired = IF s.m.desired # NoSlug THEN s.m.desired ELSE s.m.alias]]
          /\ arow' = [arow EXCEPT ![i] = NoSlug]
          /\ start' = [start EXCEPT ![i] = NoStart] /\ UNCHANGED wish
    /\ UNCHANGED <<up, acaddy, ask, glance, agh>>

(* maybe_restore_desired_alias_after_start, without the lock of the         *)
(* instance: it reads the manifest again and asks for the wished alias,     *)
(* which waits for the locks.                                               *)
LookForWish(f) ==
    LET m == aman[wish[f].on] IN
    /\ wish[f].pc = "look" /\ NoTrouble
    /\ wish' = [wish EXCEPT ![f] = IF m.desired \in {NoSlug, m.alias} THEN NoWish
                                   ELSE [@ EXCEPT !.pc = "wish", !.m = m]]
    /\ UNCHANGED <<aman, arow, aconf, aloaded, up, acaddy, ask, start, glance, agh>>

RestoreWish(f) ==
    LET i == wish[f].on IN
    /\ wish[f].pc = "wish" /\ ask.pc = "idle" /\ InstanceFree(i) /\ NoTrouble
    /\ JudgeAlias(i, wish[f].m.desired, f)
    /\ wish' = [wish EXCEPT ![f] = IF ask'.pc = "idle" THEN NoWish ELSE [@ EXCEPT !.pc = "asked"]]
    /\ UNCHANGED <<arow, aconf, aloaded, up, acaddy, start, glance, agh>>

(* The alias is taken, the page is refused, Caddy is gone, or the locks are *)
(* not to be had in time.                                                   *)
WishTurnedDown(f) ==
    /\ wish[f].pc = "wish"
    /\ \/ (~acaddy \/ Taken(wish[f].on, wish[f].m.desired)) /\ NoTrouble
       \/ AliasTrouble
    /\ wish' = [wish EXCEPT ![f].pc = "refused"]
    /\ UNCHANGED <<aman, arow, aconf, aloaded, up, acaddy, ask, start, glance, agh>>

(* However the command failed, the start notes it in the copy it read       *)
(* before, and saves that and its row without a lock.                       *)
WishRefused(f) ==
    LET w == wish[f] IN
    /\ w.pc = "refused" /\ NoTrouble
    /\ aman' = [aman EXCEPT ![w.on] = [w.m EXCEPT !.guard = "failed"]]
    /\ arow' = [arow EXCEPT ![w.on] = w.m.alias]
    /\ wish' = [wish EXCEPT ![f] = NoWish] /\ agh' = Written(w.on, w.m)
    /\ UNCHANGED <<aconf, aloaded, up, acaddy, ask, start, glance>>

(* The process of a start dies in it or after it.                           *)
StarterDies ==
    /\ AliasTrouble
    /\ \/ \E i \in Inst : /\ start[i].pc # "idle" /\ UNCHANGED wish
                           /\ start' = [start EXCEPT ![i] = NoStart]
       \/ \E f \in Finisher : /\ wish[f].pc \in {"look", "wish", "refused"} /\ UNCHANGED start
                               /\ wish' = [wish EXCEPT ![f] = NoWish]
    /\ UNCHANGED <<aman, arow, aconf, aloaded, up, acaddy, ask, glance, agh>>

(* stop_instance: a site loses its fragment, a container keeps it. *)
StopServing(i) ==
    /\ up[i] /\ InstanceFree(i) /\ i \in AliasSite /\ OneMore
    /\ up' = [up EXCEPT ![i] = FALSE]
    /\ aconf' = [aconf EXCEPT ![i] = NoSlug]
    /\ aloaded' = IF acaddy THEN aconf' ELSE aloaded
    /\ UNCHANGED <<aman, arow, acaddy, ask, start, wish, glance, agh>>

(* After a switch of the gateway every site with an alias is checked: its   *)
(* manifest is read, the check made and the manifest saved, without a lock. *)
SwitchGlances(i) ==
    /\ glance.on = "nobody" /\ acaddy /\ i \in AliasSite /\ aman[i].alias # NoSlug /\ OneMore
    /\ glance' = [on |-> i, m |-> aman[i]]
    /\ UNCHANGED <<aman, arow, aconf, aloaded, up, acaddy, ask, start, wish, agh>>

SwitchNotes ==
    LET m == glance.m IN
    /\ glance.on # "nobody" /\ NoTrouble
    /\ \/ aman' = [aman EXCEPT ![glance.on] = [m EXCEPT !.guard = "failed"]]
       \/ /\ IsReachable(m.alias)
          /\ aman' = [aman EXCEPT ![glance.on] =
                         [m EXCEPT !.guard = "passed", !.verified = m.alias]]
    /\ glance' = NoGlance /\ agh' = Written(glance.on, m)
    /\ UNCHANGED <<arow, aconf, aloaded, up, acaddy, ask, start, wish>>

----------------------------------------------------------------------------
AliasInit ==
    /\ aman = [i \in Inst |-> Plain]
    /\ arow = [i \in Inst |-> NoSlug] /\ aconf = arow /\ aloaded = arow
    /\ up \in [Inst -> BOOLEAN] /\ acaddy \in BOOLEAN
    /\ ask = NoAsk /\ start = [i \in Inst |-> NoStart]
    /\ wish = [f \in Finisher |-> NoWish] /\ glance = NoGlance
    /\ agh = [asked |-> [i \in Inst |-> {}], once |-> [i \in Inst |-> NoSlug],
              loose |-> {}]
    /\ spentAlias = [asks |-> 0, starts |-> 0, trouble |-> 0]

AliasCommand ==
    \/ \E i \in Inst, a \in MaybeSlug : AskAlias(i, a)
    \/ WriteFragment \/ ReloadAsked \/ VerifyPasses \/ VerifySkipped \/ VerifyFails
    \/ VerifyBreaks \/ SaveAlias \/ UpsertAlias \/ AskDies

AliasStart(i) ==
    \/ Deploy(i, "start") \/ Deploy(i, "restart") \/ SyncAliasPort(i) \/ StartVerified(i)
    \/ StartUnverified(i) \/ StopServing(i) \/ SwitchGlances(i)

AliasFinish(f) == LookForWish(f) \/ RestoreWish(f) \/ WishTurnedDown(f) \/ WishRefused(f)

AliasNext ==
    \/ AliasCommand \/ StarterDies \/ SwitchNotes
    \/ \E i \in Inst : AliasStart(i)
    \/ \E f \in Finisher : AliasFinish(f)

AliasSpec == AliasInit /\ [][AliasNext]_aliasVars

----------------------------------------------------------------------------
AliasTypeOK ==
    /\ aman \in [Inst -> AliasFields]
    /\ arow \in [Inst -> MaybeSlug] /\ aconf \in [Inst -> MaybeSlug]
    /\ aloaded \in [Inst -> MaybeSlug]
    /\ up \in [Inst -> BOOLEAN] /\ acaddy \in BOOLEAN
    /\ ask.on \in Inst \cup {"nobody"} /\ ask.to \in MaybeSlug /\ ask.m \in AliasFields
    /\ \A i \in Inst : start[i].m \in AliasFields
    /\ \A f \in Finisher : wish[f].on \in Inst \cup {"nobody"} /\ wish[f].m \in AliasFields
    /\ glance.on \in AliasSite \cup {"nobody"} /\ glance.m \in AliasFields

(* Two instances never hold one alias, and what a finished command or start *)
(* leaves behind agrees: the registry, which alone is asked whether an      *)
(* alias is free, has the manifest's alias, and a fragment on disk is for   *)
(* no other.  Instances that are loose are set aside, see the README.       *)
AliasesApart ==
    \A i \in Inst \ agh.loose : InstanceFree(i) =>
        /\ arow[i] = aman[i].alias
        /\ aconf[i] \in {NoSlug, aman[i].alias}
        /\ \A j \in Inst \ (agh.loose \cup {i}) :
              InstanceFree(j) /\ aman[i].alias # NoSlug => aman[j].alias # aman[i].alias

(* No start brings an alias back that the user has cleared: the alias of an *)
(* instance is one that was asked for since it was cleared last (BUG-662).  *)
ClearedStays ==
    \A i \in Inst \ agh.loose :
        ask.on # i /\ aman[i].alias # NoSlug => aman[i].alias \in agh.asked[i]

(* A start never withdraws an alias that has passed a live check once and   *)
(* has not been changed since (issue #21).                                  *)
VerifiedStays ==
    [][\A i \in Inst \ agh.loose : start[i].pc = "verify" /\ start'[i].pc # "verify"
            /\ aman[i].alias # NoSlug /\ agh.once[i] = aman[i].alias
        => aman'[i].alias = aman[i].alias]_aliasVars

(* Aliases in one statement: apart, cleared for good, and kept once          *)
(* verified.                                                                 *)
AliasIsSafe == []AliasTypeOK /\ []AliasesApart /\ []ClearedStays /\ VerifiedStays
=============================================================================
